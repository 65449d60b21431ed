-------------------------- MODULE InventoryClient --------------------------
(***************************************************************************)
(* How the other controllers look objects up in a provider's inventory:    *)
(* the handlers of the web service (pkg/controller/provider/web/base and   *)
(* vsphere) and the client and finder that call them (web/client.go,       *)
(* web/vsphere/client.go).  Operators over what the service has at the     *)
(* moment of a call:                                                       *)
(*                                                                         *)
(*   s    [found, consistent, type, rows]: the provider's container        *)
(*   row  [id, path]: an object; path runs from its datacenter to its name *)
(*   ref  [id, name]: a reference; name runs to the object's name, perhaps *)
(*        qualified by what it is in; None where it is not set             *)
(***************************************************************************)
EXTENDS Naturals, FiniteSets, SequencesExt

None == "none"
Unset == <<>>

NotSet(ref) == ref.id = None /\ ref.name = Unset

(***************************************************************************)
(* The handlers.                                                           *)
(***************************************************************************)
(* Prepare waits for consistency and says so when it does not come.        *)
Prepare(s) == IF ~s.found THEN 404 ELSE IF ~s.consistent THEN 206 ELSE 200

ProviderStatus(s, type) ==
  IF Prepare(s) = 200 /\ s.type # type THEN 404 ELSE Prepare(s)

(* The predicate of a list is the name alone.                              *)
Named(rows, name) == {r \in rows : Last(r.path) = Last(name)}

PathMatch(path, name) == IsSuffix(name, path)

PathMatchRoot(path, name) == Head(path) = Head(name)

(* A qualified name chooses among several; one is not looked at again.     *)
Chooses(list, name) == Cardinality(list) > 1 /\ Len(name) > 1

FilterVMs(list, name) ==
  IF Chooses(list, name) THEN {r \in list : PathMatch(r.path, name)} ELSE list

(* A host, a network or a datastore: the first part of its path is enough. *)
FilterHosts(list, name) ==
  IF Chooses(list, name) THEN {r \in list : PathMatchRoot(r.path, name)} ELSE list

FilterNetworks(list, name) == FilterHosts(list, name)

FilterDatastores(list, name) == FilterHosts(list, name)

ListVMs(rows, name) == FilterVMs(Named(rows, name), name)
ListHosts(rows, name) == FilterHosts(Named(rows, name), name)
ListNetworks(rows, name) == FilterNetworks(Named(rows, name), name)
ListDatastores(rows, name) == FilterDatastores(Named(rows, name), name)

Listed(kind, rows, name) ==
  CASE kind = "VM" -> ListVMs(rows, name)
    [] kind = "Host" -> ListHosts(rows, name)
    [] kind = "Network" -> ListNetworks(rows, name)
    [] kind = "Datastore" -> ListDatastores(rows, name)

GetStatus(s, id) ==
  IF Prepare(s) = 200 /\ \A r \in s.rows : r.id # id THEN 404 ELSE Prepare(s)

(***************************************************************************)
(* The client.  A result is an object's ID, or says why there is none.     *)
(***************************************************************************)
Result(what, id) == [is |-> what, id |-> id]

(* ProviderClient.find: asked once by a client that was answered.          *)
ProviderFound(s, type) == ProviderStatus(s, type) = 200

Get(s, id) ==
  CASE GetStatus(s, id) = 200 -> Result("found", id)
    [] GetStatus(s, id) = 404 -> Result("NotFound", None)
    [] OTHER -> Result("error", None)

(* RestClient: what comes with another status is not read.                 *)
Decoded(status, content) == IF status = 200 THEN content ELSE {}

(* No status but 200 is told apart: the list stays empty.                  *)
List(kind, s, name) == Decoded(Prepare(s), Listed(kind, s.rows, name))

(* Mutant of FindByName: the first of several is taken.                    *)
FindFirstByName(kind, s, name) ==
  LET list == List(kind, s, name) IN
  IF list = {} THEN Result("NotFound", None)
  ELSE Result("found", (CHOOSE r \in list : TRUE).id)

FindByName(kind, s, name) ==
  LET list == List(kind, s, name) IN
  CASE list = {} -> Result("NotFound", None)
    [] Cardinality(list) > 1 -> Result("RefNotUnique", None)
    [] OTHER -> Result("found", (CHOOSE r \in list : TRUE).id)

(* Finder.ByRef, for VMs, networks, datastores and hosts.                  *)
ByRef(kind, s, ref) ==
  IF ref.id # None THEN Get(s, ref.id) ELSE FindByName(kind, s, ref.name)
=============================================================================
