---------------------------- MODULE OcpInventory ----------------------------
(***************************************************************************)
(* The inventory of an OpenShift provider (provider/container/ocp): each   *)
(* collection lists the resources of its kind into the DB (Reconcile), and *)
(* is called back with the events of the watch on its Object(). What calls *)
(* it is in a library: it loads the collections in order, watches their    *)
(* objects from some time on, applies the events once all is loaded, and   *)
(* leaves out those of versions up to the threshold it was given.          *)
(*                                                                         *)
(* There is at most one resource of each kind at a time; a resource is its *)
(* version, 0 when there is none.                                          *)
(***************************************************************************)
EXTENDS Naturals, Sequences

CONSTANTS
  MaxChanges,   \* bound: how many changes of the cluster
  MaxFaults     \* bound: how many failed collections and restarts

ASSUME OcpAssumption == MaxChanges \in Nat /\ MaxFaults \in Nat

VARIABLES
  cluster,    \* the resource of each kind
  version,    \* the last version the cluster gave
  resources,  \* the DB
  session,    \* "down", "loading" or, when consistent, "up"
  todo,       \* the collections still to be loaded
  list,       \* what the first of them has listed, if it has
  threshold,  \* the version up to which events are of no interest
  watching,   \* the collections whose objects are watched
  events,     \* the events to come
  early,      \* kinds that changed since the session began to load
  faults

ocpVars == <<cluster, version, resources, session, todo, list, threshold, watching,
             events, early, faults>>

Collections == <<"Namespace", "NetworkAttachmentDefinition", "StorageClass">>
Kinds == {Collections[i] : i \in 1..Len(Collections)}
NoResource == 0
NotListed == <<>>

(* Mutant of Object: network attachments are not told of either.           *)
ObjectOfTheLast(collection) == "StorageClass"

(* Get the kubernetes object being collected. A namespace is collected     *)
(* and a storage class is watched.                                         *)
Object(collection) == IF collection = "Namespace" THEN "StorageClass" ELSE collection

Fault == faults > 0 /\ faults' = faults - 1

(***************************************************************************)
(* The cluster.                                                            *)
(***************************************************************************)
Event(collection, old, new) ==
  [to |-> collection, kind |-> Object(collection), old |-> old, new |-> new,
   at |-> version']

(* An event for every collection that watches the kind.                    *)
Told(kind, new) ==
  LET Notice(c) == IF c \in watching /\ Object(c) = kind
                   THEN <<Event(c, cluster[kind], new)>> ELSE <<>>
  IN  Notice("Namespace") \o Notice("NetworkAttachmentDefinition") \o Notice("StorageClass")

(* A resource is created, updated or deleted.                              *)
Change(kind, new) ==
  /\ version < MaxChanges /\ version' = version + 1
  /\ new \in {version + 1, NoResource} /\ new # cluster[kind]
  /\ cluster' = [cluster EXCEPT ![kind] = new]
  /\ events' = events \o Told(kind, new)
  /\ early' = IF session = "loading" THEN early \cup {kind} ELSE early
  /\ UNCHANGED <<resources, session, todo, list, threshold, watching, faults>>

(***************************************************************************)
(* Loading.                                                                *)
(***************************************************************************)
Start ==
  /\ session = "down" /\ session' = "loading"
  /\ todo' = Collections /\ list' = NotListed
  /\ watching' = {} /\ events' = <<>> /\ threshold' = 0 /\ early' = {}
  /\ UNCHANGED <<cluster, version, resources, faults>>

(* The watch on the object of a collection begins with those there are.    *)
Watch(collection) ==
  LET kind == Object(collection)
  IN  /\ session = "loading" /\ collection \notin watching
      /\ watching' = watching \cup {collection}
      /\ events' =
           IF cluster[kind] = NoResource THEN events
           ELSE Append(events, [to |-> collection, kind |-> kind, old |-> NoResource,
                                new |-> cluster[kind], at |-> cluster[kind]])
      /\ UNCHANGED <<cluster, version, resources, session, todo, list, threshold, early, faults>>

(* Mutant of Listed: the threshold is not updated.                         *)
ListedOnly ==
  list' = <<cluster[Head(todo)]>> /\ UNCHANGED threshold

(* Mutant of Listed: the threshold is the version after the newest listed. *)
ListedPast ==
  /\ list' = <<cluster[Head(todo)]>>
  /\ threshold' = IF list'[1] >= threshold THEN list'[1] + 1 ELSE threshold

(* pClient.List, UpdateThreshold                                           *)
Listed ==
  /\ list' = <<cluster[Head(todo)]>>
  /\ threshold' = IF list'[1] > threshold THEN list'[1] ELSE threshold

List ==
  /\ session = "loading" /\ todo # <<>> /\ list = NotListed
  /\ Listed
  /\ UNCHANGED <<cluster, version, resources, session, todo, watching, events, early, faults>>

(* Insert and Commit: rows that are not listed are left as they are.       *)
Insert ==
  /\ session = "loading" /\ list # NotListed
  /\ resources' =
       IF list[1] = NoResource THEN resources ELSE [resources EXCEPT ![Head(todo)] = list[1]]
  /\ todo' = Tail(todo) /\ list' = NotListed
  /\ UNCHANGED <<cluster, version, session, threshold, watching, events, early, faults>>

(* List, Insert or Commit fails: all collections are loaded again.         *)
Failed ==
  /\ session = "loading" /\ todo # <<>> /\ Fault
  /\ todo' = Collections /\ list' = NotListed
  /\ UNCHANGED <<cluster, version, resources, session, threshold, watching, events, early>>

Loaded ==
  /\ session = "loading" /\ todo = <<>> /\ watching = Kinds
  /\ session' = "up"
  /\ UNCHANGED <<cluster, version, resources, todo, list, threshold, watching, events,
                 early, faults>>

(***************************************************************************)
(* Events.                                                                 *)
(***************************************************************************)
(* Create, Update, Delete: an object of another kind is not cast.          *)
Followed(e) == IF e.kind = e.to THEN [resources EXCEPT ![e.to] = e.new] ELSE resources

Deliver ==
  LET e == Head(events)
  IN  /\ session = "up" /\ events # <<>>
      /\ events' = Tail(events)
      /\ resources' = IF e.at > threshold THEN Followed(e) ELSE resources
      /\ UNCHANGED <<cluster, version, session, todo, list, threshold, watching,
                     early, faults>>

(* The process restarts, and opens the DB empty.                           *)
Restart ==
  /\ session # "down" /\ Fault
  /\ session' = "down"
  /\ resources' = [k \in Kinds |-> NoResource]
  /\ todo' = <<>> /\ list' = NotListed /\ watching' = {} /\ events' = <<>>
  /\ UNCHANGED <<cluster, version, threshold, early>>

OcpInit ==
  /\ version = 0 /\ cluster = [k \in Kinds |-> NoResource] /\ resources = cluster
  /\ session = "down" /\ todo = <<>> /\ list = NotListed /\ threshold = 0
  /\ watching = {} /\ events = <<>> /\ early = {} /\ faults = MaxFaults

Load == Start \/ List \/ Insert \/ Loaded \/ \E c \in Kinds : Watch(c)

OcpNext ==
  \/ \E k \in Kinds, new \in 0..MaxChanges : Change(k, new)
  \/ Load \/ Deliver \/ Failed \/ Restart

OcpSpec == OcpInit /\ [][OcpNext]_ocpVars

(* The library goes on loading and delivers what the watches report.       *)
FairOcpSpec == OcpSpec /\ WF_ocpVars(Load) /\ WF_ocpVars(Deliver)

(***************************************************************************)
(* Properties.                                                             *)
(***************************************************************************)
EventType == [to : Kinds, kind : Kinds, old : Nat, new : Nat, at : Nat]

(* Every variable has its type.                                            *)
OcpTypeOK ==
  /\ cluster \in [Kinds -> 0..version] /\ resources \in [Kinds -> 0..version]
  /\ session \in {"down", "loading", "up"}
  /\ todo \in Seq(Kinds) /\ list \in Seq(0..version) /\ Len(list) <= 1
  /\ threshold \in 0..version /\ watching \subseteq Kinds
  /\ events \in Seq(EventType) /\ early \subseteq Kinds
  /\ version \in Nat /\ faults \in Nat

(* A watch may report what was before a list; still a row is never         *)
(* replaced by an older version of its resource, nor does a deletion that  *)
(* was before the list remove it (Reconcile, UpdateThreshold, Create,      *)
(* Update, Delete).                                                        *)
NeverBackwards ==
  [][session = "up" /\ session' = "up" =>
       \A k \in Kinds : resources'[k] # resources[k] =>
          IF resources'[k] = NoResource THEN Head(events).at > resources[k]
          ELSE resources'[k] > resources[k]]_ocpVars

Converges(kind) == <>[](kind \in early \/ resources[kind] = cluster[kind])

(* When the cluster is at rest, the network attachment and the storage     *)
(* class are as in the cluster, unless they changed while the session      *)
(* began: such a change may be before another collection's list and is     *)
(* then below the threshold all collections share (UpdateThreshold).       *)
InventoryConverges ==
  Converges("NetworkAttachmentDefinition") /\ Converges("StorageClass")
=============================================================================
