------------------------------ MODULE Builder ------------------------------
(***************************************************************************)
(* The vSphere builder (pkg/controller/plan/builder/vsphere): what it puts *)
(* into the secret and the import of a VM.  Operators over                 *)
(*                                                                         *)
(*   answers  what the finder answers to each reference of a list:         *)
(*            results of InventoryClient                                   *)
(*   hosts    the Host CRs by the ID of the host they refer to             *)
(*   vm       [host, nets, stores]: where it is and what it uses           *)
(*                                                                         *)
(* A Host CR [ref, ready, address] has a secret of its own; the address is *)
(* that of an ESX host, named by its ID.  Only the host that answers for   *)
(* its own thumbprint can be connected to.                                 *)
(***************************************************************************)
EXTENDS InventoryClient

VCenter == "vcenter"

(***************************************************************************)
(* loadHosts.  The map keeps the address of the loop variable: each entry  *)
(* is the last Host of the list, whichever was found.                      *)
(***************************************************************************)
Matched(list, answers) == {answers[i] : i \in {j \in DOMAIN list : list[j].ready}}

HostsLoad(list, answers) == \A r \in Matched(list, answers) : r.is \in {"found", "NotFound"}

LoadHosts(list, answers) ==
  [id \in {r.id : r \in {q \in Matched(list, answers) : q.is = "found"}} |-> Last(list)]

(***************************************************************************)
(* Secret: the source that the import is to read from, and the thumbprint  *)
(* it is to find there.                                                    *)
(***************************************************************************)
Place(hosts, vm) == IF vm.host \in DOMAIN hosts THEN hosts[vm.host].address ELSE VCenter

Secret(hosts, vm) ==
  [url |-> Place(hosts, vm),
   thumbprint |-> IF vm.host \in DOMAIN hosts THEN vm.host ELSE VCenter]

(***************************************************************************)
(* Provisioner: the mode of that name, or the default.                     *)
(***************************************************************************)
ModeOf(modes, name) ==
  CASE \E m \in modes : m.name = name -> CHOOSE m \in modes : m.name = name
    [] modes = {} -> [name |-> name, priority |-> 0]
    [] OTHER -> CHOOSE m \in modes : \A n \in modes : m.priority <= n.priority

(* defaultModes, for the volume mode: access modes are not sent, and       *)
(* networks have none.  The modes are those of the class's provisioner.    *)
VolumeModeFor(provisioners, class, asked) ==
  IF asked = "" /\ class \in DOMAIN provisioners
  THEN ModeOf(provisioners[class], asked).name ELSE asked

(***************************************************************************)
(* mapping: entry by entry, the ones the VM does not use are left out.  An *)
(* entry [kind, source, target, mode] stops it when its source is not      *)
(* found or the ESX host cannot be asked.  When the storage class cannot   *)
(* be read it stops too, with neither a mapping nor an error.              *)
(***************************************************************************)
(* Mutant of Needed: what the VM uses is not looked at.                    *)
NeededAlways(vm, entry, id) == TRUE

Needed(vm, entry, id) == id \in IF entry.kind = "Network" THEN vm.nets ELSE vm.stores

CanTranslate(hosts, vm) == vm.host \in DOMAIN hosts => hosts[vm.host].address = vm.host

Outcome(r, hosts, vm, entry, classes) ==
  CASE r.is # "found" -> "error"
    [] r.is = "found" /\ ~Needed(vm, entry, r.id) -> "skip"
    [] r.is = "found" /\ Needed(vm, entry, r.id) /\ ~CanTranslate(hosts, vm) -> "error"
    [] OTHER -> IF entry.kind = "Datastore" /\ ~classes THEN "lost" ELSE "item"

(* Networks come before datastores.                                        *)
Stop(outcomes) ==
  LET stops == {i \in DOMAIN outcomes : outcomes[i] \in {"error", "lost"}}
  IN  IF stops = {} THEN "item" ELSE outcomes[CHOOSE i \in stops : \A j \in stops : i <= j]

Item(hosts, vm, entry, id, provisioners) ==
  [at |-> Place(hosts, vm), id |-> id, target |-> entry.target,
   mode |-> VolumeModeFor(provisioners, entry.target, entry.mode)]

Mapping(answers, hosts, vm, entries, classes, provisioners) ==
  LET outcomes == [i \in DOMAIN entries |-> Outcome(answers[i], hosts, vm, entries[i], classes)]
      item(i) == Item(hosts, vm, entries[i], answers[i].id, provisioners)
  IN  [is |-> Stop(outcomes),
       items |-> IF Stop(outcomes) = "item"
                 THEN {item(i) : i \in {j \in DOMAIN entries : outcomes[j] = "item"}}
                 ELSE {}]
=============================================================================
