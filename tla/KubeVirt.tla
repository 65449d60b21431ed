------------------------------ MODULE KubeVirt ------------------------------
(***************************************************************************)
(* How a plan's passes create the imports of its VMs on the destination    *)
(* (pkg/controller/plan/kubevirt.go, called from Migration.Run), call by   *)
(* call: PlanController has the whole of it in one step.  Between two      *)
(* calls the source moves a VM, the inventory is lost, the destination     *)
(* collects garbage, runs imports and takes its time to delete one, and    *)
(* the user deletes one.  The destination is another cluster, whose client *)
(* has no cache.                                                           *)
(***************************************************************************)
EXTENDS Builder

CONSTANTS
  Plan,          \* the VMs of the plan, in order: references
  Rows,          \* the inventory: the objects of each kind
  Uses,          \* what a VM uses: [nets, stores]
  Entries,       \* the map of the migration's snapshot
  HostLists,     \* Host CRs there may be
  Provisioners,  \* volume modes by storage class
  Suffix,        \* the last characters of a migration's UID, by migration
  Faults, MaxFaults

FaultKinds == {"api", "crash", "delete", "move", "inventory", "classes"}

ASSUME KubeVirtAssumption ==
  /\ Plan \in Seq([id : {r.id : r \in Rows["VM"]} \cup {None}, name : Seq(STRING)])
  /\ Suffix \in Seq(STRING) /\ Suffix # <<>>
  /\ Faults \subseteq FaultKinds /\ MaxFaults \in Nat

VARIABLES
  hostCRs,    \* the Host CRs of the provider
  place,      \* the host of each VM
  inv,        \* the source's container: [found, consistent]
  classes,    \* the inventory of the destination answers
  active,     \* the migration that is executed
  vms,        \* the statuses of the VMs, as persisted: [phase, error, id]
  imports, secrets,  \* on the destination, by name
  pc, w, i,   \* a pass, its copy of the statuses, and the VM it is at
  found,      \* its inventory client has been answered
  hosts,      \* what its builder has loaded
  object,     \* what it is about to create, or has read
  retry,
  listed,     \* its list of the imports, once it has one
  moved,      \* a VM moved in this pass (history)
  budget

destVars == <<imports, secrets>>
sourceVars == <<hostCRs, place, inv, classes>>
passVars == <<pc, w, i, found, hosts, object, retry, listed, moved>>
vars == <<sourceVars, active, vms, destVars, passVars, budget>>

(* What the finder says of a reference of the plan when it is answered.    *)
Denoted(k) ==
  ByRef("VM", [found |-> TRUE, consistent |-> TRUE, type |-> "vsphere", rows |-> Rows["VM"]], Plan[k])

(* A plan that names a VM twice is not Ready (validateVM).                 *)
ASSUME PlanAssumption ==
  \A j, k \in DOMAIN Plan : j # k /\ Denoted(j).is = "found" => Denoted(j) # Denoted(k)

VMIds == {r.id : r \in Rows["VM"]}
Names == VMIds \X {Suffix[m] : m \in DOMAIN Suffix}

NoSecret == [here |-> FALSE, owner |-> "none", from |-> [url |-> None, thumbprint |-> None]]
NoImport == [state |-> "absent", dying |-> FALSE, migration |-> 0, mapping |-> [is |-> "item", items |-> {}]]

Fault(kind) == kind \in Faults /\ budget > 0 /\ budget' = budget - 1

(***************************************************************************)
(* The inventory.                                                          *)
(***************************************************************************)
Served(kind) ==
  [found |-> inv.found, consistent |-> inv.consistent, type |-> "vsphere", rows |-> Rows[kind]]

Find(kind, ref) == ByRef(kind, Served(kind), ref)

HostAnswers == [k \in DOMAIN hostCRs |-> Find("Host", hostCRs[k].ref)]
EntryAnswers == [k \in DOMAIN Entries |-> Find(Entries[k].kind, Entries[k].source)]

VMOf(id) == [host |-> place[id], nets |-> Uses[id].nets, stores |-> Uses[id].stores]

(***************************************************************************)
(* The pass.                                                               *)
(***************************************************************************)
At == w[i]
(* nameForImport and nameForSecret.                                        *)
Name(id) == <<id, Suffix[active]>>

Nothing == NoSecret.from

Idle ==
  /\ pc' = "Idle" /\ w' = vms' /\ i' = 1 /\ found' = FALSE /\ hosts' = [h \in {} |-> None]
  /\ object' = Nothing /\ retry' = 0 /\ listed' = <<>> /\ moved' = FALSE

(* Nothing of the pass is persisted.                                       *)
Abort == UNCHANGED <<sourceVars, active, vms, destVars>> /\ Idle

(* The inventory's client, and Load.                                       *)
BeginPass ==
  /\ pc = "Idle" /\ \E k \in DOMAIN vms : vms[k].phase # "Completed"
  /\ UNCHANGED <<sourceVars, active, vms, destVars, budget>>
  /\ LET asked == \E k \in DOMAIN hostCRs : hostCRs[k].ready
         loads == asked => ProviderFound(Served("Host"), "vsphere") /\ HostsLoad(hostCRs, HostAnswers)
     IN  IF loads
         THEN /\ pc' = "Loop" /\ w' = vms /\ i' = 1
              /\ found' = asked
              /\ hosts' = LoadHosts(hostCRs, HostAnswers)
              /\ UNCHANGED <<object, retry, listed, moved>>
         ELSE Idle

Stays == UNCHANGED <<w, i, found, hosts, listed, moved>>

Leave(status) ==
  /\ w' = [w EXCEPT ![i] = status]
  /\ i' = i + 1 /\ pc' = "Loop" /\ object' = Nothing /\ retry' = 0
  /\ UNCHANGED <<hosts, moved>>

(* AddError, and the errored VM goes to Completed.                         *)
Fails == [At EXCEPT !.error = TRUE, !.phase = "Completed"]
FailVM == Leave(Fails) /\ UNCHANGED <<found, listed>>

Handles(phase) == pc = "Loop" /\ i <= Len(w) /\ At.phase = phase

SkipCompleted ==
  /\ Handles("Completed")
  /\ Leave(At) /\ UNCHANGED <<found, listed, destVars>>

(* EnsureSecret: the VM is looked up, through a client that asks for the   *)
(* provider once.                                                          *)
FindVM ==
  /\ Handles("CreateImport")
  /\ UNCHANGED destVars
  /\ IF ~found /\ ~ProviderFound(Served("VM"), "vsphere")
     THEN Abort
     ELSE LET r == Find("VM", Plan[i]) IN
          IF r.is = "found"
          THEN /\ pc' = "BuildSecret" /\ w' = [w EXCEPT ![i].id = r.id] /\ found' = TRUE
               /\ UNCHANGED <<i, hosts, object, retry, listed, moved>>
          ELSE Leave(Fails) /\ found' = TRUE /\ UNCHANGED listed

(* hostID and host look the VM and its host up again; what they answer     *)
(* does not say that the provider is not ready.                            *)
BuildSecret ==
  /\ pc = "BuildSecret"
  /\ UNCHANGED destVars
  /\ IF Find("VM", Plan[i]).is = "found"
     THEN /\ pc' = "CreateSecret" /\ object' = Secret(hosts, VMOf(At.id)) /\ retry' = 3
          /\ Stays
     ELSE FailVM

(* ensureObject: created, or deleted and created again.                    *)
Ensure(exists, created, deletion) ==
  IF ~exists THEN created ELSE IF retry > 0 THEN deletion ELSE FailVM /\ UNCHANGED destVars

(* Mutant of CreateSecret: a secret that exists will do.                   *)
CreateSecretOnce ==
  /\ pc = "CreateSecret"
  /\ pc' = "BuildImport" /\ object' = Nothing /\ retry' = 0 /\ Stays
  /\ secrets' = IF secrets[Name(At.id)].here THEN secrets
                ELSE [secrets EXCEPT ![Name(At.id)] = [here |-> TRUE, owner |-> "none", from |-> object]]
  /\ UNCHANGED imports

CreateSecret ==
  /\ pc = "CreateSecret"
  /\ Ensure(secrets[Name(At.id)].here,
       /\ pc' = "BuildImport" /\ object' = Nothing /\ retry' = 0 /\ Stays
       /\ secrets' = [secrets EXCEPT ![Name(At.id)] =
                        [here |-> TRUE, owner |-> "none", from |-> object]]
       /\ UNCHANGED imports,
       /\ pc' = "DeleteSecret" /\ retry' = retry - 1
       /\ UNCHANGED <<object, destVars>> /\ Stays)

DeleteSecret ==
  /\ pc = "DeleteSecret"
  /\ pc' = "CreateSecret" /\ UNCHANGED <<object, retry>> /\ Stays
  /\ secrets' = [secrets EXCEPT ![Name(At.id)] = NoSecret]
  /\ UNCHANGED imports

(* EnsureImport: the VM is looked up again, and once more by the builder.  *)
BuildImport ==
  /\ pc = "BuildImport"
  /\ UNCHANGED destVars
  /\ LET mapping == Mapping(EntryAnswers, hosts, VMOf(At.id), Entries, classes, Provisioners) IN
     IF Find("VM", Plan[i]).is # "found" \/ mapping.is = "error"
     THEN FailVM
     ELSE /\ pc' = "CreateImport" /\ retry' = 3 /\ Stays
          /\ object' = [state |-> "running", dying |-> FALSE, migration |-> active,
                        mapping |-> mapping]

(* Mutant of CreateImport: an import that exists will do.                  *)
CreateImportOnce ==
  /\ pc = "CreateImport"
  /\ pc' = "GetImport" /\ object' = Nothing /\ retry' = 0 /\ Stays
  /\ imports' = IF imports[Name(At.id)].state # "absent" THEN imports
                ELSE [imports EXCEPT ![Name(At.id)] = object]
  /\ UNCHANGED secrets

CreateImport ==
  /\ pc = "CreateImport"
  /\ Ensure(imports[Name(At.id)].state # "absent",
       /\ pc' = "GetImport" /\ object' = Nothing /\ retry' = 0 /\ Stays
       /\ imports' = [imports EXCEPT ![Name(At.id)] = object]
       /\ UNCHANGED secrets,
       /\ pc' = "DeleteImport" /\ retry' = retry - 1
       /\ UNCHANGED <<object, destVars>> /\ Stays)

(* An import that is gone owns no secret any more.                         *)
Removed(n) ==
  /\ imports' = [imports EXCEPT ![n] = NoImport]
  /\ secrets' = [secrets EXCEPT ![n].owner = IF @ = "live" THEN "gone" ELSE @]

(* The import operator may have to finish with it first.                   *)
Deleted(n) ==
  \/ Removed(n)
  \/ /\ imports[n].state # "absent"
     /\ imports' = [imports EXCEPT ![n].dying = TRUE] /\ UNCHANGED secrets

DeleteImport ==
  /\ pc = "DeleteImport"
  /\ pc' = "CreateImport" /\ UNCHANGED <<object, retry>> /\ Stays
  /\ Deleted(Name(At.id))

(* SetSecretOwner                                                          *)
GetImport ==
  /\ pc = "GetImport"
  /\ UNCHANGED destVars
  /\ IF imports[Name(At.id)].state = "absent" THEN FailVM
     ELSE /\ pc' = "UpdateSecret" /\ object' = [owner |-> "live"]
          /\ UNCHANGED retry /\ Stays

UpdateSecret ==
  /\ pc = "UpdateSecret"
  /\ UNCHANGED imports
  /\ IF ~secrets[Name(At.id)].here THEN FailVM /\ UNCHANGED secrets
     ELSE /\ secrets' = [secrets EXCEPT ![Name(At.id)].owner = object.owner]
          /\ Leave([At EXCEPT !.phase = "ImportCreated"]) /\ UNCHANGED <<found, listed>>

(* updateVM, with the ImportMap of this pass: the imports that have the    *)
(* label of the migration.                                                 *)
ListImports ==
  [n \in Names |-> IF imports[n].migration = active THEN imports[n].state ELSE "absent"]

(* Mutant of Reflected: an import that is gone is waited for.              *)
ReflectedLater(status, state) ==
  CASE state = "failed" -> [status EXCEPT !.error = TRUE, !.phase = "Completed"]
    [] state = "succeeded" -> [status EXCEPT !.phase = "Completed"]
    [] OTHER -> status

Reflected(status, state) ==
  CASE state \in {"absent", "failed"} -> [status EXCEPT !.error = TRUE, !.phase = "Completed"]
    [] state = "succeeded" -> [status EXCEPT !.phase = "Completed"]
    [] state = "running" -> status

ReadImport ==
  /\ Handles("ImportCreated")
  /\ UNCHANGED <<found, destVars>>
  /\ listed' = IF listed = <<>> THEN <<ListImports>> ELSE listed
  /\ Leave(Reflected(At, listed'[1][Name(At.id)]))

EndPass ==
  /\ pc = "Loop" /\ i > Len(w)
  /\ vms' = w /\ Idle
  /\ UNCHANGED <<sourceVars, active, destVars, budget>>

Pass ==
  \/ BeginPass \/ EndPass
  \/ /\ \/ SkipCompleted \/ FindVM \/ BuildSecret \/ CreateSecret \/ DeleteSecret
        \/ BuildImport \/ CreateImport \/ DeleteImport \/ GetImport \/ UpdateSecret
        \/ ReadImport
     /\ UNCHANGED <<sourceVars, active, vms, budget>>

(* Mutant of CallFails: an error of SetSecretOwner is dropped.             *)
CallFailsUnseen ==
  /\ pc \notin {"Idle", "Loop"} /\ Fault("api")
  /\ IF pc = "UpdateSecret" THEN Leave([At EXCEPT !.phase = "ImportCreated"]) ELSE Leave(Fails)
  /\ UNCHANGED <<found, listed, sourceVars, active, vms, destVars>>

(* A call of the API server, or to an ESX host.                            *)
CallFails ==
  /\ pc \notin {"Idle", "Loop"} /\ Fault("api")
  /\ FailVM
  /\ UNCHANGED <<sourceVars, active, vms, destVars>>

(* A restart, or the update of the plan's status conflicts.                *)
PassLost == pc # "Idle" /\ Fault("crash") /\ Abort

(* The next migration, when this one ended: a VM that failed starts again, *)
(* and one that did not may have been forgotten.                           *)
NextMigration ==
  /\ pc = "Idle" /\ active < Len(Suffix)
  /\ \A k \in DOMAIN vms : vms[k].phase = "Completed"
  /\ active' = active + 1
  /\ \E S \in SUBSET {k \in DOMAIN vms : ~vms[k].error} :
       vms' = [k \in DOMAIN vms |-> IF k \in S THEN vms[k]
                 ELSE [vms[k] EXCEPT !.phase = "CreateImport", !.error = FALSE]]
  /\ Idle
  /\ UNCHANGED <<sourceVars, destVars, budget>>

(***************************************************************************)
(* The destination, the source and the user.                               *)
(***************************************************************************)
(* An import reads its secret.                                             *)
ImportEnds(n) ==
  /\ imports[n].state = "running" /\ secrets[n].here
  /\ \E s \in {"succeeded", "failed"} : imports' = [imports EXCEPT ![n].state = s]
  /\ UNCHANGED <<secrets, object, budget>>

Finalized(n) == imports[n].dying /\ Removed(n) /\ UNCHANGED budget

Collect(n) ==
  /\ secrets[n].here /\ secrets[n].owner = "gone"
  /\ secrets' = [secrets EXCEPT ![n] = NoSecret]
  /\ UNCHANGED <<imports, budget>>

UserDeletes(n) == imports[n].state # "absent" /\ Fault("delete") /\ Deleted(n)

(* What a pass has read of an import does not outlive it.                  *)
Orphaned(n) ==
  object' = IF pc = "UpdateSecret" /\ n = Name(At.id) /\ imports'[n].state = "absent"
            THEN [owner |-> "gone"] ELSE object

Destination ==
  /\ \E n \in Names :
       \/ ImportEnds(n)
       \/ (Finalized(n) \/ Collect(n) \/ UserDeletes(n)) /\ Orphaned(n)
  /\ UNCHANGED <<sourceVars, active, vms, pc, w, i, found, hosts, retry, listed, moved>>

MoveVM(v, h) ==
  /\ h # place[v] /\ Fault("move")
  /\ place' = [place EXCEPT ![v] = h] /\ moved' = (pc # "Idle")
  /\ UNCHANGED <<hostCRs, inv, classes, pc, w, i, found, hosts, object, retry, listed>>

InventoryLost ==
  /\ inv.consistent /\ Fault("inventory")
  /\ \E b \in BOOLEAN : inv' = [found |-> b, consistent |-> FALSE]
  /\ UNCHANGED <<hostCRs, place, classes, passVars>>

InventoryBack ==
  /\ ~inv.consistent /\ inv' = [found |-> TRUE, consistent |-> TRUE]
  /\ UNCHANGED <<hostCRs, place, classes, passVars, budget>>

ClassesLost ==
  /\ classes /\ Fault("classes") /\ classes' = FALSE
  /\ UNCHANGED <<hostCRs, place, inv, passVars>>

ClassesBack ==
  /\ ~classes /\ classes' = TRUE
  /\ UNCHANGED <<hostCRs, place, inv, passVars, budget>>

Source ==
  /\ \/ \E v \in VMIds, h \in {r.id : r \in Rows["Host"]} : MoveVM(v, h)
     \/ InventoryLost \/ InventoryBack \/ ClassesLost \/ ClassesBack
  /\ UNCHANGED <<active, vms, destVars>>

Init ==
  /\ hostCRs \in HostLists
  /\ place \in [VMIds -> {r.id : r \in Rows["Host"]}]
  /\ inv = [found |-> TRUE, consistent |-> TRUE] /\ classes = TRUE
  /\ active = 1
  /\ vms = [k \in DOMAIN Plan |-> [phase |-> "CreateImport", error |-> FALSE, id |-> None]]
  /\ imports = [n \in Names |-> NoImport] /\ secrets = [n \in Names |-> NoSecret]
  /\ pc = "Idle" /\ w = vms /\ i = 1 /\ found = FALSE /\ hosts = [h \in {} |-> None]
  /\ object = Nothing /\ retry = 0 /\ listed = <<>> /\ moved = FALSE
  /\ budget = MaxFaults

Next == Pass \/ CallFails \/ PassLost \/ NextMigration \/ Destination \/ Source

Spec == Init /\ [][Next]_vars

(* The plan is requeued, the import operator and the collector go on, and  *)
(* an outage ends.                                                         *)
Fairness == WF_vars(Pass) /\ WF_vars(Destination) /\ WF_vars(InventoryBack /\ Source)

FairSpec == Spec /\ Fairness

(***************************************************************************)
(* Properties.                                                             *)
(***************************************************************************)
Waiting(k) == vms[k].phase = "ImportCreated"
ImportOf(k) == imports[Name(vms[k].id)]
SecretOf(k) == secrets[Name(vms[k].id)]

(* Every import a VM waits for keeps its secret: it owns it, so that the   *)
(* secret neither goes before it nor stays behind, whatever import of that *)
(* name was there before and whichever call of which pass was the last to  *)
(* succeed (EnsureSecret, EnsureImport and SetSecretOwner, in this order). *)
ImportKeepsItsSecret ==
  \A k \in DOMAIN vms :
    Waiting(k) /\ ImportOf(k).state # "absent" =>
      SecretOf(k).here /\ SecretOf(k).owner = "live"

(* The import under the name of a VM that is waited for is this            *)
(* migration's, also when an earlier migration has the same name for its   *)
(* own (nameForImport, ensureObject, ListImports).                         *)
ImportIsOurs ==
  \A k \in DOMAIN vms :
    Waiting(k) /\ ImportOf(k).state # "absent" => ImportOf(k).migration = active

(* What the map says of the objects a VM uses.                             *)
Planned(id) ==
  LET used(kind) == IF kind = "Network" THEN Uses[id].nets ELSE Uses[id].stores
      meant(e) == {r \in Rows[e.kind] : \/ r.id = e.source.id
                                        \/ e.source.id = None /\ r.path = e.source.name}
      pairs(e) == {<<r.id, e.target>> : r \in {q \in meant(e) : q.id \in used(e.kind)}}
  IN  UNION {pairs(Entries[k]) : k \in DOMAIN Entries}

(* An import maps what the plan's map says of the networks and datastores  *)
(* of its VM and nothing else, or nothing at all because the destination's *)
(* inventory did not answer (mapping).                                     *)
MappedAsPlanned ==
  \A n \in Names :
    imports[n].state # "absent" /\ imports[n].mapping.is = "item" =>
      {<<x.id, x.target>> : x \in imports[n].mapping.items} = Planned(n[1])

(* The IDs of an import are those of the place its secret leads to, which  *)
(* is the one with that thumbprint, unless the VM moved while they were    *)
(* built: no secret of an earlier pass, and no Host CR of another host, is *)
(* used with them (Secret, mapping).                                       *)
SecretFitsImport ==
  pc \in {"GetImport", "UpdateSecret"} /\ ~moved /\ imports[Name(At.id)].state # "absent" =>
    LET from == secrets[Name(At.id)].from IN
    \A x \in imports[Name(At.id)].mapping.items : x.at = from.url /\ from.thumbprint = from.url

(* Every VM is migrated or fails in the end: it waits for no import that   *)
(* was deleted or has lost its secret (Run, updateVM).                     *)
Ended(k) == vms[k].phase = "Completed"

EveryVMEnds == \A k \in DOMAIN Plan : []<>Ended(k)
=============================================================================
