------------------------------ MODULE Readiness ------------------------------
(***************************************************************************)
(* A provider and a CR that may refer to it: a Host, a NetworkMap or       *)
(* StorageMap whose source it is, a map of networks or storage classes     *)
(* whose destination it is, or a Plan that is not executed.  The           *)
(* controller of that CR (pkg/controller/host, map/network, map/storage    *)
(* and plan) validates it against the Provider CR and its inventory and    *)
(* says whether it is Ready.  It is told of changes of its CR and of the   *)
(* provider's status, and never of the inventory's.                        *)
(*                                                                         *)
(* ProviderController goes on between any two calls of a pass.  Of the     *)
(* checks that are local to the CR, those of its references are kept; its  *)
(* other fields are in order, and so is a map's provider on the other side.*)
(***************************************************************************)
EXTENDS ProviderController, Validation

CONSTANTS
  Kinds,     \* kinds of CR
  RefLists   \* the references a user may write into one

DestinationKinds == {"Networks", "StorageClasses"}
DependentKinds == {"Host", "NetworkMap", "StorageMap", "Plan"} \cup DestinationKinds

ASSUME ReadinessAssumption == Kinds \subseteq DependentKinds

VARIABLES
  kind, rows,  \* which kind of CR; the objects of the inventory
  named,       \* the CR names the provider; or its reference is not set
  dep,         \* the CR: generation, observed generation, references, conditions
  dpc, d,      \* a pass on it, and what it has found
  dstale,      \* the CR was written by someone else since the fetch
  dqueued      \* a request for it is due

depPassVars == <<dpc, d, dstale>>
depVars == <<kind, rows, named, dep, depPassVars, dqueued>>

TypeOf(spec) == IF spec = "host" THEN "openshift" ELSE "vsphere"

Served ==
  [found |-> Found, consistent |-> container.consistent,
   type |-> TypeOf(container.spec), rows |-> rows]

Referenced ==
  [set |-> named, here |-> named /\ cr.here,
   type |-> TypeOf(cr.spec), ready |-> "Ready" \in cr.conds]

NoPass ==
  [refs |-> <<>>, gen |-> 0, type |-> "", found |-> FALSE,
   answers |-> <<>>, conds |-> NoConditions]

(***************************************************************************)
(* The pass.                                                               *)
(***************************************************************************)
(* Mutant of EndDependentPass: what cannot be validated is not retried.    *)
EndDependentPassOnce(requeue) ==
  /\ dpc' = "Idle" /\ d' = NoPass /\ dstale' = FALSE
  /\ dqueued' = dqueued

EndDependentPass(requeue) ==
  /\ dpc' = "Idle" /\ d' = NoPass /\ dstale' = FALSE
  /\ dqueued' = (dqueued \/ requeue)

(* The fetch, and BeginStagingConditions.                                  *)
FetchDependent ==
  /\ dpc = "Idle" /\ dqueued
  /\ dqueued' = FALSE /\ dstale' = FALSE
  /\ dpc' = "Fetched" /\ d' = [NoPass EXCEPT !.refs = dep.refs, !.gen = dep.gen]
  /\ UNCHANGED <<kind, rows, named, dep>>

ProviderConditions ==
  CASE kind = "Host" -> ValidateHostProvider(Referenced)
    [] kind \in DestinationKinds -> ValidateDestination(Referenced)
    [] OTHER -> ValidateSource(Referenced)

(* A pass that looks nothing up: without a provider, with a source that is *)
(* not ready, or with a destination that has no networks and storage.      *)
LooksNothingUp(conds) ==
  \/ ~Referenced.here
  \/ "SourceProviderNotReady" \in DOMAIN conds
  \/ kind \in DestinationKinds /\ TypeOf(cr.spec) = "vsphere"

ReadProvider ==
  /\ dpc = "Fetched"
  /\ d' = [d EXCEPT !.type = Referenced.type, !.conds = ProviderConditions]
  /\ dpc' = IF LooksNothingUp(ProviderConditions) THEN "Judged" ELSE "Lookup"
  /\ UNCHANGED <<kind, rows, named, dep, dstale, dqueued>>

Looking == dpc = "Lookup" /\ Len(d.answers) < Len(d.refs)
NextRef == d.refs[Len(d.answers) + 1]

(* An OpenShift source has no finder: whatever is asked for is not refused.*)
WithoutInventory ==
  kind \notin DestinationKinds /\ (NotSet(NextRef) \/ d.type = "openshift")

Asked ==
  IF kind \in DestinationKinds THEN Get(Served, NextRef.id)
  ELSE ByRef(CASE kind = "Host" -> "Host" [] kind = "NetworkMap" -> "Network"
               [] kind = "StorageMap" -> "Datastore" [] kind = "Plan" -> "VM",
             Served, NextRef)

Answer ==
  CASE ~WithoutInventory -> Asked
    [] WithoutInventory /\ NotSet(NextRef) -> Result("NotSet", None)
    [] OTHER -> Result("found", NextRef.id)

(* The client asks for the provider first.                                 *)
FindProvider ==
  /\ Looking /\ ~WithoutInventory /\ ~d.found
  /\ IF ProviderFound(Served, d.type)
     THEN d' = [d EXCEPT !.found = TRUE] /\ UNCHANGED <<dpc, dstale, dqueued>>
     ELSE EndDependentPass(TRUE)
  /\ UNCHANGED <<kind, rows, named, dep>>

Lookup ==
  /\ Looking /\ (WithoutInventory \/ d.found)
  /\ IF Answer.is = "error"
     THEN EndDependentPass(TRUE)
     ELSE d' = [d EXCEPT !.answers = Append(@, Answer)] /\ UNCHANGED <<dpc, dstale, dqueued>>
  /\ UNCHANGED <<kind, rows, named, dep>>

RefConditions ==
  CASE kind = "Host" -> ValidateHostRef(d.answers)
    [] kind = "NetworkMap" -> ValidateNetworks(d.answers)
    [] kind = "StorageMap" -> ValidateStorage(d.answers)
    [] kind = "Plan" -> ValidateVMs(d.answers)
    [] kind = "Networks" -> ValidateNetworkDestinations(d.answers)
    [] kind = "StorageClasses" -> ValidateStorageDestinations(d.answers)

Conclude ==
  /\ dpc = "Lookup" /\ Len(d.answers) = Len(d.refs)
  /\ LET conds == UpdateConditions(d.conds, RefConditions) IN
     /\ d' = [d EXCEPT !.conds = conds]
     /\ dpc' = IF kind = "Host" /\ ~HasBlocker(conds) THEN "Connect" ELSE "Judged"
  /\ UNCHANGED <<kind, rows, named, dep, dstale, dqueued>>

(* testConnection: with a client of its own, the host is looked up again   *)
(* and then reached.                                                       *)
Connect ==
  /\ dpc = "Connect"
  /\ IF ProviderFound(Served, d.type) /\ ByRef("Host", Served, d.refs[1]).is = "found"
     THEN /\ d' = [d EXCEPT !.conds = SetWhen(reach, @, "ConnectionTested", "Tested")]
          /\ dpc' = "Judged"
          /\ UNCHANGED <<dstale, dqueued>>
     ELSE EndDependentPass(TRUE)
  /\ UNCHANGED <<kind, rows, named, dep>>

IsReady(conds) ==
  ~HasBlocker(conds) /\ (kind = "Host" => "ConnectionTested" \in DOMAIN conds)

WriteDependent ==
  /\ dpc = "Judged" /\ ~dstale
  /\ dep' = [dep EXCEPT !.observed = d.gen,
                        !.conds = SetWhen(IsReady(d.conds), d.conds, "Ready", "")]
  /\ EndDependentPass(FALSE)
  /\ UNCHANGED <<kind, rows, named>>

DependentConflicts ==
  /\ dpc = "Judged" /\ dstale
  /\ EndDependentPass(TRUE)
  /\ UNCHANGED <<kind, rows, named, dep>>

DependentPass ==
  /\ \/ FetchDependent \/ ReadProvider \/ FindProvider \/ Lookup
     \/ Conclude \/ Connect \/ WriteDependent \/ DependentConflicts
  /\ UNCHANGED vars

(* The status update fails.                                                *)
DependentFails ==
  /\ dpc = "Judged" /\ Fault("api")
  /\ EndDependentPass(TRUE)
  /\ UNCHANGED <<kind, rows, named, dep, cr, worldVars, container, file, passVars, queued>>

(* A host has one reference, and the networks of a destination are named   *)
(* in full, which is their ID.                                             *)
MayHave(k, refs) ==
  /\ k = "Host" => Len(refs) = 1
  /\ k \in DestinationKinds => \A i \in DOMAIN refs : refs[i].id # None

(* The user rewrites the references.                                       *)
EditDependent(refs) ==
  /\ refs # dep.refs /\ MayHave(kind, refs) /\ Fault("edit")
  /\ dep' = [dep EXCEPT !.refs = refs, !.gen = @ + 1]
  /\ dstale' = (dpc # "Idle") /\ dqueued' = TRUE
  /\ UNCHANGED <<kind, rows, named, dpc, d, cr, worldVars, container, file, passVars, queued>>

(***************************************************************************)
(* The provider.                                                           *)
(***************************************************************************)
(* Mutant of Notified: only a provider that becomes ready is told of.      *)
NotifiedWhenReady ==
  /\ named /\ cr' # cr
  /\ cr'.here /\ HasReconciled(cr') /\ "Ready" \in cr'.conds

(* ProviderPredicate: a change of a provider that has been reconciled.     *)
Notified ==
  /\ named /\ cr' # cr
  /\ IF cr'.here THEN HasReconciled(cr') ELSE HasReconciled(cr)

ProviderStep ==
  /\ Pass \/ MirrorLoads \/ MirrorLost \/ User \/ Source
  /\ dqueued' = (dqueued \/ Notified)
  /\ UNCHANGED <<kind, rows, named, dep, depPassVars>>

(* Both controllers are in one process.                                    *)
ProcessCrash ==
  /\ Crash
  /\ EndDependentPass(TRUE)
  /\ UNCHANGED <<kind, rows, named, dep>>

DependentStart(k, r, refs) ==
  /\ MayHave(k, refs)
  /\ kind = k /\ rows = r /\ named \in BOOLEAN
  /\ dep = [gen |-> 1, observed |-> 0, refs |-> refs, conds |-> NoConditions]
  /\ dpc = "Idle" /\ d = NoPass /\ dstale = FALSE /\ dqueued = TRUE

ReadinessNext ==
  \/ ProviderStep \/ ProcessCrash
  \/ DependentPass \/ DependentFails
  \/ \E refs \in RefLists : EditDependent(refs)

allVars == <<vars, depVars>>

(* Workers serve both queues.                                              *)
ReadinessFairness ==
  /\ WF_allVars(Pass /\ ProviderStep) /\ WF_allVars(MirrorLoads /\ ProviderStep)
  /\ WF_allVars(OutageEnds /\ ProviderStep) /\ WF_allVars(DependentPass)

(***************************************************************************)
(* Properties.                                                             *)
(***************************************************************************)
DependentAtRest == dpc = "Idle" /\ ~dqueued
SaysReady == "Ready" \in DOMAIN dep.conds

(* The objects a reference may mean.                                       *)
Meant(ref) ==
  {r \in rows : \/ ref.id = r.id
                \/ ref.id = None /\ ref.name # Unset /\ Last(r.path) = Last(ref.name)}

Certain(i) == Cardinality(Meant(dep.refs[i])) = 1

NoneTwice ==
  \A i, j \in DOMAIN dep.refs :
    i # j /\ Certain(i) => Meant(dep.refs[i]) # Meant(dep.refs[j])

(* What the CRs say is well-typed, and no status is of a generation that   *)
(* is yet to come, of this incarnation of the CR (Status().Update).        *)
DependentTypeOK ==
  /\ TypeOK
  /\ cr.observed <= cr.gen
  /\ dep.observed \in 0 .. dep.gen
  /\ dpc \in {"Idle", "Fetched", "Lookup", "Connect", "Judged"}
  /\ dstale \in BOOLEAN /\ dqueued \in BOOLEAN

(* A CR is Ready only when each of its references meant one object, or was *)
(* qualified and chose one, and a plan names no VM twice: no reply of an   *)
(* inventory that is gone, loading or has lost its source, and no          *)
(* condition that takes another's place, makes it Ready (validation/*.go,  *)
(* plan/validation.go, web/client.go, web/vsphere/client.go).              *)
ReadyIsEarned ==
  SaysReady /\ dep.observed = dep.gen =>
    \A i \in DOMAIN dep.refs :
      LET ref == dep.refs[i] IN
      /\ Meant(ref) # {}
      /\ ref.id = None /\ Len(ref.name) = 1 => Certain(i)
      /\ kind = "Plan" => NoneTwice

(* A CR that says Ready and is left alone has a provider that is there and *)
(* Ready, or one that was edited since it was last reconciled: no change   *)
(* of the provider's status is missed, whenever in a pass it comes         *)
(* (predicate.go of each controller).                                      *)
ReadyIsShared ==
  DependentAtRest /\ SaysReady /\ HasReconciled(cr) => cr.here /\ "Ready" \in cr.conds

InOrder ==
  /\ named /\ "Ready" \in cr.conds /\ cr.here
  /\ TypeOf(cr.spec) = (IF kind \in DestinationKinds THEN "openshift" ELSE "vsphere")
  /\ \A i \in DOMAIN dep.refs : Certain(i)
  /\ kind = "Plan" => NoneTwice

(* While the source answers, a CR in order, of a provider that stays       *)
(* ready, becomes Ready and stays so: the last change of the provider's    *)
(* status comes after all that could mislead a pass (Reconcile of each     *)
(* controller).                                                            *)
ReadyIsReached == []reach => <>[](InOrder => SaysReady)
=============================================================================
