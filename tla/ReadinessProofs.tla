--------------------------- MODULE ReadinessProofs ---------------------------
(***************************************************************************)
(* Proofs about a provider, for any specs and faults; and about a provider *)
(* and a CR that refers to it, of any kind, with any references and        *)
(* inventory: that the two compose without disturbing what holds of the    *)
(* provider, that no change of its status is missed, and that a CR which   *)
(* says Ready has earned it.                                               *)
(***************************************************************************)
EXTENDS Readiness, FiniteSetTheorems, WellFoundedInduction, TLAPS

InPass == pc # "Idle"

(* A pass works on the CR it fetched until someone else writes it, and     *)
(* what that writes is not reconciled.                                     *)
CopyInv ==
  /\ cr.observed <= cr.gen
  /\ ~InPass => ~stale
  /\ InPass /\ ~stale => cr.here /\ Owner(p) = Owner(cr) /\ p.observed = cr.observed
  /\ stale /\ cr.here => ~HasReconciled(cr)

(* In a pass the container is the one of the copy, and one that is found   *)
(* before the container is built was there in a reconciled provider.       *)
ContainerInv ==
  /\ Found /\ cr.here /\ HasReconciled(cr) => Owner(container) = Owner(cr)
  /\ Found /\ InPass => Owner(container) = Owner(p)
  /\ Found /\ InPass /\ pc # "Built" => HasReconciled(p)
  /\ AtRest /\ cr.here => HasReconciled(cr)
  /\ AtRest /\ ~cr.here => ~Found

(* What a pass has found of the inventory is so still.                     *)
LoadedInv ==
  /\ container.consistent => container.loaded
  /\ InPass => "Ready" \notin p.conds
  /\ InPass /\ "InventoryCreated" \in p.conds => container.loaded

ProviderInv == CopyInv /\ ContainerInv /\ LoadedInv /\ FileIsTheContainers /\ ReadyIsBacked

(***************************************************************************)
(* Types.                                                                  *)
(***************************************************************************)
LEMMA NewCRType == \A u \in Nat, s \in SpecKinds : NewCR(u, s) \in CRType
BY DEF NewCR, CRType

LEMMA NoContainerType == NoContainer \in ContainerType
BY DEF NoContainer, ContainerType, SpecKinds

LEMMA PassType == TypeOK /\ Pass => TypeOK'
<1> SUFFICES ASSUME TypeOK, Pass PROVE TypeOK'
  OBVIOUS
<1> USE DEF TypeOK, Places
<1>1. CASE Fetch
  <2>1. [cr EXCEPT !.conds = {}] \in CRType
    BY DEF CRType
  <2>2. file' \subseteq Nat \X Nat /\ container' \in ContainerType
    BY <1>1, NoContainerType DEF Fetch, Dropped
  <2> QED
    BY <1>1, <2>1, <2>2 DEF Fetch, worldVars
<1>2. CASE FetchNotFound
  BY <1>2, NoContainerType DEF FetchNotFound, Dropped, worldVars, passVars
<1>3. CASE Validate
  <2>1. p' \in CRType
    BY <1>3 DEF Validate, CRType, Conditions
  <2> QED
    BY <1>3, <2>1 DEF Validate, worldVars
<1>4. CASE TestConnection
  <2>1. p' \in CRType
    BY <1>4 DEF TestConnection, Goto, CRType, Conditions
  <2> QED
    BY <1>4, <2>1 DEF TestConnection, Goto, worldVars
<1>5. CASE CheckInventory
  <2>1. p' \in CRType
    BY <1>5 DEF CheckInventory, Goto, CRType, Conditions
  <2> QED
    BY <1>5, <2>1 DEF CheckInventory, Goto, worldVars
<1>6. CASE UpdateContainer
  <2>1. p' \in CRType
    BY <1>6 DEF UpdateContainer, Goto, CRType
  <2>2. Owner(p) \in Nat \X Nat
    BY DEF Owner, CRType
  <2>3. file' \subseteq Nat \X Nat
    BY <1>6, <2>2 DEF UpdateContainer, Opened
  <2>4. container' \in ContainerType
    <3>1. p.uid \in Nat /\ p.gen \in Nat /\ p.spec \in SpecKinds /\ KeyRead \in Nat
      BY DEF CRType, KeyRead
    <3>2. [uid |-> p.uid, gen |-> p.gen, spec |-> p.spec, key |-> KeyRead,
           consistent |-> FALSE, loaded |-> FALSE] \in ContainerType
      BY <3>1 DEF ContainerType
    <3> QED
      BY <1>6, <3>2 DEF UpdateContainer
  <2> QED
    BY <1>6, <2>1, <2>3, <2>4 DEF UpdateContainer, Goto, worldVars
<1>7. CASE UpdateContainerFails
  <2>1. file' \subseteq Nat \X Nat /\ budget' \in Nat
    BY <1>7 DEF UpdateContainerFails, Fault
  <2> QED
    BY <1>7, <2>1 DEF UpdateContainerFails, EndPass, worldVars
<1>8. CASE WriteStatus
  <2>1. Judged \subseteq Conditions
    BY DEF Judged, CRType, Conditions
  <2>2. [cr EXCEPT !.observed = p.gen, !.conds = Judged] \in CRType
    BY <2>1 DEF CRType
  <2>3. queued' \in BOOLEAN
    BY <1>8, Zenon DEF WriteStatus
  <2>4. budget' \in Nat
    BY <1>8 DEF WriteStatus, Fault
  <2> QED
    BY <1>8, <2>2, <2>3, <2>4 DEF WriteStatus, worldVars
<1>9. CASE WriteConflicts
  BY <1>9 DEF WriteConflicts, EndPass, worldVars
<1>10. CASE PassFails
  <2>1. budget' \in Nat
    BY <1>10 DEF PassFails, Fault
  <2> QED
    BY <1>10, <2>1 DEF PassFails, EndPass, worldVars
<1> QED
  BY <1>1, <1>2, <1>3, <1>4, <1>5, <1>6, <1>7, <1>8, <1>9, <1>10 DEF Pass

LEMMA OthersType ==
  TypeOK /\ (Crash \/ MirrorLoads \/ MirrorLost \/ User \/ Source) => TypeOK'
<1> SUFFICES ASSUME TypeOK, Crash \/ MirrorLoads \/ MirrorLost \/ User \/ Source
             PROVE  TypeOK'
  OBVIOUS
<1> USE DEF TypeOK, Places
<1>1. CASE Crash
  <2>1. budget' \in Nat
    BY <1>1 DEF Crash, Fault
  <2> QED
    BY <1>1, <2>1, NoContainerType DEF Crash, EndPass, worldVars
<1>2. CASE MirrorLoads
  <2>1. container' \in ContainerType
    BY <1>2 DEF MirrorLoads, ContainerType
  <2> QED
    BY <1>2, <2>1 DEF MirrorLoads, worldVars, passVars
<1>3. CASE MirrorLost
  <2>1. container' \in ContainerType
    BY <1>3 DEF MirrorLost, ContainerType
  <2> QED
    BY <1>3, <2>1 DEF MirrorLost, worldVars, passVars
<1>4. CASE User
  <2>1. ASSUME NEW s \in Specs, Edit(s) PROVE TypeOK'
    <3>1. [cr EXCEPT !.spec = s, !.gen = @ + 1] \in CRType
      <4>1. s \in SpecKinds /\ cr.gen + 1 \in Nat
        BY ProviderAssumption DEF CRType
      <4> QED
        BY <4>1 DEF CRType
    <3> QED
      BY <2>1, <3>1 DEF Edit, WriteCR, Fault, worldVars
  <2>2. ASSUME NEW s \in Specs, Recreate(s) PROVE TypeOK'
    <3>1. NewCR(cr.uid + 1, s) \in CRType
      BY ProviderAssumption, NewCRType DEF CRType
    <3> QED
      BY <2>2, <3>1 DEF Recreate, WriteCR, worldVars
  <2>3. CASE Delete
    <3>1. [cr EXCEPT !.here = FALSE] \in CRType
      BY DEF CRType
    <3> QED
      BY <2>3, <3>1 DEF Delete, WriteCR, Fault, worldVars
  <2>4. ASSUME NEW state \in {"missing", "incomplete"}, SpoilSecret(state) PROVE TypeOK'
    <3>1. budget' \in Nat
      BY <2>4 DEF SpoilSecret, Fault
    <3>2. secret' \in [state : {"complete", "incomplete", "missing"}, key : Nat]
      BY <2>4 DEF SpoilSecret, WriteSecret
    <3> QED
      BY <2>4, <3>1, <3>2 DEF SpoilSecret, WriteSecret, passVars
  <2>5. CASE UpdateSecret
    BY <2>5 DEF UpdateSecret, WriteSecret, passVars
  <2> QED
    BY <1>4, <2>1, <2>2, <2>3, <2>4, <2>5 DEF User
<1>5. CASE Source
  <2>1. budget' \in Nat
    BY <1>5 DEF Source, Rotate, Outage, OutageEnds, Fault
  <2>2. CASE Rotate
    BY <2>1, <2>2 DEF Rotate, passVars
  <2>3. CASE Outage
    BY <2>1, <2>3 DEF Outage, passVars
  <2>4. CASE OutageEnds
    BY <2>1, <2>4 DEF OutageEnds, passVars
  <2> QED
    BY <1>5, <2>2, <2>3, <2>4 DEF Source
<1> QED
  BY <1>1, <1>2, <1>3, <1>4, <1>5

LEMMA StartType == Init => TypeOK
<1> SUFFICES ASSUME Init PROVE TypeOK
  OBVIOUS
<1>1. cr \in CRType
  BY ProviderAssumption, NewCRType DEF Init
<1>2. budget \in Nat
  BY ProviderAssumption DEF Init
<1>3. secret \in [state : {"complete", "incomplete", "missing"}, key : Nat]
  BY DEF Init
<1> QED
  BY <1>1, <1>2, <1>3, NoContainerType DEF Init, TypeOK, Places

(* Every reachable state of a provider is well typed.                      *)
THEOREM ProviderTyped == Spec => []TypeOK
<1>1. TypeOK /\ [Next]_vars => TypeOK'
  <2>1. TypeOK /\ UNCHANGED vars => TypeOK'
    BY DEF TypeOK, vars, worldVars, passVars
  <2> QED
    BY <2>1, PassType, OthersType DEF Next
<1> QED
  BY <1>1, StartType, PTL DEF Spec

(***************************************************************************)
(* The invariant.                                                          *)
(***************************************************************************)
LEMMA UntouchedInv ==
  ProviderInv /\ UNCHANGED <<cr, container, file, passVars, queued>> => ProviderInv'
BY DEF ProviderInv, CopyInv, ContainerInv, LoadedInv, FileIsTheContainers, ReadyIsBacked,
   InPass, AtRest, Found, HasReconciled, Owner, passVars

(* Places between the fetch and the status update.                         *)
LEMMA WorkInv ==
  ASSUME ProviderInv, TypeOK, Validate \/ TestConnection \/ CheckInventory
  PROVE  ProviderInv'
<1>1. /\ InPass /\ pc # "Built" /\ InPass' /\ pc' # "Built"
      /\ UNCHANGED <<cr, container, file, stale, queued>>
  BY DEF Validate, TestConnection, CheckInventory, Goto, InPass
<1>2. p' = [p EXCEPT !.conds = p'.conds]
  BY DEF Validate, TestConnection, CheckInventory, Goto, TypeOK, CRType
<1>3. p.conds \subseteq Conditions /\ p \in CRType
  BY DEF TypeOK, CRType
<1>4. Owner(p') = Owner(p) /\ p'.observed = p.observed /\ p'.gen = p.gen
  BY <1>2, <1>3 DEF CRType, Owner
<1>5. "Ready" \notin p'.conds
  BY <1>1, <1>3 DEF Validate, TestConnection, CheckInventory, Goto, CRType, ProviderInv, LoadedInv
<1>6. "InventoryCreated" \in p'.conds => container.loaded
  BY <1>1, <1>3 DEF Validate, TestConnection, CheckInventory, Goto, CRType, ProviderInv, LoadedInv
<1>7. CopyInv'
  BY <1>1, <1>4 DEF ProviderInv, CopyInv, InPass, HasReconciled, Owner
<1>8. ContainerInv'
  BY <1>1, <1>4 DEF ProviderInv, ContainerInv, InPass, AtRest, Found, HasReconciled, Owner
<1>9. LoadedInv'
  BY <1>1, <1>5, <1>6 DEF ProviderInv, LoadedInv, InPass
<1>10. FileIsTheContainers' /\ ReadyIsBacked'
  BY <1>1 DEF ProviderInv, FileIsTheContainers, ReadyIsBacked, AtRest, Found, Owner, InPass
<1> QED
  BY <1>7, <1>8, <1>9, <1>10 DEF ProviderInv

(* A pass that ends without a status update, to be tried again.            *)
LEMMA EndedInv ==
  ASSUME ProviderInv, EndPass(TRUE), UNCHANGED cr,
         \/ UNCHANGED <<container, file>>
         \/ container' = NoContainer
         \/ ~Found /\ UNCHANGED container
  PROVE  ProviderInv'
<1>1. ~InPass' /\ ~stale' /\ queued' /\ ~AtRest'
  BY DEF EndPass, InPass, AtRest
<1>2. \/ UNCHANGED <<container, file>>
      \/ ~Found' /\ ~container'.consistent /\ UNCHANGED container
      \/ ~Found' /\ ~container'.consistent
  BY DEF Found, NoContainer
<1>3. CopyInv'
  BY <1>1 DEF ProviderInv, CopyInv, HasReconciled
<1>4. ContainerInv' /\ LoadedInv' /\ FileIsTheContainers' /\ ReadyIsBacked'
  BY <1>1, <1>2 DEF ProviderInv, ContainerInv, LoadedInv, FileIsTheContainers, ReadyIsBacked,
     HasReconciled, Owner, Found
<1> QED
  BY <1>3, <1>4 DEF ProviderInv

LEMMA FetchInv ==
  ASSUME ProviderInv, TypeOK, Fetch
  PROVE  ProviderInv'
<1>1. /\ ~InPass /\ cr.here /\ InPass' /\ pc' # "Built" /\ ~stale'
      /\ p' = [cr EXCEPT !.conds = {}] /\ UNCHANGED cr
  BY DEF Fetch, InPass
<1>2. /\ Owner(p') = Owner(cr) /\ p'.observed = cr.observed /\ p'.gen = cr.gen
      /\ p'.conds = {}
  BY <1>1 DEF TypeOK, CRType, Owner
<1>3. \/ HasReconciled(cr) /\ UNCHANGED <<container, file>>
      \/ ~Found' /\ ~container'.consistent
  <2>1. HasReconciled(cr) => UNCHANGED <<container, file>>
    BY DEF Fetch
  <2>2. ~HasReconciled(cr) => container' = NoContainer
    BY DEF Fetch, Dropped
  <2>3. container' = NoContainer => ~Found' /\ ~container'.consistent
    BY DEF Found, NoContainer
  <2> QED
    BY <2>1, <2>2, <2>3
<1>4. CopyInv' /\ LoadedInv'
  BY <1>1, <1>2, <1>3 DEF ProviderInv, CopyInv, LoadedInv, HasReconciled, Owner
<1>5. ContainerInv'
  BY <1>1, <1>2, <1>3 DEF ProviderInv, ContainerInv, HasReconciled, Owner, Found, AtRest, InPass
<1>6. FileIsTheContainers' /\ ReadyIsBacked'
  BY <1>1, <1>3 DEF ProviderInv, FileIsTheContainers, ReadyIsBacked, AtRest, InPass, Found, Owner
<1> QED
  BY <1>4, <1>5, <1>6 DEF ProviderInv

LEMMA NotFoundInv ==
  ASSUME ProviderInv, TypeOK, FetchNotFound
  PROVE  ProviderInv'
<1>1. /\ ~cr.here /\ ~Found' /\ ~container'.consistent /\ ~InPass'
      /\ UNCHANGED <<cr, passVars>>
  BY DEF FetchNotFound, Dropped, Found, NoContainer, InPass, passVars
<1> QED
  BY <1>1 DEF ProviderInv, CopyInv, ContainerInv, LoadedInv, FileIsTheContainers,
     ReadyIsBacked, AtRest, InPass, HasReconciled, passVars

(* The step that builds a container: there is none, as one that is found   *)
(* here is of a reconciled provider.                                       *)
LEMMA UpdateInv ==
  ASSUME ProviderInv, TypeOK, UpdateContainer
  PROVE  ProviderInv'
<1>1. /\ InPass /\ InPass' /\ pc = "Checked" /\ pc' = "Built" /\ p' = [p EXCEPT !.conds = p.conds]
      /\ UNCHANGED <<cr, stale, queued>>
  BY DEF UpdateContainer, Goto, InPass
<1>2. p' = p
  BY <1>1 DEF TypeOK, CRType
<1>3. NeedsContainer => ~Found
  BY <1>1 DEF NeedsContainer, ProviderInv, ContainerInv
<1>4. \/ UNCHANGED <<container, file>>
      \/ /\ ~Found /\ Owner(container') = Owner(p) /\ file' = {Owner(container')}
         /\ ~container'.consistent
  BY <1>3 DEF UpdateContainer, Opened, Owner
<1>5. CopyInv'
  BY <1>1, <1>2 DEF ProviderInv, CopyInv, HasReconciled, InPass, Owner
<1>6. ~Found => ~container.loaded
  BY DEF Found, NoContainer
<1>7. LoadedInv'
  BY <1>1, <1>2, <1>4, <1>6 DEF ProviderInv, LoadedInv
<1>8. ContainerInv'
  BY <1>1, <1>2, <1>4
     DEF ProviderInv, ContainerInv, CopyInv, HasReconciled, Owner, Found, AtRest, InPass
<1>9. FileIsTheContainers' /\ ReadyIsBacked'
  BY <1>1, <1>4 DEF ProviderInv, FileIsTheContainers, ReadyIsBacked, AtRest, InPass, Found, Owner
<1> QED
  BY <1>5, <1>7, <1>8, <1>9 DEF ProviderInv

(* The status update: only a copy that is current is written.              *)
LEMMA WriteInv ==
  ASSUME ProviderInv, TypeOK, WriteStatus
  PROVE  ProviderInv'
<1>1. /\ InPass /\ ~stale /\ ~InPass' /\ ~stale' /\ pc' = "Idle"
      /\ cr' = [cr EXCEPT !.observed = p.gen, !.conds = Judged]
      /\ UNCHANGED <<container, file>>
  BY DEF WriteStatus, InPass
<1>2. cr.here /\ p.gen = cr.gen /\ p.uid = cr.uid
  BY <1>1 DEF ProviderInv, CopyInv, Owner
<1>3. /\ cr'.here /\ cr'.gen = cr.gen /\ cr'.uid = cr.uid
      /\ cr'.observed = cr.gen /\ cr'.conds = Judged
  BY <1>1, <1>2 DEF TypeOK, CRType
<1>4. "Ready" \in Judged => container.loaded
  BY <1>1 DEF Judged, ProviderInv, LoadedInv
<1>5. Found => container.gen = cr.gen /\ container.uid = cr.uid
  BY <1>1, <1>2 DEF ProviderInv, ContainerInv, Owner
<1>6. container.loaded => Found
  BY DEF Found, NoContainer
<1>7. CopyInv' /\ LoadedInv'
  BY <1>1, <1>3 DEF ProviderInv, CopyInv, LoadedInv, TypeOK, CRType
<1>8. ContainerInv'
  BY <1>1, <1>3, <1>5 DEF ContainerInv, HasReconciled, Owner, Found
<1>9. FileIsTheContainers' /\ ReadyIsBacked'
  BY <1>1, <1>3, <1>4, <1>5, <1>6 DEF ProviderInv, FileIsTheContainers, ReadyIsBacked, Found, Owner
<1> QED
  BY <1>7, <1>8, <1>9 DEF ProviderInv

LEMMA MirrorInv ==
  ASSUME ProviderInv, TypeOK, MirrorLoads \/ MirrorLost
  PROVE  ProviderInv'
<1>1. /\ Found /\ UNCHANGED <<cr, file, passVars, queued>>
      /\ container'.uid = container.uid /\ container'.gen = container.gen
      /\ container'.loaded
  BY DEF MirrorLoads, MirrorLost, ProviderInv, LoadedInv, TypeOK, ContainerType
<1>2. CopyInv' /\ LoadedInv'
  BY <1>1 DEF ProviderInv, CopyInv, LoadedInv, InPass, HasReconciled, Owner, passVars
<1>3. ContainerInv'
  BY <1>1 DEF ProviderInv, ContainerInv, InPass, AtRest, HasReconciled, Owner, passVars
<1>4. FileIsTheContainers' /\ ReadyIsBacked'
  BY <1>1 DEF ProviderInv, FileIsTheContainers, ReadyIsBacked, AtRest, Owner, passVars
<1> QED
  BY <1>2, <1>3, <1>4 DEF ProviderInv

(* The user writes the CR: what that leaves there is not reconciled.       *)
LEMMA WrittenInv ==
  ASSUME ProviderInv, TypeOK, NEW new \in CRType, WriteCR(new),
         new.observed <= new.gen, new.here => ~HasReconciled(new)
  PROVE  ProviderInv'
<1>1. /\ cr' = new /\ queued' /\ ~AtRest' /\ UNCHANGED <<container, file, pc>>
      /\ (stale' <=> InPass') /\ (InPass <=> InPass')
  BY DEF WriteCR, AtRest, InPass
<1>a. InPass => p' = p
  BY DEF WriteCR, InPass
<1>2. CopyInv'
  BY <1>1 DEF CopyInv, HasReconciled
<1>3. ContainerInv' /\ LoadedInv'
  BY <1>a, <1>1 DEF ProviderInv, ContainerInv, LoadedInv, HasReconciled, Owner, Found
<1>4. FileIsTheContainers' /\ ReadyIsBacked'
  BY <1>1 DEF ProviderInv, FileIsTheContainers, ReadyIsBacked, Found, Owner
<1> QED
  BY <1>2, <1>3, <1>4 DEF ProviderInv

LEMMA UserInv ==
  ASSUME ProviderInv, TypeOK, User
  PROVE  ProviderInv'
<1>1. cr.observed <= cr.gen /\ cr \in CRType
  BY DEF ProviderInv, CopyInv, TypeOK
<1>2. ASSUME NEW s \in Specs, Edit(s) PROVE ProviderInv'
  <2> DEFINE new == [cr EXCEPT !.spec = s, !.gen = @ + 1]
  <2>1. s \in SpecKinds /\ cr.gen + 1 \in Nat
    BY <1>1, ProviderAssumption DEF CRType
  <2>2. new \in CRType /\ new.observed = cr.observed /\ new.gen = cr.gen + 1
    BY <1>1, <2>1 DEF CRType
  <2>3. WriteCR(new)
    BY <1>2 DEF Edit
  <2>4. new.observed <= new.gen /\ ~HasReconciled(new)
    BY <1>1, <2>2 DEF HasReconciled, CRType
  <2> HIDE DEF new
  <2> QED
    BY <2>2, <2>3, <2>4, WrittenInv
<1>3. ASSUME NEW s \in Specs, Recreate(s) PROVE ProviderInv'
  <2>1. NewCR(cr.uid + 1, s) \in CRType
    BY <1>1, ProviderAssumption, NewCRType DEF CRType
  <2> QED
    BY <1>3, <2>1, WrittenInv DEF Recreate, NewCR, HasReconciled
<1>4. CASE Delete
  <2> DEFINE new == [cr EXCEPT !.here = FALSE]
  <2>1. new \in CRType /\ ~new.here /\ new.observed = cr.observed /\ new.gen = cr.gen
    BY <1>1 DEF CRType
  <2>2. WriteCR(new)
    BY <1>4 DEF Delete
  <2> HIDE DEF new
  <2> QED
    BY <1>1, <2>1, <2>2, WrittenInv
<1>5. ASSUME NEW new, WriteSecret(new) PROVE ProviderInv'
  BY <1>5 DEF WriteSecret, passVars, ProviderInv, CopyInv, ContainerInv, LoadedInv,
     FileIsTheContainers, ReadyIsBacked, InPass, AtRest, HasReconciled, Owner, Found
<1> QED
  BY <1>2, <1>3, <1>4, <1>5 DEF User, SpoilSecret, UpdateSecret

LEMMA SourceInv ==
  ASSUME ProviderInv, Source
  PROVE  ProviderInv'
BY UntouchedInv DEF Source, Rotate, Outage, OutageEnds, passVars

LEMMA PassInv ==
  ASSUME ProviderInv, TypeOK, Pass
  PROVE  ProviderInv'
<1>1. CASE UpdateContainerFails
  <2>1. ~Found /\ EndPass(TRUE) /\ UNCHANGED <<cr, container>>
    BY <1>1 DEF UpdateContainerFails, NeedsContainer, ProviderInv, ContainerInv, InPass
  <2> QED
    BY <2>1, EndedInv
<1>2. CASE PassFails \/ WriteConflicts
  BY <1>2, EndedInv DEF PassFails, WriteConflicts
<1> QED
  BY <1>1, <1>2, FetchInv, NotFoundInv, WorkInv, UpdateInv, WriteInv DEF Pass

LEMMA StartInv == Init => ProviderInv
<1> SUFFICES ASSUME Init PROVE ProviderInv
  OBVIOUS
<1>1. ~Found /\ ~container.consistent /\ ~InPass /\ ~stale /\ queued
  BY DEF Init, Found, NoContainer, InPass
<1>2. cr.observed = 0 /\ cr.gen = 1
  BY DEF Init, NewCR
<1> QED
  BY <1>1, <1>2 DEF ProviderInv, CopyInv, ContainerInv, LoadedInv, FileIsTheContainers,
     ReadyIsBacked, AtRest, HasReconciled

(* A step of the provider preserves the invariant.                         *)
LEMMA StepInv ==
  ASSUME ProviderInv, TypeOK, Next
  PROVE  ProviderInv'
<1>1. CASE Crash
  BY <1>1, EndedInv DEF Crash
<1> QED
  BY <1>1, PassInv, MirrorInv, UserInv, SourceInv DEF Next

LEMMA InvGives == ProviderInv => ContainerIsCurrent /\ FileIsTheContainers /\ ReadyIsBacked
BY DEF ProviderInv, ContainerInv, ContainerIsCurrent, AtRest, HasReconciled, Owner

LEMMA ProviderInvariant == Spec => []ProviderInv
<1>1. ProviderInv /\ TypeOK /\ [Next]_vars => ProviderInv'
  BY StepInv, UntouchedInv DEF vars, passVars
<1> QED
  BY <1>1, StartInv, ProviderTyped, PTL DEF Spec

(* When nothing is left to do for a provider, its container is the one of  *)
(* the CR as it is (Reconcile, updateContainer).                           *)
THEOREM ContainerIsAlwaysCurrent == Spec => []ContainerIsCurrent
BY ProviderInvariant, InvGives, PTL

(* The DB file has the rows of the running container and no other          *)
(* (updateContainer, db.Open, container.Delete).                           *)
THEOREM FileIsAlwaysTheContainers == Spec => []FileIsTheContainers
BY ProviderInvariant, InvGives, PTL

(* A provider at rest that says Ready has a container of its present spec  *)
(* which loaded the inventory (Reconcile).                                 *)
THEOREM ReadyIsAlwaysBacked == Spec => []ReadyIsBacked
BY ProviderInvariant, InvGives, PTL

(***************************************************************************)
(*                      THE PROVIDER AND A DEPENDENT CR                    *)
(***************************************************************************)

(* The composition: the runs start it in some of these states.             *)
ReadinessSpec ==
  /\ Init /\ \E r, refs : \E k \in Kinds : DependentStart(k, r, refs)
  /\ [][ReadinessNext]_allVars

(***************************************************************************)
(* The provider's invariant.                                               *)
(***************************************************************************)
LEMMA ComposedStep ==
  ASSUME [ReadinessNext]_allVars
  PROVE  \/ Next
         \/ /\ UNCHANGED <<cr, worldVars, container, file, passVars, queued>>
            /\ budget' = budget \/ (budget > 0 /\ budget' = budget - 1)
<1>1. ASSUME DependentFails \/ \E refs \in RefLists : EditDependent(refs)
      PROVE  /\ UNCHANGED <<cr, worldVars, container, file, passVars, queued>>
             /\ budget > 0 /\ budget' = budget - 1
  BY <1>1 DEF DependentFails, EditDependent, Fault
<1>2. ASSUME DependentPass \/ UNCHANGED allVars
      PROVE  /\ UNCHANGED <<cr, worldVars, container, file, passVars, queued>>
             /\ budget' = budget
  BY <1>2 DEF DependentPass, allVars, vars
<1>3. ASSUME ProviderStep \/ ProcessCrash
      PROVE  Next
  BY <1>3 DEF ProviderStep, ProcessCrash, Next
<1> QED
  BY <1>1, <1>2, <1>3 DEF ReadinessNext

LEMMA ComposedInv ==
  TypeOK /\ ProviderInv /\ [ReadinessNext]_allVars => TypeOK' /\ ProviderInv'
<1> SUFFICES ASSUME TypeOK, ProviderInv, [ReadinessNext]_allVars
             PROVE  TypeOK' /\ ProviderInv'
  OBVIOUS
<1>1. CASE Next
  BY <1>1, StepInv, PassType, OthersType DEF Next
<1>2. CASE /\ UNCHANGED <<cr, worldVars, container, file, passVars, queued>>
           /\ budget' = budget \/ (budget > 0 /\ budget' = budget - 1)
  <2>1. budget' \in Nat
    BY <1>2 DEF TypeOK
  <2> QED
    BY <1>2, <2>1, UntouchedInv DEF TypeOK, worldVars, passVars
<1> QED
  BY <1>1, <1>2, ComposedStep

LEMMA ComposedInvariant == ReadinessSpec => [](TypeOK /\ ProviderInv)
BY StartType, StartInv, ComposedInv, PTL DEF ReadinessSpec

(***************************************************************************)
(* What a pass finds.                                                      *)
(***************************************************************************)
(* Conditions are only added to.                                           *)
LEMMA SetGrows ==
  ASSUME NEW test \in BOOLEAN, NEW conds, NEW type, NEW reason
  PROVE  /\ DOMAIN conds \subseteq DOMAIN SetWhen(test, conds, type, reason)
         /\ DOMAIN SetWhen(test, conds, type, reason) \subseteq DOMAIN conds \cup {type}
         /\ test => type \in DOMAIN SetWhen(test, conds, type, reason)
BY DEF SetWhen, Set

LEMMA UpdateGrows ==
  ASSUME NEW conds, NEW new
  PROVE  DOMAIN UpdateConditions(conds, new) = DOMAIN conds \cup DOMAIN new
BY DEF UpdateConditions

(* The conditions about a provider: none only for one that is Ready.       *)
LEMMA ProviderVerdict ==
  ASSUME kind \in DependentKinds, named \in BOOLEAN
  PROVE  /\ ~HasBlocker(ProviderConditions) => named /\ cr.here /\ "Ready" \in cr.conds
         /\ "Ready" \notin DOMAIN ProviderConditions
<1> DEFINE prov == Referenced
           ok == named /\ cr.here /\ "Ready" \in cr.conds
           given == ValidateProvider(prov)
<1>1. /\ prov.set = named /\ prov.here = (named /\ cr.here)
      /\ prov.ready = ("Ready" \in cr.conds)
  BY DEF Referenced
<1>2. /\ DOMAIN given \subseteq {"ProviderNotValid", "ProviderNotReady"}
      /\ ~ok => DOMAIN given # {}
  BY <1>1 DEF ValidateProvider, Set, NoConditions
<1> HIDE DEF given
<1>3. ASSUME NEW names, DOMAIN names = {"ProviderNotValid", "ProviderNotReady"},
             \A u \in DOMAIN names : names[u] \notin {"ConnectionTested", "Ready"}
      PROVE  /\ "Ready" \notin DOMAIN Remapped(given, names)
             /\ ~ok => DOMAIN Remapped(given, names) \ {"ConnectionTested"} # {}
  BY <1>2, <1>3 DEF Remapped
<1>4. CASE kind = "Host"
  <2> DEFINE c == ValidateHostProvider(prov)
  <2>1. DOMAIN given \subseteq DOMAIN c /\ DOMAIN c \subseteq DOMAIN given \cup {"TypeNotValid"}
    BY SetGrows DEF ValidateHostProvider, given
  <2>2. ProviderConditions = c
    BY <1>4 DEF ProviderConditions, DestinationKinds
  <2> HIDE DEF c
  <2> QED
    BY <1>2, <2>1, <2>2 DEF HasBlocker
<1>5. CASE kind \in DestinationKinds
  <2> DEFINE c == ValidateDestination(prov)
             r == Remapped(given, DestinationTypes)
  <2>1. "Ready" \notin DOMAIN r /\ (~ok => DOMAIN r \ {"ConnectionTested"} # {})
    BY <1>3 DEF DestinationTypes
  <2> HIDE DEF r
  <2>2. DOMAIN r \subseteq DOMAIN c /\ DOMAIN c \subseteq DOMAIN r \cup {"DestinationProviderNotValid"}
    BY SetGrows DEF ValidateDestination, given, r
  <2>3. ProviderConditions = c
    BY <1>5 DEF ProviderConditions, DestinationKinds
  <2> HIDE DEF c
  <2> QED
    BY <2>1, <2>2, <2>3 DEF HasBlocker
<1>6. CASE kind \notin DestinationKinds \cup {"Host"}
  <2> DEFINE c == ValidateSource(prov)
             r == Remapped(given, SourceTypes)
  <2>1. "Ready" \notin DOMAIN r /\ (~ok => DOMAIN r \ {"ConnectionTested"} # {})
    BY <1>3 DEF SourceTypes
  <2> HIDE DEF r
  <2>2. DOMAIN r \subseteq DOMAIN c /\ DOMAIN c \subseteq DOMAIN r \cup {"SourceProviderNotValid"}
    BY SetGrows DEF ValidateSource, given, r
  <2>3. ProviderConditions = c
    BY <1>6 DEF ProviderConditions
  <2> HIDE DEF c
  <2> QED
    BY <2>1, <2>2, <2>3 DEF HasBlocker
<1> QED
  BY <1>4, <1>5, <1>6

LEMMA RefVerdict ==
  ASSUME kind \in DependentKinds
  PROVE  "Ready" \notin DOMAIN RefConditions
<1> USE SetGrows DEF NoConditions
<1>1. ASSUME NEW answers, NEW type, NEW other, type # "Ready", other # "Ready"
      PROVE  "Ready" \notin DOMAIN Listing(answers, type, other)
  BY <1>1 DEF Listing, SetWhen, Set
<1> QED
  BY <1>1 DEF RefConditions, ValidateHostRef, ValidateNetworks, ValidateStorage, ValidateVMs,
     ValidateNetworkDestinations, ValidateStorageDestinations, SetWhen, Set,
     DependentKinds, DestinationKinds

(***************************************************************************)
(* The CR that refers to the provider.                                     *)
(***************************************************************************)
Verdict(place) == place \in {"Lookup", "Connect", "Judged"}

(* Shapes of the CR and of the pass on it.                                 *)
DependentShape ==
  /\ kind \in DependentKinds /\ named \in BOOLEAN
  /\ DOMAIN dep = {"gen", "observed", "refs", "conds"}
  /\ dep.gen \in Nat /\ dep.observed \in 0 .. dep.gen
  /\ DOMAIN d = {"refs", "gen", "type", "found", "answers", "conds"}
  /\ d.gen \in 0 .. dep.gen
  /\ dpc \in {"Idle", "Fetched", "Lookup", "Connect", "Judged"}
  /\ dstale \in BOOLEAN /\ dqueued \in BOOLEAN
  /\ "Ready" \notin DOMAIN d.conds

(* The provider is as a favourable verdict takes it to be, or was edited.  *)
ProviderIsReady == HasReconciled(cr) => cr.here /\ "Ready" \in cr.conds

(* A pass that has found no fault yet, and is not told of a change, is     *)
(* right about the provider; so is what the last one wrote.                *)
SharedInv ==
  /\ Verdict(dpc) /\ ~HasBlocker(d.conds) => named /\ (dqueued \/ ProviderIsReady)
  /\ SaysReady => named
  /\ DependentAtRest /\ SaysReady => ProviderIsReady

DependentInv == DependentShape /\ SharedInv

LEMMA NoPassShape ==
  /\ DOMAIN NoPass = {"refs", "gen", "type", "found", "answers", "conds"}
  /\ NoPass.gen = 0 /\ NoPass.conds = NoConditions /\ DOMAIN NoConditions = {}
BY DEF NoPass, NoConditions

LEMMA DependentStartInv ==
  ASSUME NEW k \in Kinds, NEW r, NEW refs, DependentStart(k, r, refs)
  PROVE  DependentInv
<1>1. kind \in DependentKinds
  BY ReadinessAssumption DEF DependentStart
<1>2. /\ DOMAIN dep = {"gen", "observed", "refs", "conds"}
      /\ dep.gen = 1 /\ dep.observed = 0 /\ dep.conds = NoConditions
  BY DEF DependentStart
<1>3. d = NoPass /\ dpc = "Idle" /\ dstale = FALSE /\ dqueued = TRUE /\ named \in BOOLEAN
  BY DEF DependentStart
<1>4. d.gen = 0 /\ "Ready" \notin DOMAIN d.conds
  BY <1>3, NoPassShape
<1>5. DependentShape
  <2>1. DOMAIN d = {"refs", "gen", "type", "found", "answers", "conds"}
    BY <1>3, NoPassShape
  <2>2. d.gen \in 0 .. dep.gen
    BY <1>2, <1>4
  <2>3. dep.observed \in 0 .. dep.gen
    BY <1>2
  <2>4. dpc = "Idle" /\ dstale \in BOOLEAN /\ dqueued \in BOOLEAN /\ named \in BOOLEAN
    BY DEF DependentStart
  <2>5. dep.gen \in Nat
    BY <1>2
  <2> QED
    BY <1>1, <1>2, <1>4, <2>1, <2>2, <2>3, <2>4, <2>5 DEF DependentShape
<1> QED
  BY <1>2, <1>3, <1>5, NoPassShape DEF DependentInv, SharedInv, Verdict, DependentAtRest, SaysReady

(* A pass that ends without a status update.                               *)
LEMMA GivenUpInv ==
  ASSUME DependentInv, EndDependentPass(TRUE), UNCHANGED <<kind, named, dep>>
  PROVE  DependentInv'
<1>1. dpc' = "Idle" /\ d' = NoPass /\ dstale' = FALSE /\ dqueued' = TRUE
  BY DEF EndDependentPass, DependentInv, DependentShape
<1>a. d'.gen = 0 /\ "Ready" \notin DOMAIN d'.conds
  BY <1>1, NoPassShape
<1>b. DOMAIN d' = {"refs", "gen", "type", "found", "answers", "conds"}
  BY <1>1, NoPassShape
<1>c. d'.gen \in 0 .. dep'.gen
  BY <1>a DEF DependentInv, DependentShape
<1>2. DependentShape'
  BY <1>1, <1>a, <1>b, <1>c DEF DependentInv, DependentShape
<1>3. SharedInv'
  BY <1>1 DEF DependentInv, SharedInv, Verdict, DependentAtRest, SaysReady
<1> QED
  BY <1>2, <1>3 DEF DependentInv

(* A step of the provider: a change of its status is told of, or leaves a  *)
(* provider that is not reconciled.                                        *)
LEMMA GoneKeeps ==
  ASSUME TypeOK, ProviderInv, Next, ~cr'.here
  PROVE  HasReconciled(cr') <=> HasReconciled(cr)
<1>1. CASE UNCHANGED cr
  BY <1>1
<1>2. ASSUME NEW s \in Specs, Edit(s) \/ Recreate(s) PROVE FALSE
  <2>1. CASE Edit(s)
    <3>1. cr' = [cr EXCEPT !.spec = s, !.gen = @ + 1] /\ cr.here
      BY <2>1 DEF Edit, WriteCR
    <3>2. cr'.here = cr.here
      BY <3>1 DEF TypeOK, CRType
    <3> QED
      BY <3>1, <3>2
  <2>2. CASE Recreate(s)
    BY <2>2 DEF Recreate, WriteCR, NewCR
  <2> QED
    BY <1>2, <2>1, <2>2
<1>3. CASE Delete
  BY <1>3 DEF Delete, WriteCR, TypeOK, CRType, HasReconciled
<1>4. CASE WriteStatus
  <2>1. cr.here
    BY <1>4 DEF WriteStatus, ProviderInv, CopyInv, InPass
  <2> QED
    BY <1>4, <2>1 DEF WriteStatus, TypeOK, CRType
<1>5. ASSUME Pass, ~WriteStatus PROVE UNCHANGED cr
  BY <1>5 DEF Pass, Fetch, FetchNotFound, Validate, TestConnection, CheckInventory,
     UpdateContainer, UpdateContainerFails, WriteConflicts, PassFails
<1>6. ASSUME Crash \/ MirrorLoads \/ MirrorLost \/ Source PROVE UNCHANGED cr
  BY <1>6 DEF Crash, MirrorLoads, MirrorLost, Source, Rotate, Outage, OutageEnds
<1>7. ASSUME UpdateSecret \/ \E state \in {"missing", "incomplete"} : SpoilSecret(state)
      PROVE  UNCHANGED cr
  BY <1>7 DEF UpdateSecret, SpoilSecret, WriteSecret
<1> QED
  BY <1>1, <1>2, <1>3, <1>4, <1>5, <1>6, <1>7 DEF Next, User

LEMMA ProviderStepInv ==
  ASSUME TypeOK, ProviderInv, DependentInv, ProviderStep
  PROVE  DependentInv'
<1>1. /\ UNCHANGED <<kind, rows, named, dep, dpc, d, dstale>>
      /\ dqueued' = (dqueued \/ Notified) /\ Next
  BY DEF ProviderStep, depPassVars, Next
<1>2. named /\ ~dqueued' /\ ProviderIsReady => ProviderIsReady'
  BY <1>1, GoneKeeps DEF Notified, ProviderIsReady
<1>3. DependentShape'
  BY <1>1 DEF DependentInv, DependentShape
<1>4. dqueued => dqueued'
  BY <1>1
<1>5. SharedInv'
  BY <1>1, <1>2, <1>4 DEF DependentInv, SharedInv, Verdict, DependentAtRest, SaysReady
<1> QED
  BY <1>3, <1>5 DEF DependentInv

(* A step of a pass that only adds conditions.                             *)
LEMMA GoesOnInv ==
  ASSUME DependentInv, UNCHANGED <<kind, named, dep, dstale, dqueued, cr>>,
         NEW place \in {"Lookup", "Connect", "Judged"}, dpc' = place, Verdict(dpc),
         DOMAIN d' = DOMAIN d, d'.gen = d.gen,
         DOMAIN d.conds \subseteq DOMAIN d'.conds, "Ready" \notin DOMAIN d'.conds
  PROVE  DependentInv'
<1>1. HasBlocker(d.conds) => HasBlocker(d'.conds)
  BY DEF HasBlocker
<1>2. DependentShape'
  BY DEF DependentInv, DependentShape
<1>3. SharedInv'
  BY <1>1 DEF DependentInv, SharedInv, Verdict, DependentAtRest, SaysReady, ProviderIsReady,
     HasReconciled
<1> QED
  BY <1>2, <1>3 DEF DependentInv

LEMMA DependentPassInv ==
  ASSUME TypeOK, ProviderInv, DependentInv, DependentPass
  PROVE  DependentInv'
<1> USE DEF DependentInv
<1>1. UNCHANGED cr
  BY DEF DependentPass, vars
<1>2. CASE FetchDependent
  <2> DEFINE new == [NoPass EXCEPT !.refs = dep.refs, !.gen = dep.gen]
  <2>1. DOMAIN new = DOMAIN NoPass /\ new.gen = dep.gen /\ new.conds = NoConditions
    BY NoPassShape DEF NoPass
  <2>2. d' = new /\ dpc' = "Fetched" /\ ~dstale' /\ dstale' \in BOOLEAN /\ dqueued' = FALSE
        /\ UNCHANGED <<kind, named, dep>>
    BY <1>2 DEF FetchDependent
  <2> HIDE DEF new
  <2>a. "Ready" \notin DOMAIN d'.conds /\ d'.gen = dep'.gen
    BY <2>1, <2>2, NoPassShape
  <2>b. DOMAIN d' = {"refs", "gen", "type", "found", "answers", "conds"}
    BY <2>1, <2>2, NoPassShape
  <2>c. d'.gen \in 0 .. dep'.gen
    BY <2>2, <2>a DEF DependentShape
  <2>3. DependentShape'
    BY <2>2, <2>a, <2>b, <2>c DEF DependentShape
  <2>4. SharedInv'
    BY <2>2 DEF SharedInv, Verdict, DependentAtRest, SaysReady
  <2> QED
    BY <2>3, <2>4
<1>3. CASE ReadProvider
  <2> DEFINE new == [d EXCEPT !.type = Referenced.type, !.conds = ProviderConditions]
  <2>1. DOMAIN new = DOMAIN d /\ new.gen = d.gen /\ new.conds = ProviderConditions
    BY DEF DependentShape
  <2>2. d' = new /\ dpc' \in {"Lookup", "Judged"} /\ UNCHANGED <<kind, named, dep, dstale, dqueued>>
    BY <1>3 DEF ReadProvider
  <2> HIDE DEF new
  <2>3. /\ ~HasBlocker(ProviderConditions) => named /\ cr.here /\ "Ready" \in cr.conds
        /\ "Ready" \notin DOMAIN ProviderConditions
    BY ProviderVerdict DEF DependentShape
  <2>4. DependentShape'
    BY <2>1, <2>2, <2>3 DEF DependentShape
  <2>5. SharedInv'
    BY <1>1, <2>1, <2>2, <2>3 DEF SharedInv, Verdict, DependentAtRest, SaysReady, ProviderIsReady
  <2> QED
    BY <2>4, <2>5
<1>4. CASE FindProvider
  <2>1. CASE ProviderFound(Served, d.type)
    <3>1. d' = [d EXCEPT !.found = TRUE] /\ UNCHANGED <<kind, named, dep, dpc, dstale, dqueued>>
      BY <1>4, <2>1 DEF FindProvider
    <3>2. dpc = "Lookup"
      BY <1>4 DEF FindProvider, Looking
    <3>3. DOMAIN d' = DOMAIN d /\ d'.gen = d.gen /\ d'.conds = d.conds
      BY <3>1 DEF DependentShape
    <3> QED
      BY <1>1, <3>1, <3>2, <3>3, GoesOnInv DEF DependentShape, Verdict
  <2>2. CASE ~ProviderFound(Served, d.type)
    BY <1>4, <2>2, GivenUpInv DEF FindProvider
  <2> QED
    BY <2>1, <2>2
<1>5. CASE Lookup
  <2>1. CASE Answer.is # "error"
    <3>1. d' = [d EXCEPT !.answers = Append(@, Answer)]
          /\ UNCHANGED <<kind, named, dep, dpc, dstale, dqueued>>
      BY <1>5, <2>1 DEF Lookup
    <3>2. dpc = "Lookup"
      BY <1>5 DEF Lookup, Looking
    <3>3. DOMAIN d' = DOMAIN d /\ d'.gen = d.gen /\ d'.conds = d.conds
      BY <3>1 DEF DependentShape
    <3> QED
      BY <1>1, <3>1, <3>2, <3>3, GoesOnInv DEF DependentShape, Verdict
  <2>2. CASE Answer.is = "error"
    BY <1>5, <2>2, GivenUpInv DEF Lookup
  <2> QED
    BY <2>1, <2>2
<1>6. CASE Conclude
  <2> DEFINE conds == UpdateConditions(d.conds, RefConditions)
             new == [d EXCEPT !.conds = conds]
  <2>1. DOMAIN new = DOMAIN d /\ new.gen = d.gen /\ new.conds = conds
    BY DEF DependentShape
  <2>2. d' = new /\ dpc = "Lookup" /\ dpc' \in {"Connect", "Judged"}
        /\ UNCHANGED <<kind, named, dep, dstale, dqueued>>
    BY <1>6 DEF Conclude
  <2>a. DOMAIN conds = DOMAIN d.conds \cup DOMAIN RefConditions
    BY UpdateGrows
  <2>3. DOMAIN d.conds \subseteq DOMAIN conds /\ "Ready" \notin DOMAIN conds
    BY <2>a, RefVerdict DEF DependentShape
  <2> HIDE DEF new, conds
  <2> QED
    BY <1>1, <2>1, <2>2, <2>3, GoesOnInv DEF Verdict
<1>7. CASE Connect
  <2> DEFINE conds == SetWhen(reach, d.conds, "ConnectionTested", "Tested")
             new == [d EXCEPT !.conds = conds]
  <2>1. CASE ProviderFound(Served, d.type) /\ ByRef("Host", Served, d.refs[1]).is = "found"
    <3>1. DOMAIN new = DOMAIN d /\ new.gen = d.gen /\ new.conds = conds
      BY DEF DependentShape
    <3>2. d' = new /\ dpc = "Connect" /\ dpc' = "Judged"
          /\ UNCHANGED <<kind, named, dep, dstale, dqueued>>
      BY <1>7, <2>1 DEF Connect
    <3>3. DOMAIN d.conds \subseteq DOMAIN conds /\ "Ready" \notin DOMAIN conds
      BY SetGrows DEF DependentShape, TypeOK
    <3> HIDE DEF new, conds
    <3> QED
      BY <1>1, <3>1, <3>2, <3>3, GoesOnInv DEF Verdict
  <2>2. CASE ~(ProviderFound(Served, d.type) /\ ByRef("Host", Served, d.refs[1]).is = "found")
    BY <1>7, <2>2, GivenUpInv DEF Connect
  <2> QED
    BY <2>1, <2>2
<1>8. CASE WriteDependent
  <2> DEFINE conds == SetWhen(IsReady(d.conds), d.conds, "Ready", "")
             new == [dep EXCEPT !.observed = d.gen, !.conds = conds]
  <2>1. DOMAIN new = DOMAIN dep /\ new.observed = d.gen /\ new.gen = dep.gen /\ new.conds = conds
    BY DEF DependentShape
  <2>2. dep' = new /\ dpc = "Judged" /\ dpc' = "Idle" /\ d' = NoPass /\ dstale' = FALSE
        /\ (dqueued' <=> dqueued) /\ dqueued' \in BOOLEAN /\ UNCHANGED <<kind, named>>
    BY <1>8 DEF WriteDependent, EndDependentPass, DependentShape
  <2>3. "Ready" \in DOMAIN conds => ~HasBlocker(d.conds)
    BY DEF SetWhen, IsReady, DependentShape
  <2> HIDE DEF new, conds
  <2>a. d'.gen = 0 /\ "Ready" \notin DOMAIN d'.conds
    BY <2>2, NoPassShape
  <2>b. DOMAIN d' = {"refs", "gen", "type", "found", "answers", "conds"}
    BY <2>2, NoPassShape
  <2>c. d'.gen \in 0 .. dep'.gen /\ dep'.gen \in Nat /\ dep'.observed \in 0 .. dep'.gen
    BY <2>1, <2>2, <2>a DEF DependentShape
  <2>d. DOMAIN dep' = {"gen", "observed", "refs", "conds"}
    BY <2>1, <2>2 DEF DependentShape
  <2>4. DependentShape'
    BY <2>2, <2>a, <2>b, <2>c, <2>d DEF DependentShape
  <2>5. SharedInv'
    BY <1>1, <2>1, <2>2, <2>3 DEF SharedInv, Verdict, DependentAtRest, SaysReady, ProviderIsReady
  <2> QED
    BY <2>4, <2>5
<1>9. CASE DependentConflicts
  BY <1>9, GivenUpInv DEF DependentConflicts
<1> QED
  BY <1>2, <1>3, <1>4, <1>5, <1>6, <1>7, <1>8, <1>9 DEF DependentPass

LEMMA EditDependentInv ==
  ASSUME DependentInv, NEW refs, EditDependent(refs)
  PROVE  DependentInv'
<1> DEFINE new == [dep EXCEPT !.refs = refs, !.gen = @ + 1]
<1>1. DOMAIN new = DOMAIN dep /\ new.gen = dep.gen + 1 /\ new.observed = dep.observed
      /\ new.conds = dep.conds
  BY DEF DependentInv, DependentShape
<1>2. dep' = new /\ dqueued' = TRUE /\ dstale' \in BOOLEAN
      /\ UNCHANGED <<kind, named, dpc, d>>
  BY DEF EditDependent
<1> HIDE DEF new
<1>3. DependentShape'
  BY <1>1, <1>2 DEF DependentInv, DependentShape
<1>4. SharedInv'
  BY <1>1, <1>2 DEF DependentInv, SharedInv, Verdict, DependentAtRest, SaysReady
<1> QED
  BY <1>3, <1>4 DEF DependentInv

LEMMA DependentInvariant == ReadinessSpec => []DependentInv
<1>1. Init /\ (\E r, refs : \E k \in Kinds : DependentStart(k, r, refs)) => DependentInv
  BY DependentStartInv
<1>2. TypeOK /\ ProviderInv /\ DependentInv /\ [ReadinessNext]_allVars => DependentInv'
  <2> SUFFICES ASSUME TypeOK, ProviderInv, DependentInv, [ReadinessNext]_allVars
               PROVE  DependentInv'
    OBVIOUS
  <2>1. CASE UNCHANGED allVars
    BY <2>1 DEF allVars, vars, depVars, depPassVars, DependentInv, DependentShape, SharedInv,
       Verdict, DependentAtRest, SaysReady, ProviderIsReady, HasReconciled
  <2>2. CASE ProcessCrash
    BY <2>2, GivenUpInv DEF ProcessCrash
  <2>3. CASE DependentFails
    BY <2>3, GivenUpInv DEF DependentFails
  <2> QED
    BY <2>1, <2>2, <2>3, ProviderStepInv, DependentPassInv, EditDependentInv DEF ReadinessNext
<1> QED
  BY <1>1, <1>2, ComposedInvariant, PTL DEF ReadinessSpec

(* Composed with a CR that refers to it, the provider keeps its promises.  *)
THEOREM ProviderKeepsItsPromises ==
  ReadinessSpec => [](ContainerIsCurrent /\ FileIsTheContainers /\ ReadyIsBacked)
BY ComposedInvariant, InvGives, PTL

(* Every reachable state is well typed.                                    *)
THEOREM DependentTyped == ReadinessSpec => []DependentTypeOK
<1>1. TypeOK /\ ProviderInv /\ DependentInv => DependentTypeOK
  BY DEF ProviderInv, CopyInv, DependentInv, DependentShape, DependentTypeOK
<1> QED
  BY <1>1, ComposedInvariant, DependentInvariant, PTL

(* A CR that says Ready and is left alone has a provider that is there and *)
(* Ready, or one that was edited since it was last reconciled              *)
(* (predicate.go of each controller).                                      *)
THEOREM ReadyIsAlwaysShared == ReadinessSpec => []ReadyIsShared
<1>1. DependentInv => ReadyIsShared
  BY DEF DependentInv, SharedInv, ReadyIsShared, ProviderIsReady
<1> QED
  BY <1>1, DependentInvariant, PTL

(***************************************************************************)
(* That a CR which says Ready has earned it.                               *)
(***************************************************************************)
(* Objects have IDs, and the user writes lists.                            *)
InventoryOK == IsFiniteSet(rows) /\ \A r \in rows : r.id # None

IsList(refs) == Len(refs) \in Nat /\ DOMAIN refs = 1 .. Len(refs)

RefsAreLists == \A refs \in RefLists : IsList(refs)

(* What ReadyIsEarned says, of any list of references.                     *)
Sure(ref) == Cardinality(Meant(ref)) = 1

Earned(refs) ==
  \A i \in DOMAIN refs :
    /\ Meant(refs[i]) # {}
    /\ refs[i].id = None /\ Len(refs[i].name) = 1 => Sure(refs[i])
    /\ kind = "Plan" =>
         \A j \in DOMAIN refs : i # j /\ Sure(refs[i]) => Meant(refs[i]) # Meant(refs[j])

(* An answer that promises no more of its reference than the inventory has.*)
Refusals == {"NotFound", "NotSet", "RefNotUnique"}

Fits(a, ref) ==
  /\ a.is \in {"found", "NotFound"} \cup (IF kind \in DestinationKinds THEN {} ELSE Refusals)
  /\ a.is = "found" => /\ \E r \in Meant(ref) : r.id = a.id
                       /\ ref.id = None /\ Len(ref.name) = 1 => Sure(ref)

Answers(refs) ==
  [is : {"found"} \cup Refusals,
   id : {r.id : r \in rows} \cup {None} \cup {refs[i].id : i \in DOMAIN refs}]

(* The pass is on the references it fetched: without an edit, the CR's.    *)
ListInv ==
  /\ InventoryOK /\ IsList(dep.refs)
  /\ dpc # "Idle" => IsList(d.refs) /\ (~dstale => d.refs = dep.refs /\ d.gen = dep.gen)
  /\ dpc = "Fetched" => d.answers = <<>>
  /\ dpc = "Lookup" => d.answers \in Seq(Answers(d.refs)) /\ Len(d.answers) <= Len(d.refs)

(* As long as no fault was found, each answer fits; and nothing is asked   *)
(* of a source that would be taken at its word.                            *)
AnswersInv ==
  dpc = "Lookup" /\ ~HasBlocker(d.conds) =>
    /\ kind \in DestinationKinds \/ d.type # "openshift"
    /\ \A i \in DOMAIN d.answers : Fits(d.answers[i], d.refs[i])

JudgedInv ==
  /\ dpc \in {"Connect", "Judged"} /\ ~HasBlocker(d.conds) => Earned(d.refs)
  /\ SaysReady /\ dep.observed = dep.gen => Earned(dep.refs)

EarnedInv == ListInv /\ AnswersInv /\ JudgedInv

(***************************************************************************)
(* What the inventory answers.                                             *)
(***************************************************************************)
LEMMA GetFits ==
  ASSUME InventoryOK, NEW ref
  PROVE  LET a == Get(Served, ref.id) IN
         /\ a.is \in {"found", "NotFound", "error"} /\ a.id \in {ref.id, None}
         /\ a.is # "error" => Fits(a, ref)
<1> DEFINE a == Get(Served, ref.id)
<1>1. a \in {Result("found", ref.id), Result("NotFound", None), Result("error", None)}
  BY DEF Get
<1>2. ASSUME a.is = "found" PROVE ref.id # None /\ \E r \in Meant(ref) : r.id = a.id
  <2>1. GetStatus(Served, ref.id) = 200 /\ a = Result("found", ref.id)
    BY <1>2 DEF Get, Result
  <2>2. PICK r \in Served.rows : r.id = ref.id
    BY <2>1 DEF GetStatus
  <2>3. r \in Meant(ref)
    BY <2>2 DEF Meant, Served
  <2> QED
    BY <2>1, <2>2, <2>3 DEF Result, Served, InventoryOK
<1> HIDE DEF a
<1>3. a.is \in {"found", "NotFound", "error"} /\ a.id \in {ref.id, None}
  BY <1>1 DEF Result
<1>4. a.is # "error" => Fits(a, ref)
  BY <1>2, <1>3 DEF Fits
<1> QED
  BY <1>3, <1>4 DEF a

(* A name alone is answered with all that it may mean.                     *)
LEMMA ListedIsMeant ==
  ASSUME InventoryOK, NEW what \in {"VM", "Host", "Network", "Datastore"},
         NEW ref, ref.id = None, ref.name # Unset
  PROVE  /\ List(what, Served, ref.name) \subseteq Meant(ref)
         /\ List(what, Served, ref.name) # {} /\ Len(ref.name) = 1 =>
              List(what, Served, ref.name) = Meant(ref)
<1>1. Named(rows, ref.name) = Meant(ref)
  BY DEF Named, Meant, InventoryOK
<1>2. Listed(what, rows, ref.name) \subseteq Named(rows, ref.name)
  BY DEF Listed, ListVMs, ListHosts, ListNetworks, ListDatastores, FilterVMs, FilterHosts,
     FilterNetworks, FilterDatastores
<1>3. Len(ref.name) = 1 => Listed(what, rows, ref.name) = Named(rows, ref.name)
  BY DEF Listed, ListVMs, ListHosts, ListNetworks, ListDatastores, FilterVMs, FilterHosts,
     FilterNetworks, FilterDatastores, Chooses
<1>4. Served.rows = rows
  BY DEF Served
<1> QED
  BY <1>1, <1>2, <1>3, <1>4 DEF List, Decoded

LEMMA FindFits ==
  ASSUME InventoryOK, kind \notin DestinationKinds,
         NEW what \in {"VM", "Host", "Network", "Datastore"},
         NEW ref, ref.id = None, ref.name # Unset
  PROVE  LET a == FindByName(what, Served, ref.name) IN
         /\ a.is \in {"found", "NotFound", "RefNotUnique"}
         /\ a.id \in {r.id : r \in rows} \cup {None}
         /\ Fits(a, ref)
<1> DEFINE a == FindByName(what, Served, ref.name)
           list == List(what, Served, ref.name)
           one == CHOOSE r \in list : TRUE
<1>1. list \subseteq Meant(ref) /\ (list # {} /\ Len(ref.name) = 1 => list = Meant(ref))
  BY ListedIsMeant
<1>2. Meant(ref) \subseteq rows
  BY DEF Meant
<1>3. \/ a = Result("NotFound", None)
      \/ a = Result("RefNotUnique", None)
      \/ list # {} /\ ~(Cardinality(list) > 1) /\ a = Result("found", one.id)
  BY DEF FindByName
<1>4. IsFiniteSet(list) /\ Cardinality(list) \in Nat
  BY <1>1, <1>2, FS_Subset, FS_CardinalityType DEF InventoryOK
<1>5. list # {} => one \in list /\ Cardinality(list) # 0
  BY <1>4, FS_EmptySet
<1> HIDE DEF list, one, a
<1>6. CASE a = Result("found", one.id) /\ list # {} /\ ~(Cardinality(list) > 1)
  <2>1. Cardinality(list) = 1 /\ one \in Meant(ref) /\ one \in rows
    BY <1>1, <1>2, <1>4, <1>5, <1>6
  <2>2. a.is = "found" /\ a.id = one.id
    BY <1>6 DEF Result
  <2>3. Len(ref.name) = 1 => Sure(ref)
    BY <1>1, <1>6, <2>1 DEF Sure
  <2> QED
    BY <2>1, <2>2, <2>3 DEF Fits, a
<1>7. CASE a = Result("NotFound", None) \/ a = Result("RefNotUnique", None)
  <2>1. a.is \in {"NotFound", "RefNotUnique"} /\ a.id = None
    BY <1>7 DEF Result
  <2> QED
    BY <2>1 DEF Fits, Refusals, a
<1> QED
  BY <1>3, <1>6, <1>7

LEMMA AnswerFits ==
  ASSUME InventoryOK, kind \in DependentKinds, Answer.is # "error"
  PROVE  /\ Answer.is \in {"found"} \cup Refusals
         /\ Answer.id \in {r.id : r \in rows} \cup {None, NextRef.id}
         /\ kind \in DestinationKinds \/ d.type # "openshift" => Fits(Answer, NextRef)
<1> DEFINE ref == NextRef
<1>1. CASE kind \in DestinationKinds
  <2>1. Answer = Get(Served, ref.id)
    BY <1>1 DEF Answer, Asked, WithoutInventory
  <2> HIDE DEF ref
  <2> QED
    BY <2>1, GetFits DEF ref, Refusals
<1>2. CASE kind \notin DestinationKinds /\ NotSet(ref)
  <2>1. Answer = Result("NotSet", None)
    BY <1>2 DEF Answer, WithoutInventory
  <2>2. Answer.is = "NotSet" /\ Answer.id = None
    BY <2>1 DEF Result
  <2> QED
    BY <1>2, <2>2 DEF Fits, Refusals
<1>3. CASE kind \notin DestinationKinds /\ ~NotSet(ref) /\ d.type = "openshift"
  <2>1. Answer = Result("found", ref.id)
    BY <1>3 DEF Answer, WithoutInventory
  <2> QED
    BY <1>3, <2>1 DEF Result
<1>4. CASE kind \notin DestinationKinds /\ ~NotSet(ref) /\ d.type # "openshift"
  <2>1. PICK what \in {"VM", "Host", "Network", "Datastore"} : Answer = ByRef(what, Served, ref)
    BY <1>4 DEF Answer, Asked, WithoutInventory, DependentKinds, DestinationKinds
  <2>2. CASE ref.id # None
    <3>1. Answer = Get(Served, ref.id)
      BY <2>1, <2>2 DEF ByRef
    <3> HIDE DEF ref
    <3> QED
      BY <3>1, GetFits DEF ref, Refusals
  <2>3. CASE ref.id = None
    <3>1. Answer = FindByName(what, Served, ref.name) /\ ref.name # Unset
      BY <1>4, <2>1, <2>3 DEF ByRef, NotSet
    <3> HIDE DEF ref
    <3> QED
      BY <1>4, <2>3, <3>1, FindFits DEF ref, Refusals
  <2> QED
    BY <2>2, <2>3
<1> QED
  BY <1>1, <1>2, <1>3, <1>4

(* A provider whose verdict is favourable is one that can be asked.        *)
LEMMA VerdictAllowsLookups ==
  ASSUME kind \in DependentKinds, named \in BOOLEAN, ~HasBlocker(ProviderConditions)
  PROVE  /\ ~LooksNothingUp(ProviderConditions)
         /\ kind \in DestinationKinds \/ Referenced.type # "openshift"
<1>1. Referenced.here
  BY ProviderVerdict DEF Referenced
<1>2. "SourceProviderNotReady" \notin DOMAIN ProviderConditions
  BY DEF HasBlocker
<1>3. ASSUME kind \in DestinationKinds PROVE Referenced.type = "openshift"
  <2>1. ProviderConditions = ValidateDestination(Referenced)
    BY <1>3 DEF ProviderConditions, DestinationKinds
  <2>2. Referenced.type # "openshift" => "DestinationProviderNotValid" \in DOMAIN ValidateDestination(Referenced)
    BY <1>1, SetGrows DEF ValidateDestination
  <2> QED
    BY <2>1, <2>2 DEF HasBlocker
<1>4. ASSUME kind = "Host" PROVE Referenced.type = "vsphere"
  <2>1. ProviderConditions = ValidateHostProvider(Referenced)
    BY <1>4 DEF ProviderConditions, DestinationKinds
  <2>2. Referenced.type # "vsphere" => "TypeNotValid" \in DOMAIN ValidateHostProvider(Referenced)
    BY <1>1, SetGrows DEF ValidateHostProvider
  <2> QED
    BY <2>1, <2>2 DEF HasBlocker
<1>5. ASSUME kind \notin DestinationKinds, kind # "Host" PROVE Referenced.type # "openshift"
  <2>1. ProviderConditions = ValidateSource(Referenced)
    BY <1>5 DEF ProviderConditions, DestinationKinds
  <2>2. Referenced.type = "openshift" => "SourceProviderNotValid" \in DOMAIN ValidateSource(Referenced)
    BY <1>1, SetGrows DEF ValidateSource
  <2> QED
    BY <2>1, <2>2 DEF HasBlocker
<1>6. kind \in DestinationKinds => TypeOf(cr.spec) # "vsphere"
  BY <1>3 DEF Referenced
<1> QED
  BY <1>1, <1>2, <1>3, <1>4, <1>5, <1>6 DEF LooksNothingUp

(* Each fault of an answer is a condition, though others may take its type.*)
LEMMA FaultsBlock ==
  ASSUME kind \in DependentKinds, ~HasBlocker(RefConditions)
  PROVE  /\ ~Answered(d.answers, "NotFound")
         /\ kind \notin DestinationKinds =>
              ~Answered(d.answers, "NotSet") /\ ~Answered(d.answers, "RefNotUnique")
         /\ kind = "Plan" => ~Repeats(d.answers)
<1>0. DOMAIN RefConditions \subseteq {"ConnectionTested"}
  BY DEF HasBlocker
<1>1. ASSUME NEW type, NEW other, type # "ConnectionTested", other # "ConnectionTested",
             DOMAIN Listing(d.answers, type, other) \subseteq {"ConnectionTested"}
      PROVE  \A what \in Refusals : ~Answered(d.answers, what)
  BY <1>1 DEF Listing, SetWhen, Set, NoConditions, Refusals
<1>2. CASE kind = "Host"
  BY <1>0, <1>2 DEF RefConditions, ValidateHostRef, Set, NoConditions, DestinationKinds
<1>3. CASE kind = "NetworkMap"
  BY <1>0, <1>1, <1>3 DEF RefConditions, ValidateNetworks, Refusals, DestinationKinds
<1>4. CASE kind = "StorageMap"
  BY <1>0, <1>1, <1>4 DEF RefConditions, ValidateStorage, Refusals, DestinationKinds
<1>5. CASE kind = "Plan"
  BY <1>0, <1>5 DEF RefConditions, ValidateVMs, SetWhen, Set, NoConditions, DestinationKinds
<1>6. CASE kind = "Networks"
  BY <1>0, <1>6 DEF RefConditions, ValidateNetworkDestinations, SetWhen, Set, NoConditions,
     DestinationKinds
<1>7. CASE kind = "StorageClasses"
  BY <1>0, <1>7 DEF RefConditions, ValidateStorageDestinations, SetWhen, Set, NoConditions,
     DestinationKinds
<1> QED
  BY <1>2, <1>3, <1>4, <1>5, <1>6, <1>7 DEF DependentKinds, DestinationKinds

LEMMA FitsEarn ==
  ASSUME kind \in DependentKinds, ListInv, dpc = "Lookup", Len(d.answers) = Len(d.refs),
         ~HasBlocker(RefConditions),
         \A i \in DOMAIN d.answers : Fits(d.answers[i], d.refs[i])
  PROVE  Earned(d.refs)
<1>a. d.answers \in Seq(Answers(d.refs)) /\ DOMAIN d.refs = 1 .. Len(d.refs)
  BY DEF ListInv, IsList
<1>b. DOMAIN d.refs = DOMAIN d.answers /\ \A i \in DOMAIN d.answers : d.answers[i] \in Answers(d.refs)
  BY <1>a
<1>1. /\ DOMAIN d.refs = DOMAIN d.answers
      /\ \A i \in DOMAIN d.answers : d.answers[i].is \in {"found"} \cup Refusals
  BY <1>b DEF Answers
<1>2. \A i \in DOMAIN d.answers : d.answers[i].is = "found"
  BY <1>1, FaultsBlock DEF Answered, Refusals, Fits
<1>3. ASSUME NEW i \in DOMAIN d.refs
      PROVE  /\ \E r \in Meant(d.refs[i]) : r.id = d.answers[i].id
             /\ d.refs[i].id = None /\ Len(d.refs[i].name) = 1 => Sure(d.refs[i])
  BY <1>1, <1>2 DEF Fits
<1>4. ASSUME kind = "Plan", NEW i \in DOMAIN d.refs, NEW j \in DOMAIN d.refs, i # j,
             Sure(d.refs[i]), Meant(d.refs[i]) = Meant(d.refs[j])
      PROVE  FALSE
  <2>1. PICK r \in Meant(d.refs[i]) : r.id = d.answers[i].id
    BY <1>3
  <2>2. PICK q \in Meant(d.refs[i]) : q.id = d.answers[j].id
    BY <1>3, <1>4
  <2>3. IsFiniteSet(Meant(d.refs[i]))
    BY FS_Subset DEF Meant, ListInv, InventoryOK
  <2>4. r = q
    BY <1>4, <2>3, FS_Singleton DEF Sure
  <2>5. d.answers[i].id = d.answers[j].id
    BY <2>1, <2>2, <2>4
  <2> QED
    BY <1>1, <1>2, <1>4, <2>5, FaultsBlock DEF Repeats
<1> QED
  BY <1>3, <1>4 DEF Earned

(***************************************************************************)
(* Steps.                                                                  *)
(***************************************************************************)
LEMMA SameMeaning ==
  ASSUME UNCHANGED <<kind, rows>>
  PROVE  /\ \A refs : (Earned(refs)' <=> Earned(refs)) /\ Answers(refs)' = Answers(refs)
         /\ \A a, ref : Fits(a, ref)' <=> Fits(a, ref)
         /\ InventoryOK' <=> InventoryOK
BY DEF Earned, Fits, Sure, Meant, Answers, InventoryOK

LEMMA EarnedStays ==
  ASSUME EarnedInv, UNCHANGED <<kind, rows, dep, dpc, d, dstale>>
  PROVE  EarnedInv'
<1>1. ListInv'
  BY SameMeaning DEF EarnedInv, ListInv, IsList
<1>2. AnswersInv'
  BY SameMeaning DEF EarnedInv, AnswersInv, HasBlocker
<1>3. JudgedInv'
  BY SameMeaning DEF EarnedInv, JudgedInv, SaysReady, HasBlocker
<1> QED
  BY <1>1, <1>2, <1>3 DEF EarnedInv

(* A pass that ends without a status update.                               *)
LEMMA GivenUpEarned ==
  ASSUME EarnedInv, EndDependentPass(TRUE), UNCHANGED <<kind, rows, dep>>
  PROVE  EarnedInv'
<1>1. dpc' = "Idle"
  BY DEF EndDependentPass
<1> QED
  BY <1>1, SameMeaning DEF EarnedInv, ListInv, AnswersInv, JudgedInv, SaysReady, IsList

(* A step of a pass between its fetch and its end.                         *)
LEMMA GoesOnEarned ==
  ASSUME EarnedInv, UNCHANGED <<kind, rows, dep, dstale>>, dpc # "Idle",
         d'.refs = d.refs, d'.gen = d.gen, dpc' \in {"Lookup", "Connect", "Judged"},
         dpc' = "Lookup" => d'.answers \in Seq(Answers(d.refs)) /\ Len(d'.answers) <= Len(d.refs),
         dpc' = "Lookup" /\ ~HasBlocker(d'.conds) =>
           /\ kind \in DestinationKinds \/ d'.type # "openshift"
           /\ \A k \in DOMAIN d'.answers : Fits(d'.answers[k], d.refs[k]),
         dpc' \in {"Connect", "Judged"} /\ ~HasBlocker(d'.conds) => Earned(d.refs)
  PROVE  EarnedInv'
<1>1. ListInv'
  BY SameMeaning DEF EarnedInv, ListInv, IsList
<1>2. AnswersInv'
  BY SameMeaning DEF AnswersInv, HasBlocker
<1>3. JudgedInv'
  BY SameMeaning DEF EarnedInv, JudgedInv, SaysReady, HasBlocker
<1> QED
  BY <1>1, <1>2, <1>3 DEF EarnedInv

LEMMA DependentPassEarned ==
  ASSUME TypeOK, DependentInv, EarnedInv, DependentPass
  PROVE  EarnedInv'
<1> USE DEF EarnedInv
<1>0. DOMAIN d = {"refs", "gen", "type", "found", "answers", "conds"}
  BY DEF DependentInv, DependentShape
<1>1. CASE FetchDependent
  <2>1. d' = [NoPass EXCEPT !.refs = dep.refs, !.gen = dep.gen] /\ dpc' = "Fetched"
        /\ dstale' = FALSE /\ UNCHANGED <<kind, rows, dep>>
    BY <1>1 DEF FetchDependent
  <2>2. d'.refs = dep.refs /\ d'.gen = dep.gen /\ d'.answers = <<>>
    BY <2>1 DEF NoPass
  <2>3. ListInv'
    BY <2>1, <2>2, SameMeaning DEF ListInv, IsList
  <2>4. AnswersInv' /\ JudgedInv'
    BY <2>1, SameMeaning DEF AnswersInv, JudgedInv, SaysReady
  <2> QED
    BY <2>3, <2>4
<1>2. CASE ReadProvider
  <2>1. /\ d' = [d EXCEPT !.type = Referenced.type, !.conds = ProviderConditions]
        /\ dpc = "Fetched"
        /\ dpc' = IF LooksNothingUp(ProviderConditions) THEN "Judged" ELSE "Lookup"
        /\ UNCHANGED <<kind, rows, dep, dstale>>
    BY <1>2 DEF ReadProvider
  <2>2. /\ d'.refs = d.refs /\ d'.gen = d.gen /\ d'.answers = d.answers
        /\ d'.type = Referenced.type /\ d'.conds = ProviderConditions
    BY <1>0, <2>1
  <2>3. ~HasBlocker(ProviderConditions) =>
          /\ ~LooksNothingUp(ProviderConditions)
          /\ kind \in DestinationKinds \/ Referenced.type # "openshift"
    BY VerdictAllowsLookups DEF DependentInv, DependentShape
  <2>4. d.answers = <<>> /\ IsList(d.refs)
    BY <2>1 DEF ListInv
  <2>5. <<>> \in Seq(Answers(d.refs)) /\ Len(<<>>) = 0 /\ DOMAIN <<>> = {} /\ 0 <= Len(d.refs)
    BY <2>4 DEF IsList
  <2> QED
    BY <2>1, <2>2, <2>3, <2>4, <2>5, GoesOnEarned
<1>3. CASE FindProvider
  <2>1. CASE ProviderFound(Served, d.type)
    <3>1. d' = [d EXCEPT !.found = TRUE] /\ UNCHANGED <<kind, rows, dep, dpc, dstale>> /\ dpc = "Lookup"
      BY <1>3, <2>1 DEF FindProvider, Looking
    <3>2. d'.refs = d.refs /\ d'.gen = d.gen /\ d'.answers = d.answers /\ d'.type = d.type
          /\ d'.conds = d.conds
      BY <1>0, <3>1
    <3> QED
      BY <3>1, <3>2, GoesOnEarned DEF ListInv, AnswersInv
  <2>2. CASE ~ProviderFound(Served, d.type)
    BY <1>3, <2>2, GivenUpEarned DEF FindProvider
  <2> QED
    BY <2>1, <2>2
<1>4. CASE Lookup
  <2>1. CASE Answer.is # "error"
    <3> DEFINE n == Len(d.answers)
               new == Append(d.answers, Answer)
    <3>1. d' = [d EXCEPT !.answers = new] /\ UNCHANGED <<kind, rows, dep, dpc, dstale>>
          /\ dpc = "Lookup" /\ n < Len(d.refs)
      BY <1>4, <2>1 DEF Lookup, Looking
    <3>2. d'.refs = d.refs /\ d'.gen = d.gen /\ d'.answers = new /\ d'.type = d.type
          /\ d'.conds = d.conds
      BY <1>0, <3>1
    <3>3. d.answers \in Seq(Answers(d.refs)) /\ IsList(d.refs) /\ InventoryOK
      BY <3>1 DEF ListInv
    <3>4. NextRef = d.refs[n + 1] /\ n + 1 \in DOMAIN d.refs
      BY <3>1, <3>3 DEF NextRef, IsList
    <3>5. /\ Answer.is \in {"found"} \cup Refusals
          /\ Answer.id \in {r.id : r \in rows} \cup {None, NextRef.id}
          /\ kind \in DestinationKinds \/ d.type # "openshift" => Fits(Answer, NextRef)
      BY <2>1, <3>3, AnswerFits DEF DependentInv, DependentShape
    <3>6. Answer \in Answers(d.refs)
      <4>1. Answer = [is |-> Answer.is, id |-> Answer.id]
        BY DEF Answer, Asked, Get, ByRef, FindByName, Result
      <4> QED
        BY <3>4, <3>5, <4>1 DEF Answers
    <3>7. /\ new \in Seq(Answers(d.refs)) /\ Len(new) = n + 1
          /\ \A k \in DOMAIN new : \/ k \in DOMAIN d.answers /\ new[k] = d.answers[k]
                                   \/ k = n + 1 /\ new[k] = Answer
      BY <3>3, <3>6
    <3>8. n + 1 <= Len(d.refs)
      BY <3>1, <3>3 DEF IsList
    <3> HIDE DEF new, n
    <3>9. ~HasBlocker(d'.conds) =>
            /\ kind \in DestinationKinds \/ d'.type # "openshift"
            /\ \A k \in DOMAIN new : Fits(new[k], d.refs[k])
      BY <3>1, <3>2, <3>4, <3>5, <3>7 DEF AnswersInv
    <3> QED
      BY <3>1, <3>2, <3>7, <3>8, <3>9, GoesOnEarned
  <2>2. CASE Answer.is = "error"
    BY <1>4, <2>2, GivenUpEarned DEF Lookup
  <2> QED
    BY <2>1, <2>2
<1>5. CASE Conclude
  <2> DEFINE conds == UpdateConditions(d.conds, RefConditions)
  <2>1. /\ d' = [d EXCEPT !.conds = conds] /\ dpc = "Lookup" /\ Len(d.answers) = Len(d.refs)
        /\ dpc' \in {"Connect", "Judged"} /\ UNCHANGED <<kind, rows, dep, dstale>>
    BY <1>5 DEF Conclude
  <2>2. d'.refs = d.refs /\ d'.gen = d.gen /\ d'.conds = conds
    BY <1>0, <2>1
  <2>3. DOMAIN conds = DOMAIN d.conds \cup DOMAIN RefConditions
    BY UpdateGrows
  <2>4. ~HasBlocker(conds) => ~HasBlocker(d.conds) /\ ~HasBlocker(RefConditions)
    BY <2>3 DEF HasBlocker
  <2> HIDE DEF conds
  <2>5. ~HasBlocker(conds) => Earned(d.refs)
    BY <2>1, <2>4, FitsEarn DEF AnswersInv, DependentInv, DependentShape
  <2> QED
    BY <2>1, <2>2, <2>5, GoesOnEarned
<1>6. CASE Connect
  <2>1. CASE ProviderFound(Served, d.type) /\ ByRef("Host", Served, d.refs[1]).is = "found"
    <3> DEFINE conds == SetWhen(reach, d.conds, "ConnectionTested", "Tested")
    <3>1. d' = [d EXCEPT !.conds = conds] /\ dpc = "Connect" /\ dpc' = "Judged"
          /\ UNCHANGED <<kind, rows, dep, dstale>>
      BY <1>6, <2>1 DEF Connect
    <3>2. d'.refs = d.refs /\ d'.gen = d.gen /\ d'.conds = conds
      BY <1>0, <3>1
    <3>3. ~HasBlocker(conds) => ~HasBlocker(d.conds)
      BY SetGrows DEF HasBlocker, TypeOK
    <3> HIDE DEF conds
    <3> QED
      BY <3>1, <3>2, <3>3, GoesOnEarned DEF JudgedInv
  <2>2. CASE ~(ProviderFound(Served, d.type) /\ ByRef("Host", Served, d.refs[1]).is = "found")
    BY <1>6, <2>2, GivenUpEarned DEF Connect
  <2> QED
    BY <2>1, <2>2
<1>7. CASE WriteDependent
  <2> DEFINE conds == SetWhen(IsReady(d.conds), d.conds, "Ready", "")
  <2>1. /\ dep' = [dep EXCEPT !.observed = d.gen, !.conds = conds] /\ dpc = "Judged" /\ ~dstale
        /\ dpc' = "Idle" /\ UNCHANGED <<kind, rows>>
    BY <1>7 DEF WriteDependent, EndDependentPass
  <2>2. dep'.refs = dep.refs /\ dep'.conds = conds
    BY <2>1 DEF DependentInv, DependentShape
  <2>3. "Ready" \in DOMAIN conds => ~HasBlocker(d.conds)
    BY DEF SetWhen, IsReady, DependentInv, DependentShape
  <2> HIDE DEF conds
  <2>4. SaysReady' => Earned(dep.refs)
    BY <2>1, <2>2, <2>3 DEF SaysReady, JudgedInv, ListInv
  <2> QED
    BY <2>1, <2>2, <2>4, SameMeaning DEF ListInv, AnswersInv, JudgedInv, IsList
<1>8. CASE DependentConflicts
  BY <1>8, GivenUpEarned DEF DependentConflicts
<1> QED
  BY <1>1, <1>2, <1>3, <1>4, <1>5, <1>6, <1>7, <1>8 DEF DependentPass

LEMMA EditDependentEarned ==
  ASSUME DependentInv, EarnedInv, RefsAreLists, NEW refs \in RefLists, EditDependent(refs)
  PROVE  EarnedInv'
<1>1. /\ dep' = [dep EXCEPT !.refs = refs, !.gen = @ + 1] /\ dstale' = (dpc # "Idle")
      /\ UNCHANGED <<kind, rows, dpc, d>>
  BY DEF EditDependent
<1>2. dep'.refs = refs /\ dep'.gen = dep.gen + 1 /\ dep'.observed = dep.observed
      /\ dep.gen \in Nat /\ dep.observed \in 0 .. dep.gen
  BY <1>1 DEF DependentInv, DependentShape
<1>3. dep'.observed # dep'.gen
  BY <1>2
<1>4. ListInv'
  BY <1>1, <1>2, SameMeaning DEF EarnedInv, ListInv, IsList, RefsAreLists
<1>5. AnswersInv' /\ JudgedInv'
  BY <1>1, <1>3, SameMeaning DEF EarnedInv, AnswersInv, JudgedInv, HasBlocker
<1> QED
  BY <1>4, <1>5 DEF EarnedInv

(* For any inventory of objects with IDs and any lists of references, a CR *)
(* that says Ready of what it now refers to has earned it: each reference  *)
(* meant an object of the inventory, a bare name one only, and a plan      *)
(* names no VM twice - wherever in a pass its references were edited, or   *)
(* its inventory or provider was lost (validation/*.go, web/client.go).    *)
THEOREM ReadyIsAlwaysEarned ==
  ASSUME RefsAreLists
  PROVE  ReadinessSpec /\ InventoryOK /\ IsList(dep.refs) => []ReadyIsEarned
<1>1. (\E r, refs : \E k \in Kinds : DependentStart(k, r, refs)) /\ InventoryOK /\ IsList(dep.refs)
        => EarnedInv
  <2> SUFFICES ASSUME NEW k, NEW r, NEW refs, DependentStart(k, r, refs), InventoryOK, IsList(dep.refs)
               PROVE  EarnedInv
    OBVIOUS
  <2>1. dpc = "Idle" /\ dep.conds = NoConditions
    BY DEF DependentStart
  <2>2. ~SaysReady
    BY <2>1 DEF SaysReady, NoConditions
  <2> QED
    BY <2>1, <2>2 DEF EarnedInv, ListInv, AnswersInv, JudgedInv
<1>2. TypeOK /\ DependentInv /\ EarnedInv /\ [ReadinessNext]_allVars => EarnedInv'
  <2> SUFFICES ASSUME TypeOK, DependentInv, EarnedInv, [ReadinessNext]_allVars
               PROVE  EarnedInv'
    OBVIOUS
  <2>1. CASE UNCHANGED allVars
    BY <2>1, EarnedStays DEF allVars, depVars, depPassVars
  <2>2. CASE ProviderStep
    BY <2>2, EarnedStays DEF ProviderStep, depPassVars
  <2>3. CASE ProcessCrash
    BY <2>3, GivenUpEarned DEF ProcessCrash
  <2>4. CASE DependentFails
    BY <2>4, GivenUpEarned DEF DependentFails
  <2> QED
    BY <2>1, <2>2, <2>3, <2>4, DependentPassEarned, EditDependentEarned DEF ReadinessNext
<1>3. EarnedInv => ReadyIsEarned
  BY DEF EarnedInv, JudgedInv, Earned, Sure, ReadyIsEarned, Certain, NoneTwice
<1> QED
  BY <1>1, <1>2, <1>3, ComposedInvariant, DependentInvariant, PTL DEF ReadinessSpec
=============================================================================
