------------------------ MODULE PlanReferencesProofs ------------------------
(***************************************************************************)
(* That each VM of a plan finds its own status, for any VMs listed by ID   *)
(* or by name, any edits of the list and any number of executions; and     *)
(* that a plan which succeeded has migrated the VMs it lists.              *)
(***************************************************************************)
EXTENDS PlanReferences, FiniteSetTheorems, WellFoundedInduction, TLAPS

(***************************************************************************)
(* Lists.                                                                  *)
(***************************************************************************)
LEMMA RefType == \A r \in Refs : r.vm \in PlanVMs /\ r.id \in {r.vm, Unset}
BY DEF Refs

LEMMA ListType ==
  ASSUME NEW list \in Lists
  PROVE  /\ list \in Seq(Refs) /\ Len(list) \in Nat /\ DOMAIN list = 1..Len(list)
         /\ \A k \in DOMAIN list : list[k] \in Refs
<1>1. Cardinality(PlanVMs) \in Nat
  BY ReferencesAssumption, FS_CardinalityType
<1>2. PICK n \in 1..Cardinality(PlanVMs) : list \in [1..n -> Refs]
  BY DEF Lists
<1>3. n \in Nat
  BY <1>1, <1>2
<1>4. list \in Seq(Refs) /\ Len(list) = n
  BY <1>2, <1>3
<1> QED
  BY <1>2, <1>3, <1>4

(* What is found has the ID.                                               *)
LEMMA FoundHasID ==
  ASSUME NEW s, NEW id, FindVM(<<s>>, id) # 0
  PROVE  FindVM(<<s>>, id) = 1 /\ s.id = id
<1> DEFINE I == {k \in 1..Len(<<s>>) : <<s>>[k].id = id}
<1>1. FindVM(<<s>>, id) = IF I # {} THEN Min(I) ELSE 0
  BY DEF FindVM, SelectInSeq
<1>2. I \subseteq {1}
  OBVIOUS
<1>3. I = {1} /\ s.id = id
  BY <1>1, <1>2
<1>4. Min({1}) = 1
  BY DEF Min
<1> QED
  BY <1>1, <1>3, <1>4

LEMMA NothingFound == \A id : FindVM(<<>>, id) = 0
BY DEF FindVM, SelectInSeq

(* A status that is not of the ID is not found by it.                      *)
LEMMA NamelessFound ==
  ASSUME NEW s, s.id = Unset
  PROVE  FindVM(<<s>>, Unset) # 0
<1> DEFINE I == {k \in 1..Len(<<s>>) : <<s>>[k].id = Unset}
<1>1. FindVM(<<s>>, Unset) = IF I # {} THEN Min(I) ELSE 0
  BY DEF FindVM, SelectInSeq
<1>2. I = {1}
  OBVIOUS
<1>3. Min({1}) = 1
  BY DEF Min
<1> QED
  BY <1>1, <1>2, <1>3

(***************************************************************************)
(* What is kept and found when an execution begins.                        *)
(***************************************************************************)
(* A status that claims to be done is of a VM in `got`; and its ID, once   *)
(* it has one, is its VM's.                                                *)
Honest(s, got) ==
  /\ s.id \in {s.vm, Unset}
  /\ s.phase = "Completed" /\ ~s.error => s.vm \in got

LEMMA KeptCases ==
  ASSUME NEW statuses \in Seq(StatusType)
  PROVE  \/ Kept(statuses) = <<>>
         \/ \E k \in DOMAIN statuses : Kept(statuses) = <<statuses[k]>>
<1>1. statuses # <<>> => Len(statuses) \in DOMAIN statuses /\ Last(statuses) = statuses[Len(statuses)]
  BY DEF Last
<1> QED
  BY <1>1 DEF Kept

LEMMA CurrentCases ==
  ASSUME NEW kept, NEW ref, NEW s, kept = <<>> \/ kept = <<s>>
  PROVE  \/ Current(kept, ref) = NewStatus(ref)
         \/ kept = <<s>> /\ Current(kept, ref) = s /\ s.id = ref.id
<1>1. CASE kept = <<>>
  BY <1>1, NothingFound DEF Current
<1>2. CASE kept = <<s>> /\ FindVM(<<s>>, ref.id) # 0
  BY <1>2, FoundHasID DEF Current
<1>3. CASE kept = <<s>> /\ FindVM(<<s>>, ref.id) = 0
  BY <1>3 DEF Current
<1> QED
  BY <1>1, <1>2, <1>3

LEMMA RenewedNew ==
  ASSUME NEW ref \in Refs
  PROVE  LET s == Renewed(NewStatus(ref)) IN
         s \in StatusType /\ s.vm = ref.vm /\ s.id = ref.id /\ s.phase = "Started"
BY RefType DEF Renewed, NewStatus, StatusType

LEMMA RenewedKept ==
  ASSUME NEW s \in StatusType
  PROVE  LET t == Renewed(s) IN
         /\ t \in StatusType /\ t.vm = s.vm /\ t.id = s.id
         /\ t = s \/ t.phase = "Started"
BY DEF Renewed, StatusType

LEMMA AddedOwn ==
  ASSUME NEW statuses \in Seq(StatusType), NEW got, NEW ref \in Refs,
         Unset \notin PlanVMs,
         \A k \in DOMAIN statuses : Honest(statuses[k], got)
  PROVE  LET t == Renewed(Current(Kept(statuses), ref)) IN
         /\ t \in StatusType /\ Honest(t, got)
         /\ ref.id # Unset \/ FindVM(Kept(statuses), Unset) = 0 => t.vm = ref.vm
<1> DEFINE kept == Kept(statuses)
           t == Renewed(Current(kept, ref))
<1>1. CASE Current(kept, ref) = NewStatus(ref)
  <2>1. t \in StatusType /\ t.vm = ref.vm /\ t.id = ref.id /\ t.phase = "Started"
    BY <1>1, RenewedNew
  <2> QED
    BY <2>1, RefType DEF Honest
<1>2. ASSUME NEW k \in DOMAIN statuses, kept = <<statuses[k]>>,
             Current(kept, ref) = statuses[k], statuses[k].id = ref.id
      PROVE  /\ t \in StatusType /\ Honest(t, got)
             /\ ref.id # Unset \/ FindVM(kept, Unset) = 0 => t.vm = ref.vm
  <2> DEFINE s == statuses[k]
  <2>1. s \in StatusType /\ Honest(s, got)
    OBVIOUS
  <2>2. t \in StatusType /\ t.vm = s.vm /\ t.id = s.id /\ (t = s \/ t.phase = "Started")
    BY <1>2, <2>1, RenewedKept
  <2>3. Honest(t, got)
    BY <2>1, <2>2 DEF Honest
  <2>4. FindVM(kept, Unset) = 0 => s.id # Unset
    BY <1>2, NamelessFound
  <2>5. s.id # Unset => s.vm = ref.vm
    BY <1>2, <2>1, RefType DEF Honest
  <2> QED
    BY <1>2, <2>2, <2>3, <2>4, <2>5
<1> HIDE DEF kept, t
<1>3. CASE kept = <<>>
  BY <1>1, <1>3, CurrentCases DEF kept, t
<1>4. ASSUME NEW k \in DOMAIN statuses, kept = <<statuses[k]>>
      PROVE  \/ Current(kept, ref) = NewStatus(ref)
             \/ Current(kept, ref) = statuses[k] /\ statuses[k].id = ref.id
  BY <1>4, CurrentCases
<1> QED
  BY <1>1, <1>2, <1>3, <1>4, KeptCases DEF kept, t

(***************************************************************************)
(* The invariant.                                                          *)
(***************************************************************************)
OwnInv ==
  /\ \A k \in DOMAIN vms : Honest(vms[k], migrated)
  /\ FoundIsOwn
  /\ condition = "Succeeded" =>
       \A k \in DOMAIN vms : vms[k].phase = "Completed" /\ ~vms[k].error

LEMMA LeastPosition ==
  ASSUME NEW T \in SUBSET Nat, T # {}
  PROVE  \E x \in T : \A y \in T : x <= y
<1> DEFINE R == {ss \in Nat \X Nat : ss[1] < ss[2]}
<1>1. IsWellFoundedOn(R, Nat)
  BY NatLessThanWellFounded DEF OpToRel
<1>2. PICK x \in T : \A y \in T : ~(<<y, x>> \in R)
  BY <1>1, WFMin
<1>3. \A y \in T : ~(y < x)
  BY <1>2
<1> QED
  BY <1>3

(* If end stops nowhere and all have finished, none has failed.            *)
LEMMA NoneFailed ==
  ASSUME vms \in Seq(StatusType), FailedAt = {}, \A k \in DOMAIN vms : Finished(k)
  PROVE  \A k \in DOMAIN vms : vms[k].phase = "Completed" /\ ~vms[k].error
<1> DEFINE bad == {k \in DOMAIN vms : vms[k].error}
<1>1. DOMAIN vms = 1..Len(vms) /\ Len(vms) \in Nat
  OBVIOUS
<1>2. SUFFICES ASSUME bad # {} PROVE FALSE
  BY DEF Finished
<1>3. bad \in SUBSET Nat
  BY <1>1
<1>4. PICK k \in bad : \A j \in bad : k <= j
  <2> HIDE DEF bad
  <2> QED
    BY <1>2, <1>3, LeastPosition
<1>5. \A j \in 1..(k - 1) : j \in DOMAIN vms /\ j \notin bad
  BY <1>1, <1>4
<1>6. k \in FailedAt
  BY <1>4, <1>5 DEF FailedAt
<1> QED
  BY <1>6

LEMMA InitOwn ==
  ASSUME ReferencesInit
  PROVE  ReferencesTypeOK /\ OwnInv
<1>1. vms = <<>> /\ asked = <<>> /\ <<>> \in Seq(StatusType) /\ DOMAIN <<>> = {} /\ Len(<<>>) = 0
  BY DEF ReferencesInit
<1>2. edits \in 0..MaxEdits /\ executions \in 0..MaxExecutions
  BY ReferencesAssumption DEF ReferencesInit
<1>3. ReferencesTypeOK
  BY <1>1, <1>2 DEF ReferencesInit, ReferencesTypeOK
<1>4. OwnInv
  BY <1>1 DEF ReferencesInit, OwnInv, FoundIsOwn
<1> QED
  BY <1>3, <1>4

LEMMA BeginOwn ==
  ASSUME ReferencesTypeOK, OwnInv, Begin
  PROVE  ReferencesTypeOK' /\ OwnInv'
<1> DEFINE kept == Kept(vms)
<1>1. /\ listed \in Seq(Refs) /\ Len(listed) \in Nat /\ DOMAIN listed = 1..Len(listed)
      /\ \A k \in DOMAIN listed : listed[k] \in Refs
  BY ListType DEF ReferencesTypeOK
<1>2. vms' = [k \in DOMAIN listed |-> Renewed(Current(kept, listed[k]))]
  BY DEF Begin, Added
<1>3. /\ asked' = listed /\ anonymous' = (FindVM(kept, Unset) # 0) /\ condition' = "Executing"
      /\ UNCHANGED <<listed, migrated, edits>> /\ executions' = executions - 1 /\ executions > 0
  BY DEF Begin
<1>4. \A k \in DOMAIN listed :
        /\ vms'[k] \in StatusType /\ Honest(vms'[k], migrated)
        /\ listed[k].id # Unset \/ FindVM(kept, Unset) = 0 => vms'[k].vm = listed[k].vm
  BY <1>1, <1>2, ReferencesAssumption, AddedOwn DEF OwnInv, ReferencesTypeOK, Unset
<1>5. DOMAIN vms' = DOMAIN listed
  BY <1>2
<1> HIDE DEF kept
<1>6. vms' \in Seq(StatusType) /\ Len(vms') = Len(listed)
  <2>1. vms' \in [1..Len(listed) -> StatusType]
    BY <1>1, <1>2, <1>4
  <2> QED
    BY <1>1, <2>1
<1>7. ReferencesTypeOK'
  <2>1. executions' \in 0..MaxExecutions
    BY <1>3, ReferencesAssumption DEF ReferencesTypeOK
  <2> QED
    BY <1>3, <1>6, <2>1 DEF ReferencesTypeOK
<1>8. OwnInv'
  BY <1>3, <1>4, <1>5 DEF OwnInv, FoundIsOwn
<1> QED
  BY <1>7, <1>8

(* A step of one status that keeps its VM.                                 *)
LEMMA StepOwn ==
  ASSUME ReferencesTypeOK, OwnInv, NEW k \in DOMAIN vms, NEW s \in StatusType,
         Step(k, s), s.vm = vms[k].vm, Honest(s, migrated'),
         migrated \subseteq migrated', migrated' \subseteq PlanVMs
  PROVE  ReferencesTypeOK' /\ OwnInv'
<1>1. /\ vms' = [vms EXCEPT ![k] = s] /\ condition = "Executing"
      /\ UNCHANGED <<listed, condition, asked, anonymous, edits, executions>>
  BY DEF Step
<1>2. vms' \in Seq(StatusType) /\ Len(vms') = Len(vms) /\ DOMAIN vms' = DOMAIN vms
  BY <1>1 DEF ReferencesTypeOK
<1>3. \A j \in DOMAIN vms : vms'[j] = IF j = k THEN s ELSE vms[j]
  BY <1>1, <1>2 DEF ReferencesTypeOK
<1>4. ReferencesTypeOK'
  BY <1>1, <1>2 DEF ReferencesTypeOK
<1>5. \A j \in DOMAIN vms : Honest(vms'[j], migrated')
  BY <1>3 DEF OwnInv, Honest
<1>6. \A j \in DOMAIN vms : vms'[j].vm = vms[j].vm
  BY <1>3
<1>7. DOMAIN asked = DOMAIN vms
  <2>1. CASE asked \in Lists
    BY <2>1, ListType DEF ReferencesTypeOK
  <2>2. CASE asked = <<>>
    BY <2>2 DEF ReferencesTypeOK
  <2> QED
    BY <2>1, <2>2 DEF ReferencesTypeOK
<1>8. OwnInv'
  BY <1>1, <1>2, <1>5, <1>6, <1>7 DEF OwnInv, FoundIsOwn
<1> QED
  BY <1>4, <1>8

LEMMA GivenUpOwn ==
  ASSUME ReferencesTypeOK, OwnInv, NEW k \in DOMAIN vms,
         GivenUp(k) \/ ImportCreated(k) \/ ImportEnds(k)
  PROVE  ReferencesTypeOK' /\ OwnInv'
<1> DEFINE s == vms[k]
           named == WithID(s)
<1>1. s \in StatusType /\ Honest(s, migrated) /\ migrated \subseteq PlanVMs
  BY DEF ReferencesTypeOK, OwnInv
<1>2. /\ named \in StatusType /\ named.vm = s.vm /\ named.id = s.vm
      /\ named.phase = s.phase /\ named.error = s.error
  BY <1>1 DEF WithID, StatusType
<1> HIDE DEF named
<1>3. ASSUME NEW t \in StatusType, t.id \in {t.vm, Unset}
      PROVE  /\ InError(t) \in StatusType /\ InError(t).vm = t.vm /\ Honest(InError(t), migrated)
             /\ LET c == [t EXCEPT !.phase = "ImportCreated"] IN
                c \in StatusType /\ c.vm = t.vm /\ Honest(c, migrated)
             /\ LET c == [t EXCEPT !.phase = "Completed"] IN
                c \in StatusType /\ c.vm = t.vm /\ Honest(c, migrated \cup {t.vm})
  BY <1>3 DEF InError, Honest, StatusType
<1>4. s.id \in {s.vm, Unset} /\ named.id \in {named.vm, Unset}
  BY <1>1, <1>2 DEF Honest
<1>5. CASE GivenUp(k)
  <2>1. UNCHANGED migrated /\ (Step(k, InError(s)) \/ Step(k, InError(named)))
    BY <1>5 DEF GivenUp, named
  <2> HIDE DEF s
  <2> QED
    BY <1>1, <1>2, <1>3, <1>4, <2>1, StepOwn DEF s
<1>6. CASE ImportCreated(k)
  <2>1. UNCHANGED migrated /\ Step(k, [named EXCEPT !.phase = "ImportCreated"])
    BY <1>6 DEF ImportCreated, named
  <2> HIDE DEF s
  <2> QED
    BY <1>1, <1>2, <1>3, <1>4, <2>1, StepOwn DEF s
<1>7. CASE ImportEnds(k)
  <2>1. \/ Step(k, InError(s)) /\ UNCHANGED migrated
        \/ Step(k, [s EXCEPT !.phase = "Completed"]) /\ migrated' = migrated \cup {s.vm}
    BY <1>7 DEF ImportEnds
  <2>2. s.vm \in PlanVMs
    BY <1>1 DEF StatusType
  <2>3. CASE Step(k, InError(s)) /\ UNCHANGED migrated
    <3> HIDE DEF s
    <3> QED
      BY <1>1, <1>3, <1>4, <2>3, StepOwn DEF s
  <2>4. CASE Step(k, [s EXCEPT !.phase = "Completed"]) /\ migrated' = migrated \cup {s.vm}
    <3> DEFINE t == [s EXCEPT !.phase = "Completed"]
    <3>1. t \in StatusType /\ t.vm = s.vm /\ Honest(t, migrated \cup {s.vm})
      BY <1>1, <1>3, <1>4
    <3>2. migrated \subseteq migrated' /\ migrated' \subseteq PlanVMs
      BY <1>1, <2>2, <2>4
    <3>3. Step(k, t) /\ Honest(t, migrated')
      BY <2>4, <3>1
    <3> HIDE DEF t
    <3> QED
      BY <3>1, <3>2, <3>3, StepOwn
  <2> QED
    BY <2>1, <2>3, <2>4
<1> QED
  BY <1>5, <1>6, <1>7

LEMMA EndOwn ==
  ASSUME ReferencesTypeOK, OwnInv, End
  PROVE  ReferencesTypeOK' /\ OwnInv'
<1>1. UNCHANGED <<listed, vms, asked, anonymous, migrated, edits, executions>>
      /\ condition' \in {"Failed", "Succeeded"}
  BY DEF End
<1>2. ReferencesTypeOK'
  BY <1>1 DEF ReferencesTypeOK
<1>3. condition' = "Succeeded" => FailedAt = {} /\ \A k \in DOMAIN vms : Finished(k)
  BY DEF End
<1>4. condition' = "Succeeded" => \A k \in DOMAIN vms : vms[k].phase = "Completed" /\ ~vms[k].error
  BY <1>3, NoneFailed DEF ReferencesTypeOK
<1> QED
  BY <1>1, <1>2, <1>4 DEF OwnInv, FoundIsOwn

LEMMA StepKeepsOwn ==
  ReferencesTypeOK /\ OwnInv /\ [ReferencesNext]_referenceVars => ReferencesTypeOK' /\ OwnInv'
<1> SUFFICES ASSUME ReferencesTypeOK, OwnInv, [ReferencesNext]_referenceVars
             PROVE  ReferencesTypeOK' /\ OwnInv'
  OBVIOUS
<1>1. CASE UNCHANGED referenceVars
  BY <1>1 DEF referenceVars, ReferencesTypeOK, OwnInv, FoundIsOwn
<1>2. ASSUME NEW list \in Lists, Edit(list) PROVE ReferencesTypeOK' /\ OwnInv'
  <2>1. edits' \in 0..MaxEdits
    BY <1>2, ReferencesAssumption DEF Edit, ReferencesTypeOK
  <2> QED
    BY <1>2, <2>1 DEF Edit, ReferencesTypeOK, OwnInv, FoundIsOwn
<1> QED
  BY <1>1, <1>2, BeginOwn, EndOwn, GivenUpOwn DEF ReferencesNext

LEMMA OwnInvariant ==
  ReferencesSpec => [](ReferencesTypeOK /\ OwnInv)
BY InitOwn, StepKeepsOwn, PTL DEF ReferencesSpec

(***************************************************************************)
(* Theorems.                                                               *)
(***************************************************************************)
(* Every reachable state of a plan that lists VMs by ID or by name is well *)
(* typed, however the list is edited between its executions.               *)
THEOREM ReferencesTypeCorrect == ReferencesSpec => []ReferencesTypeOK
BY OwnInvariant, PTL

(* In each execution a VM listed by its ID has its own status; so has one  *)
(* listed by name, unless a status is kept that never got its ID - however *)
(* the list is edited and VMs fail before or after their import is built   *)
(* (begin, FindVM).                                                        *)
THEOREM FoundIsAlwaysOwn == ReferencesSpec => []FoundIsOwn
<1>1. OwnInv => FoundIsOwn
  BY DEF OwnInv
<1> QED
  BY <1>1, OwnInvariant, PTL

(* A plan that succeeded has migrated each VM that was given its own       *)
(* status, in this execution or in an earlier one (begin, end).            *)
THEOREM SucceededAlwaysMeansMigrated == ReferencesSpec => []SucceededMeansMigrated
<1>1. ReferencesTypeOK /\ OwnInv => SucceededMeansMigrated
  <2> SUFFICES ASSUME ReferencesTypeOK, OwnInv, condition = "Succeeded", NEW k \in DOMAIN asked,
                      asked[k].id # Unset \/ ~anonymous
               PROVE  asked[k].vm \in migrated
    BY DEF SucceededMeansMigrated
  <2>1. k \in DOMAIN vms
    <3>1. CASE asked \in Lists
      BY <3>1, ListType DEF ReferencesTypeOK
    <3>2. CASE asked = <<>>
      BY <3>2
    <3> QED
      BY <3>1, <3>2 DEF ReferencesTypeOK
  <2>2. vms[k].vm = asked[k].vm
    BY DEF OwnInv, FoundIsOwn
  <2> QED
    BY <2>1, <2>2 DEF OwnInv, Honest
<1> QED
  BY <1>1, OwnInvariant, PTL
=============================================================================
