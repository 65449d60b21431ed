-------------------------- MODULE PlanProgressProofs --------------------------
(***************************************************************************)
(* What a plan has at work on the destination: InFlightBound and           *)
(* ImportBacksPhase.  The counter of a pass says nothing of the VMs the    *)
(* loop has not reached; the bound holds because the VMs that hold a place *)
(* come before those that wait for one, so that a pass meets all of them   *)
(* before it starts another.  For the same reason a pass that stops at the *)
(* limit has looked at every import, which is what ImportBacksPhase needs. *)
(***************************************************************************)
EXTENDS PlanControllerProofs, FiniteSetTheorems

(***************************************************************************)
(* One VM.                                                                 *)
(***************************************************************************)
Busy(s) == ~s.completed /\ s.phase # "Completed"

Early == {"Started", "CreatePreHook", "PreHookCreated", "CreateImport", "ImportCreated"}

(* A VM under way is marked as started, and until its import has ended it  *)
(* is not marked as completed.                                             *)
Sound(s) ==
  /\ "ImageConversion" \in s.pipeline
  /\ Busy(s) /\ s.phase # "Started" => s.started
  /\ s.phase \in Early => ~s.completed /\ "ImageConversion" \notin s.done

LEMMA NextPhaseForward ==
  \A phase \in Phases : \A hook :
     /\ NextPhase(phase, hook) # "Started"
     /\ phase \notin Early => NextPhase(phase, hook) \notin Early
     /\ phase = "ImportCreated" => NextPhase(phase, hook) \notin Early
     /\ NextPhase(phase, hook) = "ImportCreated" => phase = "CreateImport"
BY DEF NextPhase, Phases, Early

LEMMA NewStatusSound ==
  ASSUME NEW sv \in [vm : VMs, hook : Hooks]
  PROVE  Sound(NewStatus(sv)) /\ NewStatus(sv).phase = "Started" /\ NewStatus(sv).vm = sv.vm
         /\ ~NewStatus(sv).started
BY DEF NewStatus, Sound, Busy, Early, BuildPipeline, ImportSteps, FirstPhase

LEMMA RestartSound ==
  ASSUME NEW s \in VMStatus, NEW sv \in [vm : VMs, hook : Hooks], Sound(s)
  PROVE  /\ Sound(Restart(s, sv)) /\ Restart(s, sv).vm = s.vm
         /\ \/ Restart(s, sv).phase = "Started" /\ ~Restart(s, sv).started
            \/ Restart(s, sv).phase = "Completed"
BY DEF Restart, MarkReset, Sound, Busy, Early, BuildPipeline, ImportSteps, FirstPhase,
   VMStatus

LEMMA SettleSound ==
  ASSUME NEW s \in VMStatus, Sound(s)
  PROVE  /\ Sound(Settle(s)) /\ Settle(s).vm = s.vm
         /\ Settle(s).phase \in {s.phase, "Completed"}
         /\ s.error => Settle(s).phase = "Completed"
BY DEF Settle, Sound, Busy, Early, VMStatus

LEMMA AdvanceSound ==
  ASSUME NEW s \in VMStatus, Sound(s), ~s.completed
  PROVE  /\ s.phase \notin {"Started", "ImportCreated"} =>
              Sound([s EXCEPT !.phase = NextPhase(@, s.hook)])
         /\ s.phase = "Started" =>
              Sound([MarkStarted(s) EXCEPT !.phase = NextPhase(@, s.hook)])
         /\ s.phase = "Completed" => Sound(MarkCompleted(s))
         /\ Sound([s EXCEPT !.error = TRUE])
<1>1. s.phase \in Phases
  BY DEF VMStatus
<1>2. ASSUME s.phase \notin {"Started", "ImportCreated"}
      PROVE  Sound([s EXCEPT !.phase = NextPhase(@, s.hook)])
  <2>1. s.phase \in Early \/ NextPhase(s.phase, s.hook) \notin Early
    BY <1>1, NextPhaseForward
  <2> QED
    BY <1>2, <2>1 DEF Sound, Busy, Early, VMStatus, NextPhase
<1>3. ASSUME s.phase = "Started"
      PROVE  Sound([MarkStarted(s) EXCEPT !.phase = NextPhase(@, s.hook)])
  BY <1>3 DEF Sound, Busy, Early, VMStatus, MarkStarted
<1>4. ASSUME s.phase = "Completed" PROVE Sound(MarkCompleted(s))
  BY <1>4 DEF Sound, Busy, Early, VMStatus, MarkCompleted, MarkStarted
<1>5. Sound([s EXCEPT !.error = TRUE])
  BY DEF Sound, Busy, VMStatus
<1> QED
  BY <1>2, <1>3, <1>4, <1>5

LEMMA UpdateVMSound ==
  ASSUME NEW s \in VMStatus, NEW imp \in Import, Sound(s), ~s.completed,
         s.phase = "ImportCreated"
  PROVE  /\ Sound(Settle(UpdateVM(s, imp))) /\ UpdateVM(s, imp).vm = s.vm
         /\ Settle(UpdateVM(s, imp)).phase # "Started"
         /\ imp = NoImport => Settle(UpdateVM(s, imp)).phase = "Completed"
<1> DEFINE u == UpdatePipeline(s, imp)
           t == ReflectPipeline(u)
           r == UpdateVM(s, imp)
<1>1. /\ u \in VMStatus /\ u.vm = s.vm /\ u.phase = s.phase /\ u.hook = s.hook
      /\ u.pipeline = s.pipeline /\ u.completed = s.completed /\ u.started = s.started
      /\ imp.state \notin {"succeeded", "failed"} => "ImageConversion" \notin u.done
  BY DEF UpdatePipeline, VMStatus, Steps, ImportSteps, Finished, Sound, Early
<1> HIDE DEF u
<1>2. /\ t \in VMStatus /\ t.vm = s.vm /\ t.phase = s.phase /\ t.hook = s.hook
      /\ t.pipeline = s.pipeline /\ t.done = u.done /\ t.started
      /\ t.completed => u.done = u.pipeline
  BY <1>1 DEF ReflectPipeline, MarkCompleted, MarkStarted, VMStatus, Sound, Busy
<1> HIDE DEF t
<1>3. "ImageConversion" \in s.pipeline
  BY DEF Sound
<1>4. CASE imp.state = "absent"
  <2>1. r = [s EXCEPT !.error = TRUE]
    BY <1>4 DEF UpdateVM
  <2> HIDE DEF r
  <2>2. r.error /\ r.vm = s.vm
    BY <2>1 DEF VMStatus
  <2>3. r \in VMStatus
    BY <2>1, AdvanceType
  <2>4. Sound(r)
    BY <2>1, AdvanceSound
  <2> QED
    BY <2>2, <2>3, <2>4, SettleSound DEF r
<1>5. CASE imp.state = "succeeded"
  <2>1. r = [t EXCEPT !.phase = NextPhase(@, s.hook)]
    BY <1>5 DEF UpdateVM, t, u
  <2>2. /\ NextPhase(s.phase, s.hook) \in Phases \ Early
        /\ NextPhase(s.phase, s.hook) # "Started"
    BY DEF NextPhase, Phases, Early
  <2>3. r \in VMStatus /\ r.phase \notin Early /\ r.phase # "Started" /\ r.vm = s.vm /\ Sound(r)
    BY <1>2, <1>3, <2>1, <2>2 DEF VMStatus, Sound, Busy
  <2>4. imp # NoImport
    BY <1>5 DEF NoImport
  <2> HIDE DEF r
  <2> QED
    BY <2>3, <2>4, SettleSound DEF r
<1>6. CASE imp.state = "failed"
  <2>1. r = [t EXCEPT !.error = TRUE, !.phase = "Completed"]
    BY <1>6 DEF UpdateVM, t, u
  <2>2. r \in VMStatus /\ r.error /\ r.vm = s.vm /\ Sound(r)
    BY <1>2, <1>3, <2>1 DEF VMStatus, Sound, Busy, Early, Phases
  <2> HIDE DEF r
  <2> QED
    BY <2>2, SettleSound DEF r
<1>7. CASE imp.state = "running"
  <2>1. r = t
    BY <1>7 DEF UpdateVM, t, u
  <2>2. r \in VMStatus /\ r.phase = "ImportCreated" /\ r.vm = s.vm /\ Sound(r)
    BY <1>1, <1>2, <1>3, <1>7, <2>1 DEF Sound, Busy
  <2>3. imp # NoImport
    BY <1>7 DEF NoImport
  <2> HIDE DEF r
  <2> QED
    BY <2>2, <2>3, SettleSound DEF r
<1> QED
  BY <1>4, <1>5, <1>6, <1>7 DEF Import
(***************************************************************************)
(* The VMs that hold a place, before the loop's index and from it on.      *)
(***************************************************************************)
Behind(vms, k) == {j \in Working(vms) : j < k}
Ahead(vms, k) == {j \in Working(vms) : j >= k}

LEMMA WorkingFinite ==
  ASSUME NEW vms \in Seq(VMStatus), NEW k \in Nat
  PROVE  /\ IsFiniteSet(Working(vms)) /\ Cardinality(Working(vms)) \in Nat
         /\ IsFiniteSet(Behind(vms, k)) /\ Cardinality(Behind(vms, k)) \in Nat
         /\ IsFiniteSet(Ahead(vms, k)) /\ Cardinality(Ahead(vms, k)) \in Nat
         /\ Working(vms) = Behind(vms, k) \cup Ahead(vms, k)
<1>1. Len(vms) \in Nat /\ DOMAIN vms = 1..Len(vms)
  OBVIOUS
<1>2. IsFiniteSet(1..Len(vms))
  BY <1>1, FS_Interval
<1>3. Working(vms) \subseteq 1..Len(vms)
  BY <1>1 DEF Working
<1>4. Behind(vms, k) \subseteq 1..Len(vms) /\ Ahead(vms, k) \subseteq 1..Len(vms)
  BY <1>3 DEF Behind, Ahead
<1>5. IsFiniteSet(Working(vms)) /\ IsFiniteSet(Behind(vms, k)) /\ IsFiniteSet(Ahead(vms, k))
  BY <1>2, <1>3, <1>4, FS_Subset
<1>6. Working(vms) = Behind(vms, k) \cup Ahead(vms, k)
  <2>1. Working(vms) \subseteq Nat
    BY <1>1, <1>3
  <2>2. \A j \in Working(vms) : j < k \/ j >= k
    BY <2>1
  <2> QED
    BY <2>2 DEF Behind, Ahead
<1> QED
  BY <1>5, <1>6, FS_CardinalityType

(* The loop replaces the status at its index.                              *)
LEMMA ReplacedWorking ==
  ASSUME NEW vms \in Seq(VMStatus), NEW k \in DOMAIN vms, NEW u \in VMStatus,
         NEW after, after = [vms EXCEPT ![k] = u]
  PROVE  /\ after \in Seq(VMStatus) /\ DOMAIN after = DOMAIN vms /\ k \in Nat
         /\ Behind(after, k + 1) \subseteq Behind(vms, k) \cup {k}
         /\ ~Busy(u) => Behind(after, k + 1) \subseteq Behind(vms, k)
         /\ Ahead(after, k + 1) = Ahead(vms, k) \ {k}
<1>1. after \in Seq(VMStatus) /\ DOMAIN after = DOMAIN vms /\ DOMAIN vms \subseteq Nat
  OBVIOUS
<1>2. \A j \in DOMAIN vms : j # k => (j \in Working(after) <=> j \in Working(vms))
  BY <1>1 DEF Working
<1>3. k \in Working(after) => Busy(u)
  BY DEF Working, Busy
<1>4. Working(after) \subseteq DOMAIN vms /\ Working(vms) \subseteq DOMAIN vms
  BY <1>1 DEF Working
<1>5. \A j \in Nat : (j < k + 1 <=> j < k \/ j = k) /\ (j >= k + 1 <=> j >= k /\ j # k)
  BY <1>1
<1>6. k \notin Ahead(after, k + 1)
  BY <1>1, <1>5 DEF Ahead
<1> QED
  BY <1>1, <1>2, <1>3, <1>4, <1>5, <1>6 DEF Behind, Ahead

(* Those that hold a place come before those that wait for one.            *)
InOrder(vms) ==
  \A j, k \in DOMAIN vms :
     j < k /\ k \in Working(vms) /\ Busy(vms[j]) => j \in Working(vms)

Orderly(vms) ==
  /\ \A k \in DOMAIN vms : Sound(vms[k])
  /\ InOrder(vms)
  /\ Cardinality(Working(vms)) <= MaxInFlight + 1

(* What the counter of the pass counts: at most the limit and one, no less *)
(* than those the loop has passed, and never so much that those it has not *)
(* reached yet would be one too many.                                      *)
LoopInv ==
  InLoop =>
    /\ inFlight <= MaxInFlight + 1
    /\ \A k \in 1..(i - 1) : Busy(w.vms[k]) => k \in Working(w.vms)
    /\ Cardinality(Behind(w.vms, i)) <= inFlight
    /\ \/ Ahead(w.vms, i) = {}
       \/ inFlight + Cardinality(Ahead(w.vms, i)) <= MaxInFlight + 1

ProgressInv == Orderly(plan.vms) /\ Orderly(w.vms) /\ LoopInv

(* A list none of whose VMs is under way is orderly.                       *)
LEMMA NothingAtWork ==
  ASSUME NEW vms \in Seq(VMStatus), \A k \in DOMAIN vms : Sound(vms[k]),
         Working(vms) = {}
  PROVE  Orderly(vms)
<1>1. Cardinality(Working(vms)) = 0
  BY FS_EmptySet
<1> QED
  BY <1>1, LimitsAssumption DEF Orderly, InOrder

LEMMA BeginOrderly ==
  ASSUME NEW p \in PlanStatus, NEW s \in Specs, Orderly(p.vms)
  PROVE  Orderly(Begin(p, s).vms)
<1>1. CASE p.conds # {}
  BY <1>1 DEF Begin
<1>2. CASE p.conds = {}
  <2> DEFINE list == Begin(p, s).vms
  <2>1. p.vms \in Seq(VMStatus) /\ MarkStarted(p) \in PlanStatus
    BY TimedType DEF PlanStatus
  <2>2. list = [k \in DOMAIN s |-> AddOrUpdate(Kept(p.vms, s), s[k])]
    BY <1>2, <2>1 DEF Begin, PlanStatus
  <2>3. \A k \in DOMAIN s :
           LET t == AddOrUpdate(Kept(p.vms, s), s[k])
           IN  Sound(t) /\ ((t.phase = "Started" /\ ~t.started) \/ t.phase = "Completed")
    <3> TAKE k \in DOMAIN s
    <3>1. s[k] \in [vm : VMs, hook : Hooks]
      BY SpecType
    <3>2. \A j \in DOMAIN p.vms : p.vms[j] \in VMStatus /\ Sound(p.vms[j])
      BY <2>1 DEF Orderly
    <3> QED
      BY <2>1, <3>1, <3>2, AddOrUpdateCases, NewStatusSound, RestartSound
  <2>4. list \in Seq(VMStatus)
    BY BeginType DEF PlanStatus
  <2>5. Working(list) = {} /\ \A k \in DOMAIN list : Sound(list[k])
    BY <2>2, <2>3 DEF Working
  <2> HIDE DEF list
  <2> QED
    BY <2>4, <2>5, NothingAtWork DEF list
<1> QED
  BY <1>1, <1>2
(***************************************************************************)
(* One iteration of the loop over the VMs.                                 *)
(***************************************************************************)
(* A VM that held or waited for a place is counted, one that did not is    *)
(* given none.                                                             *)
Counted(u, n) ==
  \/ Busy(w.vms[i]) /\ n = inFlight + 1
  \/ ~Busy(w.vms[i]) /\ ~Busy(u) /\ n = inFlight

LEMMA LeaveVMCounts ==
  ASSUME TypeOK, RunIsActive, ProgressInv, InLoop, ~Full, NEW u \in VMStatus,
         NEW n, Counted(u, n), NEW after, after = [w.vms EXCEPT ![i] = u]
  PROVE  /\ n \in Nat /\ n <= MaxInFlight + 1
         /\ Cardinality(Behind(after, i + 1)) <= n
         /\ \/ Ahead(after, i + 1) = {}
            \/ n + Cardinality(Ahead(after, i + 1)) <= MaxInFlight + 1
<1> DEFINE vms == w.vms
<1>1. /\ vms \in Seq(VMStatus) /\ i \in DOMAIN vms /\ i \in Nat
      /\ inFlight \in Nat /\ MaxInFlight \in Nat /\ DOMAIN vms \subseteq Nat
      /\ after = [vms EXCEPT ![i] = u]
  BY CurrentVM, LimitsAssumption DEF TypeOK, PassTypes
<1>2. inFlight <= MaxInFlight
  BY <1>1 DEF Full
<1>3. n \in Nat /\ n <= MaxInFlight + 1
  BY <1>1, <1>2 DEF Counted
<1>4. /\ Behind(after, i + 1) \subseteq Behind(vms, i) \cup {i}
      /\ ~Busy(u) => Behind(after, i + 1) \subseteq Behind(vms, i)
      /\ Ahead(after, i + 1) = Ahead(vms, i) \ {i}
  <2> HIDE DEF vms
  <2> QED
    BY <1>1, ReplacedWorking
<1>5. /\ Cardinality(Behind(vms, i)) <= inFlight
      /\ \/ Ahead(vms, i) = {}
         \/ inFlight + Cardinality(Ahead(vms, i)) <= MaxInFlight + 1
      /\ InOrder(vms)
  BY DEF ProgressInv, LoopInv, Orderly
<1>6. /\ IsFiniteSet(Behind(vms, i)) /\ Cardinality(Behind(vms, i)) \in Nat
      /\ IsFiniteSet(Ahead(vms, i)) /\ Cardinality(Ahead(vms, i)) \in Nat
  BY <1>1, WorkingFinite
<1>7. i \notin Behind(vms, i)
  BY <1>1 DEF Behind
<1> HIDE DEF vms
<1>8. Cardinality(Behind(after, i + 1)) <= n
  <2>1. /\ IsFiniteSet(Behind(vms, i) \cup {i})
        /\ Cardinality(Behind(vms, i) \cup {i}) = Cardinality(Behind(vms, i)) + 1
    BY <1>6, <1>7, FS_AddElement
  <2>2. Cardinality(Behind(after, i + 1)) <= Cardinality(Behind(vms, i)) + 1
    BY <1>4, <2>1, FS_Subset
  <2>3. ~Busy(u) => Cardinality(Behind(after, i + 1)) <= Cardinality(Behind(vms, i))
    BY <1>4, <1>6, FS_Subset
  <2>4. Cardinality(Behind(after, i + 1)) \in Nat
    BY <1>4, <2>1, FS_Subset, FS_CardinalityType
  <2> QED
    BY <1>1, <1>5, <1>6, <2>2, <2>3, <2>4 DEF Counted
<1>9. \/ Ahead(after, i + 1) = {}
      \/ n + Cardinality(Ahead(after, i + 1)) <= MaxInFlight + 1
  <2>1. CASE Ahead(vms, i) = {}
    BY <1>4, <2>1
  <2>2. CASE i \in Working(vms)
    <3>1. i \in Ahead(vms, i) /\ Busy(vms[i])
      BY <1>1, <2>2 DEF Ahead, Working, Busy
    <3>2. Cardinality(Ahead(after, i + 1)) = Cardinality(Ahead(vms, i)) - 1
      BY <1>4, <1>6, <3>1, FS_RemoveElement
    <3>3. n = inFlight + 1
      BY <3>1 DEF Counted, vms
    <3> QED
      BY <1>1, <1>5, <1>6, <2>1, <3>1, <3>2, <3>3
  <2>3. CASE Ahead(vms, i) # {} /\ i \notin Working(vms)
    <3>1. PICK k \in Ahead(vms, i) : TRUE
      BY <2>3
    <3>2. k \in DOMAIN vms /\ i < k /\ k \in Working(vms)
      BY <1>1, <2>3, <3>1 DEF Ahead, Working
    <3>3. ~Busy(vms[i])
      BY <1>1, <1>5, <2>3, <3>2 DEF InOrder
    <3>4. n = inFlight
      BY <3>3 DEF Counted, vms
    <3>5. Ahead(after, i + 1) = Ahead(vms, i)
      BY <1>4, <2>3 DEF Ahead
    <3> QED
      BY <1>5, <3>4, <3>5
  <2> QED
    BY <2>1, <2>2, <2>3
<1> QED
  BY <1>3, <1>8, <1>9

LEMMA LeaveVMProgress ==
  ASSUME TypeOK, RunIsActive, ProgressInv, InLoop, ~Full, NEW t \in VMStatus, NEW n,
         LeaveVM(t, n), Sound(Settle(t)), Settle(t).phase # "Started", Counted(Settle(t), n)
  PROVE  ProgressInv'
<1> DEFINE u == Settle(t)
           after == [w.vms EXCEPT ![i] = u]
<1>1. /\ w.vms \in Seq(VMStatus) /\ i \in DOMAIN w.vms /\ i \in Nat
      /\ DOMAIN w.vms = 1..Len(w.vms) /\ Len(w.vms) \in Nat /\ MaxInFlight \in Nat
  BY CurrentVM, LimitsAssumption DEF TypeOK, PassTypes
<1>2. u \in VMStatus
  BY SettleType
<1>3. w'.vms = after /\ i' = i + 1 /\ inFlight' = n /\ plan' = plan
  BY DEF LeaveVM, TypeOK, PassTypes, PlanStatus
<1>4. /\ n \in Nat /\ n <= MaxInFlight + 1
      /\ Cardinality(Behind(after, i + 1)) <= n
      /\ \/ Ahead(after, i + 1) = {}
         \/ n + Cardinality(Ahead(after, i + 1)) <= MaxInFlight + 1
  BY <1>2, LeaveVMCounts
<1>5. /\ after \in Seq(VMStatus) /\ DOMAIN after = DOMAIN w.vms
      /\ Ahead(after, i + 1) = Ahead(w.vms, i) \ {i}
  BY <1>1, <1>2, ReplacedWorking
<1>6. /\ after[i] = u
      /\ \A k \in DOMAIN after : k # i => after[k] = w.vms[k]
      /\ \A k \in DOMAIN after : k # i => (k \in Working(after) <=> k \in Working(w.vms))
  BY <1>1, <1>5 DEF Working
<1>7. Busy(u) => i \in Working(after)
  BY <1>1, <1>5, <1>6 DEF Sound, Busy, Working
<1>8. /\ \A k \in DOMAIN w.vms : Sound(w.vms[k])
      /\ InOrder(w.vms)
      /\ \A k \in 1..(i - 1) : Busy(w.vms[k]) => k \in Working(w.vms)
  BY DEF ProgressInv, Orderly, LoopInv
<1> HIDE DEF after, u
<1>9. \A k \in 1..i : Busy(after[k]) => k \in Working(after)
  BY <1>1, <1>5, <1>6, <1>7, <1>8
<1>10. InOrder(after)
  <2> SUFFICES ASSUME NEW j \in DOMAIN after, NEW k \in DOMAIN after, j < k,
                      k \in Working(after), Busy(after[j])
               PROVE  j \in Working(after)
    BY DEF InOrder
  <2>1. CASE j <= i
    BY <1>1, <1>5, <1>9, <2>1
  <2>2. CASE j > i
    <3>1. j # i /\ k # i
      BY <1>1, <1>5, <2>2
    <3> QED
      BY <1>5, <1>6, <1>8, <3>1 DEF InOrder
  <2> QED
    BY <1>1, <1>5, <2>1, <2>2
<1>11. Cardinality(Working(after)) <= MaxInFlight + 1
  <2>1. /\ IsFiniteSet(Behind(after, i + 1)) /\ Cardinality(Behind(after, i + 1)) \in Nat
        /\ IsFiniteSet(Ahead(after, i + 1)) /\ Cardinality(Ahead(after, i + 1)) \in Nat
        /\ Working(after) = Behind(after, i + 1) \cup Ahead(after, i + 1)
    BY <1>1, <1>5, WorkingFinite
  <2>2. CASE Ahead(after, i + 1) = {}
    <3>1. Working(after) = Behind(after, i + 1)
      BY <2>1, <2>2
    <3>2. Cardinality(Working(after)) = Cardinality(Behind(after, i + 1))
      BY <3>1
    <3>3. Cardinality(Behind(after, i + 1)) \in Nat
      BY <2>1
    <3> QED
      BY <1>1, <1>4, <3>2, <3>3
  <2>3. CASE n + Cardinality(Ahead(after, i + 1)) <= MaxInFlight + 1
    <3>1. Behind(after, i + 1) \cap Ahead(after, i + 1) = {}
      BY <1>1, <1>5 DEF Behind, Ahead, Working
    <3>2. Cardinality(Working(after)) =
            Cardinality(Behind(after, i + 1)) + Cardinality(Ahead(after, i + 1))
      <4>1. Cardinality(Behind(after, i + 1) \cup Ahead(after, i + 1)) =
              Cardinality(Behind(after, i + 1)) + Cardinality(Ahead(after, i + 1))
                - Cardinality(Behind(after, i + 1) \cap Ahead(after, i + 1))
        BY <2>1, FS_Union
      <4>2. Cardinality(Behind(after, i + 1) \cap Ahead(after, i + 1)) = 0
        BY <3>1, FS_EmptySet
      <4> QED
        BY <2>1, <4>1, <4>2
    <3> QED
      BY <1>1, <1>4, <2>1, <2>3, <3>2
  <2> QED
    BY <1>4, <2>2, <2>3
<1>12. Orderly(w'.vms)
  <2>1. \A k \in DOMAIN after : Sound(after[k])
    BY <1>5, <1>6, <1>8 DEF u
  <2> QED
    BY <1>3, <1>10, <1>11, <2>1 DEF Orderly
<1>13. LoopInv'
  BY <1>1, <1>3, <1>4, <1>9 DEF LoopInv
<1> QED
  BY <1>3, <1>12, <1>13 DEF ProgressInv
(* The loop leaves a VM with status t: it keeps a place exactly when it    *)
(* has one, and waits for its import only if that is there.                *)
Left(t, n) ==
  /\ InLoop /\ ~Full /\ ~w.vms[i].completed
  /\ LeaveVM(t, n)
  /\ Sound(Settle(t)) /\ Settle(t).phase # "Started" /\ Counted(Settle(t), n)
  /\ Settle(t).vm = w.vms[i].vm
  /\ Settle(t).phase = "ImportCreated" => imports'[w.vms[i].vm][w.active] # NoImport

(* A VM that goes on to the next phase.                                    *)
LEMMA LeftAdvanced ==
  ASSUME TypeOK, RunIsActive, ProgressInv, NEW t \in VMStatus,
         Admitted(Phases \ {"ImportCreated", "Completed"}),
         \/ t = [w.vms[i] EXCEPT !.phase = NextPhase(@, w.vms[i].hook)]
            /\ w.vms[i].phase # "Started"
         \/ t = [MarkStarted(w.vms[i]) EXCEPT !.phase = NextPhase(@, w.vms[i].hook)]
            /\ w.vms[i].phase = "Started",
         LeaveVM(t, inFlight + 1),
         w.vms[i].phase = "CreateImport" => imports'[w.vms[i].vm][w.active] # NoImport
  PROVE  Left(t, inFlight + 1)
<1> DEFINE s == w.vms[i]
<1>1. InLoop /\ ~Full /\ ~s.completed /\ s.phase \notin {"ImportCreated", "Completed"}
  BY DEF Admitted
<1>2. s \in VMStatus /\ Sound(s)
  BY <1>1, CurrentVM DEF ProgressInv, Orderly
<1> HIDE DEF s
<1>3. \/ t = [s EXCEPT !.phase = NextPhase(@, s.hook)] /\ s.phase # "Started"
      \/ t = [MarkStarted(s) EXCEPT !.phase = NextPhase(@, s.hook)] /\ s.phase = "Started"
  BY DEF s
<1>4. Sound(t)
  BY <1>1, <1>2, <1>3, AdvanceSound
<1>5. t.vm = s.vm /\ t.phase = NextPhase(s.phase, s.hook) /\ s.phase \in Phases
  BY <1>2, <1>3 DEF MarkStarted, VMStatus
<1>6. /\ t.phase # "Started"
      /\ t.phase = "ImportCreated" => s.phase = "CreateImport"
  BY <1>5, NextPhaseForward
<1>7. /\ Sound(Settle(t)) /\ Settle(t).vm = s.vm
      /\ Settle(t).phase # "Started"
      /\ Settle(t).phase = "ImportCreated" => s.phase = "CreateImport"
  BY <1>4, <1>5, <1>6, SettleSound
<1>8. Busy(s)
  BY <1>1 DEF Busy
<1> USE DEF s
<1> QED
  BY <1>1, <1>7, <1>8 DEF Left, Counted

(* A VM given up with an error goes to Completed.                          *)
LEMMA LeftInError ==
  ASSUME TypeOK, RunIsActive, ProgressInv, Admitted({"CreateImport"}),
         LeaveVM([w.vms[i] EXCEPT !.error = TRUE], inFlight + 1)
  PROVE  Left([w.vms[i] EXCEPT !.error = TRUE], inFlight + 1)
<1> DEFINE s == w.vms[i]
           t == [s EXCEPT !.error = TRUE]
<1>1. InLoop /\ ~Full /\ ~s.completed /\ s.phase # "Completed"
  BY DEF Admitted
<1>2. s \in VMStatus /\ Sound(s)
  BY <1>1, CurrentVM DEF ProgressInv, Orderly
<1>3. t \in VMStatus /\ Sound(t) /\ t.error /\ t.vm = s.vm
  BY <1>1, <1>2, AdvanceSound, AdvanceType DEF VMStatus
<1>4. Sound(Settle(t)) /\ Settle(t).vm = s.vm /\ Settle(t).phase = "Completed"
  BY <1>3, SettleSound
<1> QED
  BY <1>1, <1>4 DEF Left, Counted, Busy

LEMMA LeftUpdated ==
  ASSUME TypeOK, RunIsActive, ProgressInv, RunImportCreated
  PROVE  \E t \in VMStatus : Left(t, inFlight + 1)
<1> DEFINE s == w.vms[i]
           imp == imports[s.vm][w.active]
           t == UpdateVM(s, imp)
<1>1. /\ InLoop /\ ~Full /\ ~s.completed /\ s.phase = "ImportCreated"
      /\ LeaveVM(t, inFlight + 1) /\ imports' = imports
  BY DEF RunImportCreated, Admitted
<1>2. s \in VMStatus /\ Sound(s) /\ imp \in Import
  BY <1>1, CurrentVM DEF ProgressInv, Orderly
<1> HIDE DEF s, imp
<1>3. /\ Sound(Settle(t)) /\ t.vm = s.vm /\ Settle(t).phase # "Started"
      /\ imp = NoImport => Settle(t).phase = "Completed"
  BY <1>1, <1>2, UpdateVMSound
<1>4. t \in VMStatus
  BY <1>2, UpdateVMType
<1> HIDE DEF t
<1>5. Settle(t).vm = t.vm
  BY <1>4 DEF Settle, VMStatus
<1>6. Busy(s)
  BY <1>1 DEF Busy
<1>7. Settle(t).phase = "ImportCreated" => imports'[s.vm][w.active] # NoImport
  BY <1>1, <1>3 DEF imp
<1> USE DEF s
<1>8. Left(t, inFlight + 1)
  BY <1>1, <1>3, <1>5, <1>6, <1>7 DEF Left, Counted
<1> QED
  BY <1>4, <1>8

LEMMA LeftCompleted ==
  ASSUME TypeOK, RunIsActive, ProgressInv, RunCompleted
  PROVE  \E t \in VMStatus : Left(t, inFlight)
<1> DEFINE s == w.vms[i]
           t == MarkCompleted(s)
<1>1. /\ InLoop /\ ~Full /\ ~s.completed /\ s.phase = "Completed"
      /\ LeaveVM(t, inFlight)
  BY DEF RunCompleted, Admitted
<1>2. s \in VMStatus /\ Sound(s)
  BY <1>1, CurrentVM DEF ProgressInv, Orderly
<1>3. t \in VMStatus /\ Sound(t)
  BY <1>1, <1>2, AdvanceSound, TimedType
<1>4. t.vm = s.vm /\ t.phase = "Completed"
  BY <1>1, <1>2 DEF MarkCompleted, MarkStarted, VMStatus
<1>5. Sound(Settle(t)) /\ Settle(t).vm = s.vm /\ Settle(t).phase = "Completed"
  BY <1>3, <1>4, SettleSound
<1>6. ~Busy(s) /\ ~Busy(Settle(t))
  BY <1>1, <1>5 DEF Busy
<1>7. Left(t, inFlight)
  BY <1>1, <1>5, <1>6 DEF Left, Counted
<1> QED
  BY <1>3, <1>7

LEMMA LoopStep ==
  ASSUME TypeOK, RunIsActive, ProgressInv, RunVM
  PROVE  \/ SkipCompleted \/ BreakAtLimit \/ Abort
         \/ \E t \in VMStatus, n \in Nat : Left(t, n)
<1> DEFINE s == w.vms[i]
           Goal == \E t \in VMStatus, n \in Nat : Left(t, n)
<1>a. inFlight \in Nat /\ inFlight + 1 \in Nat
  BY DEF TypeOK, PassTypes
<1>b. ASSUME InLoop PROVE s \in VMStatus
  BY <1>b, CurrentVM
<1>1. CASE RunProviderNotReady \/ RunListFails
  BY <1>1 DEF RunProviderNotReady, RunListFails
<1>2. CASE RunStarted
  <2> DEFINE t == [MarkStarted(s) EXCEPT !.phase = NextPhase(@, s.hook)]
  <2>1. /\ Admitted({"Started"}) /\ InLoop /\ s.phase = "Started" /\ LeaveVM(t, inFlight + 1)
        /\ Admitted(Phases \ {"ImportCreated", "Completed"})
    BY <1>2 DEF RunStarted, Admitted, Phases
  <2>2. t \in VMStatus
    BY <1>b, <2>1, AdvanceType
  <2>3. Left(t, inFlight + 1)
    BY <2>1, <2>2, LeftAdvanced
  <2> QED
    BY <1>a, <2>2, <2>3
<1>3. CASE RunHook
  <2> DEFINE t == [s EXCEPT !.phase = NextPhase(@, s.hook)]
  <2>1. /\ InLoop /\ LeaveVM(t, inFlight + 1)
        /\ s.phase \notin {"Started", "CreateImport"}
        /\ Admitted(Phases \ {"ImportCreated", "Completed"})
    BY <1>3 DEF RunHook, Admitted, Phases
  <2>2. t \in VMStatus
    BY <1>b, <2>1, AdvanceType
  <2>3. Left(t, inFlight + 1)
    BY <2>1, <2>2, LeftAdvanced
  <2> QED
    BY <1>a, <2>2, <2>3
<1>4. CASE RunCreateImport
  <2> DEFINE t == [s EXCEPT !.phase = NextPhase(@, s.hook)]
  <2>1. /\ InLoop /\ s.phase = "CreateImport" /\ LeaveVM(t, inFlight + 1)
        /\ Admitted(Phases \ {"ImportCreated", "Completed"})
        /\ SetImport(s.vm, w.active, NewImport)
    BY <1>4 DEF RunCreateImport, Admitted, Phases
  <2>2. t \in VMStatus
    BY <1>b, <2>1, AdvanceType
  <2>3. imports'[s.vm][w.active] # NoImport
    <3>1. imports'[s.vm][w.active] = NewImport
      BY <2>1, CurrentVM DEF SetImport, TypeOK, ObjectTypes
    <3> QED
      BY <3>1 DEF NewImport, NoImport
  <2>4. Left(t, inFlight + 1)
    BY <2>1, <2>2, <2>3, LeftAdvanced
  <2> QED
    BY <1>a, <2>2, <2>4
<1>5. CASE RunCreateImportError
  <2>1. InLoop /\ Admitted({"CreateImport"}) /\ LeaveVM([s EXCEPT !.error = TRUE], inFlight + 1)
    BY <1>5 DEF RunCreateImportError, Admitted
  <2>2. [s EXCEPT !.error = TRUE] \in VMStatus
    BY <1>b, <2>1, AdvanceType
  <2> QED
    BY <1>a, <2>1, <2>2, LeftInError
<1>6. CASE RunImportCreated
  BY <1>a, <1>6, LeftUpdated
<1>7. CASE RunCompleted
  BY <1>a, <1>7, LeftCompleted
<1> QED
  BY <1>1, <1>2, <1>3, <1>4, <1>5, <1>6, <1>7 DEF RunVM
LEMMA RunVMProgress ==
  ASSUME TypeOK, RunIsActive, ProgressInv, RunVM
  PROVE  ProgressInv'
<1>1. CASE SkipCompleted
  <2>1. /\ i \in DOMAIN w.vms /\ w.vms \in Seq(VMStatus) /\ i \in Nat
        /\ DOMAIN w.vms = 1..Len(w.vms) /\ Len(w.vms) \in Nat
    BY <1>1, CurrentVM DEF SkipCompleted, TypeOK, PassTypes
  <2>2. i \notin Working(w.vms) /\ ~Busy(w.vms[i]) /\ InLoop
    BY <1>1 DEF SkipCompleted, Working, Busy
  <2>3. /\ Behind(w.vms, i + 1) = Behind(w.vms, i)
        /\ Ahead(w.vms, i + 1) = Ahead(w.vms, i)
    <3>1. \A j \in Working(w.vms) : j \in Nat /\ j # i
      BY <2>1, <2>2 DEF Working
    <3>2. \A j \in Working(w.vms) : (j < i + 1 <=> j < i) /\ (j >= i + 1 <=> j >= i)
      BY <2>1, <3>1
    <3> QED
      BY <3>2 DEF Behind, Ahead
  <2>4. w' = w /\ plan' = plan /\ i' = i + 1 /\ inFlight' = inFlight
    BY <1>1 DEF SkipCompleted
  <2>5. \A k \in 1..((i + 1) - 1) : Busy(w.vms[k]) => k \in Working(w.vms)
    BY <2>1, <2>2 DEF ProgressInv, LoopInv
  <2> QED
    BY <2>2, <2>3, <2>4, <2>5 DEF ProgressInv, LoopInv
<1>2. CASE BreakAtLimit
  <2>1. Len(w.vms) \in Nat
    BY <1>2, CurrentVM DEF BreakAtLimit
  <2>2. w' = w /\ plan' = plan /\ i' = Len(w.vms) + 1
    BY <1>2 DEF BreakAtLimit
  <2>3. ~InLoop'
    BY <2>1, <2>2 DEF InLoop
  <2> QED
    BY <2>2, <2>3 DEF ProgressInv, LoopInv
<1>3. CASE Abort
  BY <1>3 DEF Abort, Idle, ProgressInv, LoopInv, InLoop
<1>4. ASSUME NEW t \in VMStatus, NEW n \in Nat, Left(t, n) PROVE ProgressInv'
  BY <1>4, LeaveVMProgress DEF Left
<1> QED
  BY <1>1, <1>2, <1>3, <1>4, LoopStep

(* Before the first VM nothing is behind and everything ahead.             *)
LEMMA LoopBegins ==
  ASSUME NEW vms \in Seq(VMStatus), Orderly(vms)
  PROVE  /\ Cardinality(Behind(vms, 1)) = 0
         /\ Cardinality(Ahead(vms, 1)) <= MaxInFlight + 1
         /\ Cardinality(Ahead(vms, 1)) \in Nat
<1>1. \A j \in Working(vms) : j \in Nat \ {0}
  BY DEF Working
<1>2. Behind(vms, 1) = {} /\ Ahead(vms, 1) = Working(vms)
  BY <1>1 DEF Behind, Ahead
<1> QED
  BY <1>2, FS_EmptySet, WorkingFinite DEF Orderly

LEMMA PassProgress ==
  ASSUME TypeOK, RunIsActive, ProgressInv, Pass
  PROVE  ProgressInv'
<1>1. ReadyPlan.vms = plan.vms /\ [plan EXCEPT !.ready = FALSE].vms = plan.vms
  BY DEF TypeOK, ObjectTypes, ReadyPlan, PlanStatus
<1>2. CASE ReconcileBlocked \/ ReconcileNothing \/ \E m \in Migrations : ReconcileFails(m)
  BY <1>1, <1>2
     DEF ReconcileBlocked, ReconcileNothing, ReconcileFails, Idle, ProgressInv, LoopInv, InLoop
<1>3. ASSUME NEW m \in Migrations, ReconcileRun(m) PROVE ProgressInv'
  <2> DEFINE p == Prepared(ReadyPlan, m)
             b == Begin(p, spec)
  <2>1. ReadyPlan \in PlanStatus /\ p \in PlanStatus /\ spec \in Specs
    BY ReadyPlanType, PreparedType DEF TypeOK, ObjectTypes
  <2>2. p.vms = plan.vms
    BY <1>1, <2>1 DEF Prepared, MarkReset, PlanStatus
  <2>3. b \in PlanStatus /\ b.vms \in Seq(VMStatus)
    BY <2>1, BeginType DEF PlanStatus
  <2>4. Orderly(b.vms)
    BY <2>1, <2>2, BeginOrderly DEF ProgressInv
  <2>5. w' = b /\ i' = 1 /\ inFlight' = 0 /\ plan'.vms = plan.vms
    BY <1>1, <1>3 DEF ReconcileRun
  <2> HIDE DEF b
  <2>6. LoopInv'
    <3>1. 0 <= MaxInFlight + 1 /\ MaxInFlight \in Nat
      BY LimitsAssumption
    <3>2. /\ Cardinality(Behind(b.vms, 1)) = 0
          /\ Cardinality(Ahead(b.vms, 1)) <= MaxInFlight + 1
          /\ Cardinality(Ahead(b.vms, 1)) \in Nat
      BY <2>3, <2>4, LoopBegins
    <3> QED
      BY <2>5, <3>1, <3>2 DEF LoopInv
  <2> QED
    BY <2>4, <2>5, <2>6 DEF ProgressInv
<1>4. CASE Finish
  <2>1. End(w).vms = w.vms
    BY DEF End, MarkCompleted, MarkStarted, TypeOK, PassTypes, PlanStatus
  <2> QED
    BY <1>4, <2>1 DEF Finish, Idle, ProgressInv, LoopInv, InLoop
<1> QED
  BY <1>2, <1>3, <1>4, RunVMProgress DEF Pass

LEMMA StepProgress ==
  ASSUME TypeOK, RunIsActive, ProgressInv, [Next]_vars
  PROVE  ProgressInv'
<1>1. CASE Crash
  BY <1>1 DEF Crash, Abort, Idle, ProgressInv, LoopInv, InLoop
<1>2. CASE \/ UNCHANGED vars \/ User \/ Provider \/ \E m \in Migrations : Reflect(m)
           \/ \E v \in VMs, m \in Migrations : ImportNext(v, m)
  <2>1. UNCHANGED <<plan, pc, w, i, inFlight>>
    BY <1>2 DEF vars, passVars, User, EditPlan, CreateMigration, DeleteMigration, Provider,
       ProviderDown, ProviderReconciled, ProviderUp, Reflect, ImportNext, ImportDisks,
       ImportSucceeds, ImportFails, ImportDeleted
  <2> QED
    BY <2>1 DEF ProgressInv, LoopInv, InLoop
<1> QED
  BY <1>1, <1>2, PassProgress DEF Next

LEMMA InitProgress == Init => ProgressInv
<1> SUFFICES ASSUME Init PROVE ProgressInv
  OBVIOUS
<1>1. plan.vms = <<>> /\ w.vms = <<>> /\ ~InLoop
  BY DEF Init, NewPlan, InLoop
<1>2. <<>> \in Seq(VMStatus) /\ Working(<<>>) = {} /\ DOMAIN <<>> = {}
  BY DEF Working
<1>3. Orderly(<<>>)
  BY <1>2, NothingAtWork
<1> QED
  BY <1>1, <1>3 DEF ProgressInv, LoopInv

(* However passes are lost, repeated or broken off, a plan never has more  *)
(* than MaxInFlight + 1 VMs at work on the destination, because the loop   *)
(* of Run compares its counter before it counts the VM (Migration.Run).    *)
THEOREM InFlightIsBounded == Spec => []InFlightBound
<1> DEFINE IInv == TypeOK /\ RunIsActive /\ ProgressInv
<1>1. Init => IInv
  BY InitType, InitRunIsActive, InitProgress
<1>2. IInv /\ [Next]_vars => IInv'
  BY StepType, StepRunIsActive, StepProgress
<1>3. IInv => InFlightBound
  BY DEF ProgressInv, Orderly, InFlightBound
<1> QED
  BY <1>1, <1>2, <1>3, PTL DEF Spec
(***************************************************************************)
(* The imports behind the VMs that wait for them.                          *)
(***************************************************************************)
(* A plan lists a VM once.                                                 *)
Distinct(vms) == \A j, k \in DOMAIN vms : vms[j].vm = vms[k].vm => j = k

HasImport(s, m) == m \in Migrations /\ imports[s.vm][m] # NoImport

Waits(s) == s.phase = "ImportCreated"

(* Of the plan as written; of the VMs the loop has passed, under the       *)
(* migration the pass works for; and the VMs the loop has not reached are  *)
(* as the plan lists them, or have been listed anew.                       *)
BackedInv ==
  /\ Distinct(plan.vms) /\ Distinct(w.vms)
  /\ \A k \in DOMAIN plan.vms : Waits(plan.vms[k]) => HasImport(plan.vms[k], plan.active)
  /\ pc = "Run" => \A k \in DOMAIN w.vms :
                      k < i /\ Waits(w.vms[k]) => HasImport(w.vms[k], w.active)
  /\ InLoop => \A k \in DOMAIN w.vms : k >= i =>
                 \/ w.vms[k].phase \in {"Started", "Completed"}
                 \/ k \in DOMAIN plan.vms /\ plan.vms[k] = w.vms[k]

LEMMA BeginLists ==
  ASSUME NEW p \in PlanStatus, NEW s \in Specs, Distinct(p.vms), Orderly(p.vms)
  PROVE  /\ Distinct(Begin(p, s).vms)
         /\ \/ Begin(p, s).vms = p.vms
            \/ \A k \in DOMAIN Begin(p, s).vms :
                  Begin(p, s).vms[k].phase \in {"Started", "Completed"}
<1>1. CASE p.conds # {}
  BY <1>1 DEF Begin
<1>2. CASE p.conds = {}
  <2> DEFINE list == Begin(p, s).vms
             kept == Kept(p.vms, s)
  <2>1. p.vms \in Seq(VMStatus) /\ MarkStarted(p) \in PlanStatus
    BY TimedType DEF PlanStatus
  <2>2. list = [k \in DOMAIN s |-> AddOrUpdate(kept, s[k])]
    BY <1>2, <2>1 DEF Begin, PlanStatus
  <2>3. ASSUME NEW k \in DOMAIN s
        PROVE  /\ AddOrUpdate(kept, s[k]).vm = s[k].vm
               /\ AddOrUpdate(kept, s[k]).phase \in {"Started", "Completed"}
    <3> DEFINE l == CHOOSE j \in DOMAIN kept : kept[j].vm = s[k].vm
    <3>1. s[k] \in [vm : VMs, hook : Hooks]
      BY SpecType
    <3>2. CASE InSpec(s[k].vm, kept)
      <4>1. l \in DOMAIN kept /\ kept[l].vm = s[k].vm
        BY <3>2 DEF InSpec
      <4>2. PICK j \in DOMAIN p.vms : kept[l] = p.vms[j]
        <5> HIDE DEF kept, l
        <5>1. \A x \in DOMAIN kept : \E j \in DOMAIN p.vms : kept[x] = p.vms[j]
          BY <2>1, KeptType DEF kept
        <5> QED
          BY <4>1, <5>1
      <4>3. kept[l] \in VMStatus /\ Sound(kept[l])
        BY <2>1, <4>2 DEF Orderly
      <4>4. AddOrUpdate(kept, s[k]) = Restart(kept[l], s[k])
        BY <3>2 DEF AddOrUpdate
      <4> HIDE DEF kept, l
      <4> QED
        BY <3>1, <4>1, <4>3, <4>4, RestartSound
    <3>3. CASE ~InSpec(s[k].vm, kept)
      <4>1. AddOrUpdate(kept, s[k]) = NewStatus(s[k])
        BY <3>3 DEF AddOrUpdate
      <4> QED
        BY <3>1, <4>1, NewStatusSound
    <3> QED
      BY <3>2, <3>3
  <2>4. \A j, k \in DOMAIN s : s[j].vm = s[k].vm => j = k
    BY SpecsAssumption
  <2> HIDE DEF kept, list
  <2>5. Distinct(list) /\ \A k \in DOMAIN list : list[k].phase \in {"Started", "Completed"}
    BY <2>2, <2>3, <2>4 DEF Distinct
  <2> QED
    BY <2>5 DEF list
<1> QED
  BY <1>1, <1>2

(* An import that nobody else deletes is lost only while its VM is being   *)
(* given one anew (ensureObject).                                          *)
LEMMA StepImportsKept ==
  ASSUME TypeOK, RunIsActive, "importDeleted" \notin Faults, [Next]_vars,
         NEW v \in VMs, NEW m \in Migrations, imports[v][m] # NoImport
  PROVE  \/ imports'[v][m] # NoImport
         \/ RunCreateImportError /\ v = w.vms[i].vm /\ m = w.active
<1>1. CASE imports' = imports
  BY <1>1
<1>2. NewImport # NoImport /\ [NewImport EXCEPT !.disks = TRUE] # NoImport
  BY DEF NewImport, NoImport
<1>3. ASSUME NEW u \in VMs, NEW n \in Migrations, NEW imp, SetImport(u, n, imp), imp # NoImport
      PROVE  imports'[v][m] # NoImport
  BY <1>3 DEF SetImport, TypeOK, ObjectTypes
<1>4. CASE RunCreateImport
  <2>1. InLoop /\ SetImport(w.vms[i].vm, w.active, NewImport)
    BY <1>4 DEF RunCreateImport, Admitted
  <2> QED
    BY <1>2, <1>3, <2>1, CurrentVM
<1>5. CASE RunCreateImportError
  <2>1. InLoop
    BY <1>5 DEF RunCreateImportError, Admitted
  <2>2. PICK imp : SetImport(w.vms[i].vm, w.active, imp)
    BY <1>5 DEF RunCreateImportError
  <2>3. w.vms[i].vm \in VMs /\ w.active \in Migrations
    BY <2>1, CurrentVM
  <2>4. (v = w.vms[i].vm /\ m = w.active) \/ imports'[v][m] = imports[v][m]
    BY <2>2, <2>3 DEF SetImport, TypeOK, ObjectTypes
  <2> QED
    BY <1>5, <2>4
<1>6. ASSUME NEW u \in VMs, NEW n \in Migrations, ImportNext(u, n)
      PROVE  imports'[v][m] # NoImport
  <2>1. imports[u][n] \in Import
    BY DEF TypeOK, ObjectTypes
  <2>2. CASE ImportDisks(u, n)
    BY <1>2, <1>3, <2>2 DEF ImportDisks
  <2>3. CASE ImportSucceeds(u, n)
    BY <2>1, <2>3 DEF ImportSucceeds, TypeOK, ObjectTypes, Import, NoImport
  <2>4. CASE ImportFails(u, n)
    BY <2>1, <2>4 DEF ImportFails, TypeOK, ObjectTypes, Import, NoImport
  <2>5. ~ImportDeleted(u, n)
    BY DEF ImportDeleted, Fault
  <2> QED
    BY <1>6, <2>2, <2>3, <2>4, <2>5 DEF ImportNext
<1>7. CASE Pass
  BY <1>1, <1>4, <1>5, <1>7
     DEF Pass, ReconcileBlocked, ReconcileNothing, ReconcileRun, ReconcileFails, RunVM,
         SkipCompleted, BreakAtLimit, RunStarted, RunHook, RunProviderNotReady,
         RunImportCreated, RunListFails, RunCompleted, LeaveVM, Abort, Finish
<1>8. CASE UNCHANGED vars \/ Crash \/ User \/ Provider \/ \E n \in Migrations : Reflect(n)
  BY <1>1, <1>8
     DEF vars, Crash, Abort, User, EditPlan, CreateMigration, DeleteMigration, Provider,
         ProviderDown, ProviderReconciled, ProviderUp, Reflect
<1> QED
  BY <1>6, <1>7, <1>8 DEF Next
(* So no step takes the import of a VM that the plan lists as waiting for  *)
(* it: the one that is given its import anew is not listed so.             *)
LEMMA ListedKeepImport ==
  ASSUME TypeOK, RunIsActive, BackedInv, "importDeleted" \notin Faults, [Next]_vars,
         NEW k \in DOMAIN plan.vms, Waits(plan.vms[k])
  PROVE  plan.active \in Migrations /\ imports'[plan.vms[k].vm][plan.active] # NoImport
<1>1. HasImport(plan.vms[k], plan.active)
  BY DEF BackedInv
<1>2. plan.vms[k].vm \in VMs
  <2>1. plan.vms \in Seq(VMStatus)
    BY DEF TypeOK, ObjectTypes, PlanStatus
  <2>2. plan.vms[k] \in VMStatus
    BY <2>1
  <2> QED
    BY <2>2 DEF VMStatus
<1>3. ASSUME RunCreateImportError, plan.vms[k].vm = w.vms[i].vm PROVE FALSE
  <2>1. InLoop /\ w.vms[i].phase = "CreateImport" /\ i \in DOMAIN w.vms /\ i >= i
    <3>1. InLoop /\ w.vms[i].phase = "CreateImport"
      BY <1>3 DEF RunCreateImportError, Admitted
    <3>2. i \in DOMAIN w.vms /\ i \in Nat
      BY <3>1, CurrentVM DEF TypeOK, PassTypes
    <3> QED
      BY <3>1, <3>2
  <2>2. i \in DOMAIN plan.vms /\ plan.vms[i] = w.vms[i]
    BY <2>1 DEF BackedInv
  <2>3. k = i
    BY <1>3, <2>2 DEF BackedInv, Distinct
  <2> QED
    BY <2>1, <2>2, <2>3 DEF Waits
<1> QED
  BY <1>1, <1>2, <1>3, StepImportsKept DEF HasImport

(* Nor of one that the loop has passed.                                    *)
LEMMA PassedKeepImport ==
  ASSUME TypeOK, RunIsActive, BackedInv, "importDeleted" \notin Faults, [Next]_vars,
         pc = "Run", NEW k \in DOMAIN w.vms, k < i, Waits(w.vms[k])
  PROVE  w.active \in Migrations /\ imports'[w.vms[k].vm][w.active] # NoImport
<1>1. HasImport(w.vms[k], w.active)
  BY DEF BackedInv
<1>2. w.vms[k].vm \in VMs
  <2>1. w.vms \in Seq(VMStatus)
    BY DEF TypeOK, PassTypes, PlanStatus
  <2>2. w.vms[k] \in VMStatus
    BY <2>1
  <2> QED
    BY <2>2 DEF VMStatus
<1>3. ASSUME RunCreateImportError, w.vms[k].vm = w.vms[i].vm PROVE FALSE
  <2>1. InLoop
    BY <1>3 DEF RunCreateImportError, Admitted
  <2>2. i \in DOMAIN w.vms /\ i \in Nat
    BY <2>1, CurrentVM DEF TypeOK, PassTypes
  <2>3. k = i
    BY <1>3, <2>2 DEF BackedInv, Distinct
  <2> QED
    BY <2>2, <2>3
<1> QED
  BY <1>1, <1>2, <1>3, StepImportsKept DEF HasImport

(* When the loop breaks off at the limit no VM from there on waits for its *)
(* import: it would hold a place.                                          *)
LEMMA NoneWaitsAhead ==
  ASSUME TypeOK, RunIsActive, ProgressInv, InLoop, Full, NEW k \in DOMAIN w.vms, k >= i
  PROVE  ~Waits(w.vms[k])
<1>1. /\ w.vms \in Seq(VMStatus) /\ i \in Nat /\ inFlight \in Nat /\ MaxInFlight \in Nat
  BY CurrentVM, LimitsAssumption DEF TypeOK, PassTypes
<1>2. /\ IsFiniteSet(Ahead(w.vms, i)) /\ Cardinality(Ahead(w.vms, i)) \in Nat
  BY <1>1, WorkingFinite
<1>3. Ahead(w.vms, i) = {}
  <2>1. ASSUME inFlight + Cardinality(Ahead(w.vms, i)) <= MaxInFlight + 1
        PROVE  Cardinality(Ahead(w.vms, i)) = 0
    BY <1>1, <1>2, <2>1 DEF Full
  <2> QED
    BY <1>2, <2>1, FS_EmptySet DEF ProgressInv, LoopInv
<1>4. k \notin Working(w.vms)
  BY <1>3 DEF Ahead
<1>5. Sound(w.vms[k])
  BY DEF ProgressInv, Orderly
<1> QED
  BY <1>4, <1>5 DEF Waits, Sound, Busy, Early, Working

LEMMA RunVMBacked ==
  ASSUME TypeOK, RunIsActive, ProgressInv, BackedInv, "importDeleted" \notin Faults, RunVM,
         [Next]_vars
  PROVE  BackedInv'
<1>a. /\ Distinct(plan.vms) /\ Distinct(w.vms)
      /\ \A k \in DOMAIN plan.vms : Waits(plan.vms[k]) =>
            plan.active \in Migrations /\ imports'[plan.vms[k].vm][plan.active] # NoImport
      /\ pc = "Run" => \A k \in DOMAIN w.vms : k < i /\ Waits(w.vms[k]) =>
            w.active \in Migrations /\ imports'[w.vms[k].vm][w.active] # NoImport
  BY ListedKeepImport, PassedKeepImport DEF BackedInv
<1>1. CASE Abort
  <2>1. plan' = plan /\ w' = plan /\ pc' = "Idle"
    BY <1>1 DEF Abort, Idle
  <2> QED
    BY <1>a, <2>1 DEF BackedInv, HasImport, InLoop
<1>2. CASE SkipCompleted
  <2>1. /\ InLoop /\ w.vms[i].completed /\ i' = i + 1
        /\ plan' = plan /\ w' = w /\ pc' = pc /\ imports' = imports
    BY <1>2 DEF SkipCompleted
  <2>2. i \in DOMAIN w.vms /\ i \in Nat /\ DOMAIN w.vms \subseteq Nat
    BY <2>1, CurrentVM DEF TypeOK, PassTypes
  <2>3. ~Waits(w.vms[i])
    BY <2>1, <2>2 DEF ProgressInv, Orderly, Sound, Early, Waits
  <2>4. \A k \in DOMAIN w.vms : (k < i + 1 <=> k < i \/ k = i) /\ (k >= i + 1 => k >= i)
    BY <2>2
  <2> QED
    BY <2>1, <2>3, <2>4 DEF BackedInv, InLoop, HasImport
<1>3. CASE BreakAtLimit
  <2>1. /\ InLoop /\ Full /\ i' = Len(w.vms) + 1 /\ pc = "Run"
        /\ plan' = plan /\ w' = w /\ pc' = pc /\ imports' = imports
    BY <1>3 DEF BreakAtLimit, InLoop
  <2>2. i \in Nat /\ Len(w.vms) \in Nat /\ DOMAIN w.vms \subseteq Nat
    BY <2>1, CurrentVM DEF TypeOK, PassTypes
  <2>3. ~InLoop'
    BY <2>1, <2>2 DEF InLoop
  <2>4. \A k \in DOMAIN w.vms : k < i \/ k >= i
    BY <2>2
  <2>5. \A k \in DOMAIN w.vms : k >= i => ~Waits(w.vms[k])
    BY <2>1, NoneWaitsAhead
  <2> QED
    BY <2>1, <2>3, <2>4, <2>5 DEF BackedInv, HasImport
<1>4. ASSUME NEW t \in VMStatus, NEW n \in Nat, Left(t, n) PROVE BackedInv'
  <2>1. /\ w.vms \in Seq(VMStatus) /\ i \in DOMAIN w.vms /\ i \in Nat /\ w.active \in Migrations
        /\ DOMAIN w.vms \subseteq Nat
    BY <1>4, CurrentVM DEF Left, TypeOK, PassTypes
  <2>2. /\ w'.vms = [w.vms EXCEPT ![i] = Settle(t)] /\ w'.active = w.active
        /\ i' = i + 1 /\ plan' = plan /\ pc' = pc /\ pc = "Run"
    BY <1>4 DEF Left, LeaveVM, InLoop, TypeOK, PassTypes, PlanStatus
  <2>3. /\ DOMAIN w'.vms = DOMAIN w.vms /\ w'.vms[i] = Settle(t)
        /\ \A k \in DOMAIN w.vms : k # i => w'.vms[k] = w.vms[k]
    BY <2>1, <2>2
  <2>4. /\ Settle(t).vm = w.vms[i].vm
        /\ Waits(Settle(t)) => imports'[w.vms[i].vm][w.active] # NoImport
    BY <1>4 DEF Left, Waits
  <2>5. \A k \in DOMAIN w.vms : (k < i + 1 <=> k < i \/ k = i)
                                /\ (k >= i + 1 => k >= i /\ k # i)
    BY <2>1
  <2>6. Distinct(w'.vms)
    BY <1>a, <2>3, <2>4 DEF Distinct
  <2>7. \A k \in DOMAIN w'.vms : k < i' /\ Waits(w'.vms[k]) =>
           w'.active \in Migrations /\ imports'[w'.vms[k].vm][w'.active] # NoImport
    BY <1>a, <2>1, <2>2, <2>3, <2>4, <2>5
  <2>8. \A k \in DOMAIN w'.vms : k >= i' =>
           \/ w'.vms[k].phase \in {"Started", "Completed"}
           \/ k \in DOMAIN plan'.vms /\ plan'.vms[k] = w'.vms[k]
    BY <1>4, <2>2, <2>3, <2>5 DEF BackedInv, Left
  <2> QED
    BY <1>a, <2>2, <2>6, <2>7, <2>8 DEF BackedInv, HasImport
<1> QED
  BY <1>1, <1>2, <1>3, <1>4, LoopStep

LEMMA StepBacked ==
  ASSUME TypeOK, RunIsActive, ProgressInv, BackedInv, "importDeleted" \notin Faults, [Next]_vars
  PROVE  BackedInv'
<1>a. /\ Distinct(plan.vms) /\ Distinct(w.vms)
      /\ \A k \in DOMAIN plan.vms : Waits(plan.vms[k]) =>
            plan.active \in Migrations /\ imports'[plan.vms[k].vm][plan.active] # NoImport
      /\ pc = "Run" => \A k \in DOMAIN w.vms : k < i /\ Waits(w.vms[k]) =>
            w.active \in Migrations /\ imports'[w.vms[k].vm][w.active] # NoImport
  BY ListedKeepImport, PassedKeepImport DEF BackedInv
<1>b. /\ ReadyPlan.vms = plan.vms /\ ReadyPlan.active = plan.active
      /\ [plan EXCEPT !.ready = FALSE].vms = plan.vms
      /\ [plan EXCEPT !.ready = FALSE].active = plan.active
  BY DEF TypeOK, ObjectTypes, ReadyPlan, PlanStatus
<1>1. CASE \/ ReconcileBlocked \/ ReconcileNothing \/ \E m \in Migrations : ReconcileFails(m)
           \/ Crash
  <2>1. /\ plan'.vms = plan.vms /\ plan'.active = plan.active
        /\ w' = plan' /\ pc' = "Idle"
    BY <1>b, <1>1 DEF ReconcileBlocked, ReconcileNothing, ReconcileFails, Crash, Abort, Idle
  <2> QED
    BY <1>a, <2>1 DEF BackedInv, HasImport, InLoop
<1>2. ASSUME NEW m \in Migrations, ReconcileRun(m) PROVE BackedInv'
  <2> DEFINE p == Prepared(ReadyPlan, m)
             b == Begin(p, spec)
  <2>1. ReadyPlan \in PlanStatus /\ p \in PlanStatus /\ spec \in Specs
    BY ReadyPlanType, PreparedType DEF TypeOK, ObjectTypes
  <2>2. p.vms = plan.vms
    BY <1>b, <2>1 DEF Prepared, MarkReset, PlanStatus
  <2>3. /\ Distinct(b.vms)
        /\ \/ b.vms = plan.vms
           \/ \A k \in DOMAIN b.vms : b.vms[k].phase \in {"Started", "Completed"}
    BY <1>a, <2>1, <2>2, BeginLists DEF ProgressInv
  <2>4. /\ w' = b /\ i' = 1 /\ pc' = "Run"
        /\ plan'.vms = plan.vms /\ plan'.active = plan.active
    BY <1>b, <1>2 DEF ReconcileRun
  <2>5. \A k \in DOMAIN b.vms : ~(k < 1)
    <3>1. b.vms \in Seq(VMStatus)
      BY <2>1, BeginType DEF PlanStatus
    <3> HIDE DEF b
    <3> QED
      BY <3>1
  <2> HIDE DEF b
  <2> QED
    BY <1>a, <2>3, <2>4, <2>5 DEF BackedInv, HasImport
<1>3. CASE Finish
  <2>1. End(w).vms = w.vms /\ End(w).active = w.active
    BY DEF End, MarkCompleted, MarkStarted, TypeOK, PassTypes, PlanStatus
  <2>2. \A k \in DOMAIN w.vms : k < i
    <3>1. w.vms \in Seq(VMStatus) /\ i \in Nat /\ i > Len(w.vms)
      BY <1>3 DEF Finish, TypeOK, PassTypes, PlanStatus
    <3> QED
      BY <3>1
  <2>3. /\ pc = "Run" /\ pc' = "Idle" /\ w' = plan'
        /\ plan' = IF stale THEN plan ELSE End(w)
    BY <1>3 DEF Finish, Idle
  <2> QED
    BY <1>a, <2>1, <2>2, <2>3 DEF BackedInv, HasImport, InLoop
<1>4. CASE \/ UNCHANGED vars \/ User \/ Provider \/ \E m \in Migrations : Reflect(m)
           \/ \E v \in VMs, m \in Migrations : ImportNext(v, m)
  <2>1. UNCHANGED <<plan, pc, w, i>>
    BY <1>4 DEF vars, passVars, User, EditPlan, CreateMigration, DeleteMigration, Provider,
       ProviderDown, ProviderReconciled, ProviderUp, Reflect, ImportNext, ImportDisks,
       ImportSucceeds, ImportFails, ImportDeleted
  <2> QED
    BY <1>a, <2>1 DEF BackedInv, HasImport, InLoop
<1> QED
  BY <1>1, <1>2, <1>3, <1>4, RunVMBacked DEF Next, Pass

LEMMA InitBacked == Init => BackedInv
BY DEF Init, BackedInv, Distinct, NewPlan, InLoop

LEMMA BackedImplies == TypeOK /\ BackedInv => ImportBacksPhase
BY MigrationsAssumption DEF BackedInv, HasImport, Waits, ImportBacksPhase, Statuses, NoMigration

(* Where nobody else deletes imports, a VM that the plan says waits for    *)
(* its import has one under the plan's active migration, though the import *)
(* is created on another cluster before the plan is written, and passes    *)
(* are lost, repeated, broken off at the limit or taken over by another    *)
(* migration in between.                                                   *)
THEOREM ImportAlwaysBacksPhase ==
  ASSUME "importDeleted" \notin Faults
  PROVE  Spec => []ImportBacksPhase
<1> DEFINE IInv == TypeOK /\ RunIsActive /\ ProgressInv /\ BackedInv
<1>1. Init => IInv
  BY InitType, InitRunIsActive, InitProgress, InitBacked
<1>2. IInv /\ [Next]_vars => IInv'
  BY StepType, StepRunIsActive, StepProgress, StepBacked
<1>3. IInv => ImportBacksPhase
  BY BackedImplies
<1> QED
  BY <1>1, <1>2, <1>3, PTL DEF Spec
=============================================================================
