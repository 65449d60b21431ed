----------------------- MODULE InventoryMirrorProofs -----------------------
(***************************************************************************)
(* What InventoryMirror keeps for every set of objects and any number of   *)
(* faults and changes: its types, the agreement of rows with reports, that *)
(* readers find all that was there, and that no VM's analysis is forgotten.*)
(***************************************************************************)
EXTENDS InventoryMirror, TLAPS

(* An object that is not reported has no data: with it, an object of an    *)
(* update set enters, leaves or is modified.                               *)
ToldInv == \A o \in Objects : told[o].here \/ told[o] = Unseen

IInv == MirrorTypeOK /\ ToldInv /\ MirrorAgrees

LEMMA ViewType ==
  ASSUME MirrorTypeOK, NEW o \in Objects
  PROVE  View(o) \in RowType /\ (View(o).here \/ View(o) = Unseen)
BY DEF MirrorTypeOK, View, Here, Unseen, RowType, ObjectType

(* An object that changed enters, leaves or is modified. *)
LEMMA ChangedCases ==
  ASSUME MirrorTypeOK, ToldInv, NEW o \in Changed
  PROVE  Enters(o) \/ Leaves(o) \/ Modifies(o)
<1>1. o \in Objects /\ told[o] # View(o)
  BY DEF Changed
<1>2. View(o) \in RowType /\ (View(o).here \/ View(o) = Unseen)
  BY <1>1, ViewType
<1>3. told[o] \in RowType
  BY <1>1 DEF MirrorTypeOK
<1> QED
  BY <1>1, <1>2, <1>3 DEF ToldInv, Enters, Leaves, Modifies, RowType

(* The row that a commit leaves of an object of its set. *)
LEMMA AppliedRow ==
  ASSUME MirrorTypeOK, ToldInv, NEW o \in Changed, Modifies(o) => db[o].here
  PROVE  /\ Applied(o) \in DBRowType
         /\ View(o).here => /\ Applied(o).here
                            /\ Applied(o).data = View(o).data
                            /\ Applied(o).vms = View(o).vms
         /\ ~View(o).here /\ Applied(o).here => o \in Groups
<1>1. o \in Objects /\ db[o] \in DBRowType /\ View(o) \in RowType
  BY ViewType DEF Changed, MirrorTypeOK
<1>2. CASE Enters(o)
  <2>1. Applied(o) = Entered(o) /\ View(o).here
    BY <1>2 DEF Applied, Enters, Leaves, Modifies
  <2> QED
    BY <1>1, <2>1 DEF Entered, DBRowType, RowType
<1>3. CASE Leaves(o)
  <2>1. Applied(o) = Left(o) /\ ~View(o).here
    BY <1>3 DEF Applied, Enters, Leaves, Modifies
  <2> QED
    BY <1>1, <2>1 DEF Left, Missing, DBRowType
<1>4. CASE Modifies(o)
  <2>1. Applied(o) = Modified(o) /\ View(o).here
    BY <1>4 DEF Applied, Enters, Leaves, Modifies
  <2>2. db[o].here
    BY <1>4
  <2>3. View(o).data \in Nat /\ View(o).vms \in SUBSET VMs
    BY <1>1 DEF RowType
  <2>4. /\ Modified(o) \in DBRowType
        /\ Modified(o).here = db[o].here
        /\ Modified(o).data = View(o).data
        /\ Modified(o).vms = View(o).vms
    <3> DEFINE r == db[o]
               d == View(o).data
               vs == View(o).vms
               n == db[o].rev + 1
    <3>1. r \in DBRowType /\ d \in Nat /\ vs \in SUBSET VMs /\ n \in Nat
      BY <1>1, <2>3 DEF DBRowType
    <3>2. Modified(o) = [r EXCEPT !.data = d, !.vms = vs, !.rev = n]
      BY Zenon DEF Modified
    <3>3. r.here = db[o].here /\ d = View(o).data /\ vs = View(o).vms
      OBVIOUS
    <3> HIDE DEF r, d, vs, n
    <3>4. /\ [r EXCEPT !.data = d, !.vms = vs, !.rev = n] \in DBRowType
          /\ [r EXCEPT !.data = d, !.vms = vs, !.rev = n].here = r.here
          /\ [r EXCEPT !.data = d, !.vms = vs, !.rev = n].data = d
          /\ [r EXCEPT !.data = d, !.vms = vs, !.rev = n].vms = vs
      BY <3>1 DEF DBRowType
    <3> QED
      BY <3>2, <3>3, <3>4
  <2> QED
    BY <2>1, <2>2, <2>4
<1> QED
  BY <1>2, <1>3, <1>4, ChangedCases

(***************************************************************************)
(* The changes of the source, and the session.                             *)
(***************************************************************************)
LEMMA SourceKeeps ==
  ASSUME IInv, NEW o \in Objects, Create(o) \/ Modify(o) \/ Destroy(o)
  PROVE  IInv'
<1>1. /\ changes > 0 /\ changes' = changes - 1
      /\ UNCHANGED <<told, db, session, consistent, watchVars, missed, unjudged, leftover, faults>>
  BY DEF Create, Modify, Destroy, SourceChanges
<1>2. source' \in [Objects -> ObjectType]
  <2>1. source \in [Objects -> ObjectType] /\ source[o] \in ObjectType
    BY DEF IInv, MirrorTypeOK
  <2>2. CASE Create(o)
    BY <2>1, <2>2 DEF Create, SourceChanges, ObjectType
  <2>3. CASE Modify(o)
    <3>1. [source[o] EXCEPT !.data = @ + 1] \in ObjectType
      BY <2>1 DEF ObjectType
    <3> QED
      BY <2>1, <2>3, <3>1 DEF Modify, SourceChanges
  <2>4. CASE Destroy(o)
    <3>1. [source[o] EXCEPT !.life = "gone"] \in ObjectType
      BY <2>1 DEF ObjectType
    <3> QED
      BY <2>1, <2>4, <3>1 DEF Destroy, SourceChanges
  <2> QED
    BY <2>2, <2>3, <2>4
<1>3. unreported' \subseteq unreported
  BY DEF Create, Modify, Destroy
<1>4. MirrorTypeOK'
  BY <1>1, <1>2, <1>3 DEF IInv, MirrorTypeOK, watchVars
<1> QED
  BY <1>1, <1>4 DEF IInv, ToldInv, MirrorAgrees

LEMMA SessionKeeps ==
  ASSUME IInv, Lost \/ Connect \/ Restart
  PROVE  IInv'
<1>1. CASE Lost
  <2>1. /\ session' = "down" /\ consistent' = FALSE
        /\ vmEvents' = {} /\ clusterEvent' = FALSE
        /\ UNCHANGED <<source, told, db, missed, unjudged, unreported, leftover, changes>>
    BY <1>1 DEF Lost, Down, history
  <2>2. faults' \in Nat
    BY <1>1 DEF Lost, MirrorFault, IInv, MirrorTypeOK
  <2>3. MirrorTypeOK'
    BY <2>1, <2>2 DEF IInv, MirrorTypeOK
  <2> QED
    BY <2>1, <2>3 DEF IInv, ToldInv, MirrorAgrees
<1>2. CASE Connect
  <2>1. MirrorTypeOK'
    BY <1>2 DEF Connect, IInv, MirrorTypeOK, RowType, Unseen, watchVars, mirrorBounds
  <2>2. ToldInv'
    BY <1>2 DEF Connect, ToldInv
  <2>3. MirrorAgrees'
    BY <1>2 DEF Connect, MirrorAgrees, Unseen
  <2> QED
    BY <2>1, <2>2, <2>3 DEF IInv
<1>3. CASE Restart
  <2>1. Missing \in DBRowType
    BY DEF Missing, DBRowType
  <2>2. /\ session' = "down" /\ consistent' = FALSE
        /\ vmEvents' = {} /\ clusterEvent' = FALSE
        /\ db' = [o \in Objects |-> Missing]
        /\ UNCHANGED <<source, told, missed, unjudged, unreported, leftover, changes>>
    BY <1>3 DEF Restart, Down, history
  <2>3. faults' \in Nat
    BY <1>3 DEF Restart, MirrorFault, IInv, MirrorTypeOK
  <2>4. MirrorTypeOK'
    BY <2>1, <2>2, <2>3 DEF IInv, MirrorTypeOK
  <2>5. ToldInv' /\ MirrorAgrees'
    BY <2>2 DEF IInv, ToldInv, MirrorAgrees
  <2> QED
    BY <2>4, <2>5 DEF IInv
<1> QED
  BY <1>1, <1>2, <1>3

(***************************************************************************)
(* An update set, committed or rolled back.                                *)
(***************************************************************************)
LEMMA ReceiveKeeps ==
  ASSUME IInv, NEW S \in SUBSET Objects, Receive(S)
  PROVE  IInv'
<1>1. /\ session = "up" /\ S \subseteq Changed
      /\ told' = [o \in Objects |-> IF o \in S THEN View(o) ELSE told[o]]
      /\ unreported' = unreported \ S
      /\ UNCHANGED <<source, session, unjudged, leftover, changes>>
      /\ consistent' \in BOOLEAN
  BY DEF Receive, IInv, MirrorTypeOK
<1>2. MirrorTypeOK /\ ToldInv /\ MirrorAgrees
  BY DEF IInv
<1>3. Commit(S) \/ Rollback(S)
  BY DEF Receive
<1>4. /\ db' \in [Objects -> DBRowType]
      /\ missed' \subseteq Objects /\ missed \subseteq missed'
      /\ faults' \in Nat
  <2>1. CASE Commit(S)
    <3>1. \A o \in S : Applied(o) \in DBRowType
      BY <1>1, <1>2, <2>1, AppliedRow DEF Commit, Applicable
    <3> QED
      BY <1>2, <2>1, <3>1 DEF Commit, MirrorTypeOK
  <2>2. CASE Rollback(S)
    BY <1>2, <2>2 DEF Rollback, MirrorFault, MirrorTypeOK
  <2> QED
    BY <1>3, <2>1, <2>2
<1>5. told' \in [Objects -> RowType] /\ ToldInv'
  BY <1>1, <1>2, ViewType DEF MirrorTypeOK, ToldInv
<1>6. vmEvents' \subseteq VMs /\ clusterEvent' \in BOOLEAN
  <2>1. Notify(S, S # Changed)
    BY DEF Receive
  <2>2. db'["cluster"].here \in BOOLEAN
    BY <1>4 DEF DBRowType, Objects, Fixed
  <2> QED
    BY <1>2, <2>1, <2>2 DEF Notify, Unanalyzed, MirrorTypeOK, watchVars
<1>7. MirrorTypeOK'
  BY <1>1, <1>2, <1>4, <1>5, <1>6 DEF MirrorTypeOK
<1>8. MirrorAgrees'
  <2> SUFFICES ASSUME NEW o \in Objects \ missed'
               PROVE  /\ told'[o].here => /\ db'[o].here
                                          /\ db'[o].data = told'[o].data
                                          /\ db'[o].vms = told'[o].vms
                      /\ ~told'[o].here /\ db'[o].here => o \in leftover' \cup Groups
    BY DEF MirrorAgrees
  <2>1. o \in Objects \ missed
    BY <1>4
  <2>2. CASE o \in S
    <3>1. Commit(S)
      BY <1>3, <2>2 DEF Rollback
    <3>2. db'[o] = Applied(o) /\ told'[o] = View(o)
      BY <1>1, <2>2, <3>1 DEF Commit
    <3> QED
      BY <1>1, <1>2, <2>2, <3>1, <3>2, AppliedRow DEF Commit, Applicable
  <2>3. CASE o \notin S
    <3>1. db'[o] = db[o] /\ told'[o] = told[o] /\ leftover' = leftover
      BY <1>1, <1>3, <2>3 DEF Commit, Rollback
    <3> QED
      BY <1>1, <1>2, <2>1, <3>1 DEF MirrorAgrees
  <2> QED
    BY <2>2, <2>3
<1> QED
  BY <1>5, <1>7, <1>8 DEF IInv

(***************************************************************************)
(* The analyses: they touch nothing of a row but its analysis.             *)
(***************************************************************************)
SameRow(r, s) == s.here = r.here /\ s.data = r.data /\ s.vms = r.vms

LEMMA AnalysesKeep ==
  ASSUME IInv, AnalyzeCluster \/ \E v \in VMs : AnalyzeVM(v)
  PROVE  IInv'
<1>1. MirrorTypeOK /\ ToldInv /\ MirrorAgrees
  BY DEF IInv
<1>2. /\ UNCHANGED <<source, told, session, consistent, missed, unreported, leftover, changes>>
      /\ vmEvents' \subseteq VMs /\ clusterEvent' \in BOOLEAN
      /\ unjudged' \subseteq VMs /\ faults' \in Nat
  <2>1. CASE AnalyzeCluster
    <3>1. db["host"].vms \subseteq VMs
      BY <1>1 DEF MirrorTypeOK, DBRowType, Objects, Fixed
    <3>2. vmEvents' \subseteq VMs /\ clusterEvent' = FALSE
      BY <1>1, <2>1, <3>1 DEF AnalyzeCluster, MirrorTypeOK
    <3>3. UNCHANGED faults \/ MirrorFault("db")
      BY <2>1 DEF AnalyzeCluster
    <3>4. faults' \in Nat
      BY <1>1, <3>3 DEF MirrorFault, MirrorTypeOK
    <3>5. UNCHANGED <<source, told, session, consistent, missed, unjudged,
                      unreported, leftover, changes>>
      BY <2>1 DEF AnalyzeCluster, history
    <3> QED
      BY <1>1, <3>2, <3>4, <3>5 DEF MirrorTypeOK
  <2>2. CASE \E v \in VMs : AnalyzeVM(v)
    <3>1. PICK v \in VMs : AnalyzeVM(v)
      BY <2>2
    <3>2. vmEvents' \subseteq VMs /\ UNCHANGED clusterEvent
      BY <1>1, <3>1 DEF AnalyzeVM, MirrorTypeOK
    <3>3. unjudged' \subseteq VMs /\ faults' \in Nat
      BY <1>1, <3>1 DEF AnalyzeVM, MirrorFault, MirrorTypeOK
    <3> QED
      BY <1>1, <3>1, <3>2, <3>3 DEF AnalyzeVM, MirrorTypeOK
  <2> QED
    BY <2>1, <2>2
<1>3. /\ db' \in [Objects -> DBRowType]
      /\ \A o \in Objects : SameRow(db[o], db'[o])
  <2>1. \A r \in DBRowType, a \in Nat, d \in Nat :
           LET m == [r EXCEPT !.analyzed = a, !.judged = d]
           IN  m \in DBRowType /\ SameRow(r, m)
    BY DEF DBRowType, SameRow
  <2>2. db \in [Objects -> DBRowType] /\ \A o \in Objects : SameRow(db[o], db[o])
    BY <1>1 DEF MirrorTypeOK, SameRow
  <2>3. CASE AnalyzeCluster
    <3>1. CASE UNCHANGED db
      BY <2>2, <3>1
    <3>2. CASE db' = [o \in Objects |->
                        IF o \in db["host"].vms
                        THEN [db[o] EXCEPT !.analyzed = 0, !.judged = 0] ELSE db[o]]
      BY <2>1, <2>2, <3>2
    <3> QED
      BY <2>3, <3>1, <3>2 DEF AnalyzeCluster
  <2>4. CASE \E v \in VMs : AnalyzeVM(v)
    <3>1. PICK v \in VMs : AnalyzeVM(v)
      BY <2>4
    <3>2. CASE UNCHANGED db
      BY <2>2, <3>2
    <3>3. CASE db' = [db EXCEPT ![v].analyzed = db[v].rev, ![v].judged = db[v].data]
      <4>1. v \in Objects /\ db[v].rev \in Nat /\ db[v].data \in Nat
        BY <2>2 DEF Objects, DBRowType
      <4>2. db' = [db EXCEPT ![v] = [db[v] EXCEPT !.analyzed = db[v].rev,
                                                  !.judged = db[v].data]]
        BY <2>2, <3>3, <4>1
      <4> QED
        BY <2>1, <2>2, <4>1, <4>2
    <3> QED
      BY <3>1, <3>2, <3>3 DEF AnalyzeVM
  <2> QED
    BY <2>3, <2>4
<1>4. MirrorTypeOK'
  BY <1>1, <1>2, <1>3 DEF MirrorTypeOK
<1>5. MirrorAgrees'
  BY <1>1, <1>2, <1>3 DEF MirrorAgrees, SameRow
<1> QED
  BY <1>1, <1>2, <1>4, <1>5 DEF IInv, ToldInv

(***************************************************************************)
(* The theorems.                                                           *)
(***************************************************************************)
LEMMA InitHolds == MirrorInit => IInv
<1> SUFFICES ASSUME MirrorInit PROVE IInv
  OBVIOUS
<1>1. Unseen \in RowType /\ Missing \in DBRowType
  BY DEF Unseen, RowType, Missing, DBRowType
<1>2. source \in [Objects -> ObjectType]
  BY DEF MirrorInit, ObjectType
<1>3. faults \in Nat /\ changes \in Nat
  BY FaultsAssumption DEF MirrorInit
<1>4. MirrorTypeOK
  BY <1>1, <1>2, <1>3 DEF MirrorInit, MirrorTypeOK
<1> QED
  BY <1>4 DEF MirrorInit, IInv, ToldInv, MirrorAgrees

LEMMA StepKeeps == IInv /\ [MirrorNext]_mirrorVars => IInv'
<1> SUFFICES ASSUME IInv, [MirrorNext]_mirrorVars PROVE IInv'
  OBVIOUS
<1>1. CASE \E o \in Objects : Create(o) \/ Modify(o) \/ Destroy(o)
  BY <1>1, SourceKeeps
<1>2. CASE Updates
  BY <1>2, ReceiveKeeps DEF Updates
<1>3. CASE Lost \/ Connect \/ Restart
  BY <1>3, SessionKeeps
<1>4. CASE AnalyzeCluster \/ \E v \in VMs : AnalyzeVM(v)
  BY <1>4, AnalysesKeep
<1>5. CASE UNCHANGED mirrorVars
  BY <1>5 DEF mirrorVars, watchVars, history, mirrorBounds, IInv, MirrorTypeOK, ToldInv, MirrorAgrees
<1> QED
  BY <1>1, <1>2, <1>3, <1>4, <1>5 DEF MirrorNext

(* Every reachable state is well typed, whatever order the update sets,    *)
(* the analyses, the losses of the session and the restarts come in.       *)
THEOREM MirrorTypeCorrect == MirrorSpec => []MirrorTypeOK
<1>1. IInv => MirrorTypeOK
  BY DEF IInv
<1> QED
  BY InitHolds, StepKeeps, <1>1, PTL DEF MirrorSpec

(* In a session every row not touched by a set that was rolled back is     *)
(* what was last reported of its object: a commit and the analyses, in any *)
(* order, keep each other's part of the row (apply, WatchVM.analyze,       *)
(* WatchCluster.analyze).                                                  *)
THEOREM MirrorAlwaysAgrees == MirrorSpec => []MirrorAgrees
<1>1. IInv => MirrorAgrees
  BY DEF IInv
<1> QED
  BY InitHolds, StepKeeps, <1>1, PTL DEF MirrorSpec

(***************************************************************************)
(* Consistency.  What was there at the connect and is not reported is      *)
(* still there, so a set with all that changed reports it.                 *)
(***************************************************************************)
LoadInv ==
  /\ LoadedWhenConsistent
  /\ session = "up" => \A o \in unreported : Here(o) /\ ~told[o].here

LEMMA LoadKeeps ==
  ASSUME IInv, LoadInv, [MirrorNext]_mirrorVars
  PROVE  LoadInv'
<1>1. MirrorTypeOK
  BY DEF IInv
<1>2. CASE \E o \in Objects : Create(o) \/ Modify(o) \/ Destroy(o)
  <2>1. PICK o \in Objects : Create(o) \/ Modify(o) \/ Destroy(o)
    BY <1>2
  <2>2. source \in [Objects -> ObjectType] /\ source[o] \in ObjectType
    BY <1>1 DEF MirrorTypeOK
  <2>3. /\ UNCHANGED <<told, session, consistent>>
        /\ unreported' \subseteq unreported
        /\ \A x \in unreported' : Here(x) => Here(x)'
    <3>1. CASE Create(o)
      BY <2>2, <3>1 DEF Create, SourceChanges, Here
    <3>2. CASE Modify(o)
      <4>1. [source[o] EXCEPT !.data = @ + 1].life = source[o].life
        BY <2>2 DEF ObjectType
      <4> QED
        BY <2>2, <3>2, <4>1 DEF Modify, SourceChanges, Here
    <3>3. CASE Destroy(o)
      BY <2>2, <3>3 DEF Destroy, SourceChanges, Here
    <3> QED
      BY <2>1, <3>1, <3>2, <3>3
  <2> QED
    BY <2>3 DEF LoadInv, LoadedWhenConsistent
<1>3. CASE Updates
  <2>1. PICK S \in SUBSET Objects : Receive(S)
    BY <1>3 DEF Updates
  <2>2. /\ session = "up" /\ UNCHANGED <<session, source>>
        /\ told' = [o \in Objects |-> IF o \in S THEN View(o) ELSE told[o]]
        /\ unreported' = unreported \ S
        /\ consistent' = (consistent \/ ~(S # Changed))
    BY <2>1 DEF Receive
  <2>3. unreported \subseteq Changed
    BY <1>1, <2>2 DEF LoadInv, MirrorTypeOK, Changed, View, Here, Unseen
  <2>4. \A o \in unreported' : Here(o)' /\ ~told'[o].here
    BY <1>1, <2>2 DEF LoadInv, MirrorTypeOK, Here
  <2> QED
    BY <2>2, <2>3, <2>4 DEF LoadInv, LoadedWhenConsistent
<1>4. CASE Lost
  BY <1>4 DEF Lost, Down, LoadInv, LoadedWhenConsistent
<1>5. CASE Restart
  BY <1>5 DEF Restart, Down, LoadInv, LoadedWhenConsistent
<1>6. CASE Connect
  BY <1>6 DEF Connect, LoadInv, LoadedWhenConsistent, Here, Unseen
<1>7. CASE AnalyzeCluster \/ \E v \in VMs : AnalyzeVM(v)
  <2>1. UNCHANGED <<source, told, session, consistent, unreported>>
    BY <1>7 DEF AnalyzeCluster, AnalyzeVM, history
  <2> QED
    BY <2>1 DEF LoadInv, LoadedWhenConsistent, Here
<1>8. CASE UNCHANGED mirrorVars
  BY <1>8 DEF mirrorVars, history, LoadInv, LoadedWhenConsistent, Here
<1> QED
  BY <1>2, <1>3, <1>4, <1>5, <1>6, <1>7, <1>8 DEF MirrorNext

(* In every reachable state, readers that are let in find every object     *)
(* reported that was there when the session began, however many update     *)
(* sets that took and whatever the source did meanwhile (getUpdates).      *)
THEOREM LoadedBeforeConsistent == MirrorSpec => []LoadedWhenConsistent
<1>1. MirrorInit => LoadInv
  BY DEF MirrorInit, LoadInv, LoadedWhenConsistent
<1>2. LoadInv => LoadedWhenConsistent
  BY DEF LoadInv
<1> QED
  BY InitHolds, StepKeeps, LoadKeeps, <1>1, <1>2, PTL DEF MirrorSpec

(***************************************************************************)
(* That no VM is forgotten by the analysis (AnalysisIsDue).  The property  *)
(* speaks of consistent mirrors only; what makes the watches find all that *)
(* is due when they start is kept at all times: a row whose revision was   *)
(* analyzed was judged as it is.                                           *)
(***************************************************************************)
RevisionsCount(r) ==
  r.here => /\ r.rev >= 1 /\ r.analyzed <= r.rev
            /\ r.analyzed = r.rev => r.judged = r.data

JudgedInv == (\A v \in VMs : RevisionsCount(db[v])) /\ AnalysisIsDue

AllInv == IInv /\ LoadInv /\ JudgedInv

(***************************************************************************)
(* The rows that change are due.                                           *)
(***************************************************************************)
(* A row that a commit writes counts, and is not analyzed. *)
LEMMA AppliedDue ==
  ASSUME MirrorTypeOK, ToldInv, NEW v \in VMs, v \in Changed, Modifies(v) => db[v].here,
         RevisionsCount(db[v])
  PROVE  /\ RevisionsCount(Applied(v))
         /\ Applied(v).here => Applied(v).analyzed # Applied(v).rev
<1>1. v \in Objects /\ v \notin Groups /\ db[v] \in DBRowType
  BY ObjectsAssumption DEF Objects, MirrorTypeOK
<1>2. CASE Enters(v)
  <2>1. Applied(v) = Entered(v)
    BY <1>2 DEF Applied, Enters, Leaves, Modifies
  <2> QED
    BY <2>1 DEF Entered, RevisionsCount
<1>3. CASE Leaves(v)
  <2>1. Applied(v) = Missing
    BY <1>1, <1>3 DEF Applied, Left, Enters, Leaves, Modifies
  <2> QED
    BY <2>1 DEF Missing, RevisionsCount
<1>4. CASE Modifies(v)
  <2>1. Applied(v) = Modified(v)
    BY <1>4 DEF Applied, Enters, Leaves, Modifies
  <2> DEFINE r == db[v]
             d == View(v).data
             vs == View(v).vms
             n == db[v].rev + 1
  <2>2. /\ r \in DBRowType /\ r.rev \in Nat /\ r.analyzed \in Nat /\ n \in Nat
        /\ n = r.rev + 1 /\ r.rev >= 1 /\ r.analyzed <= r.rev
    BY <1>1, <1>4 DEF DBRowType, RevisionsCount
  <2>3. Modified(v) = [r EXCEPT !.data = d, !.vms = vs, !.rev = n]
    BY Zenon DEF Modified
  <2> HIDE DEF r, d, vs, n
  <2>4. /\ [r EXCEPT !.data = d, !.vms = vs, !.rev = n].rev = n
        /\ [r EXCEPT !.data = d, !.vms = vs, !.rev = n].analyzed = r.analyzed
    BY <2>2 DEF DBRowType
  <2>5. Applied(v).rev = n /\ Applied(v).analyzed = r.analyzed
    BY <2>1, <2>3, <2>4
  <2> QED
    BY <2>2, <2>5 DEF RevisionsCount
<1> QED
  BY <1>2, <1>3, <1>4, ChangedCases

LEMMA ReceiveJudges ==
  ASSUME AllInv, NEW S \in SUBSET Objects, Receive(S)
  PROVE  JudgedInv'
<1>1. MirrorTypeOK /\ ToldInv /\ JudgedInv /\ S \subseteq Changed /\ VMs \subseteq Objects
  BY DEF AllInv, IInv, Receive, Objects
<1>2. Commit(S) \/ Rollback(S)
  BY DEF Receive
<1>3. \A v \in VMs : /\ RevisionsCount(db'[v])
                     /\ \/ db'[v] = db[v]
                        \/ v \in S /\ db' # db /\ (db'[v].here => v \in Unanalyzed(db'))
  <2> TAKE v \in VMs
  <2>1. CASE db'[v] = db[v]
    BY <1>1, <2>1 DEF JudgedInv
  <2>2. CASE db'[v] # db[v]
    <3>1. Commit(S) /\ v \in S /\ db'[v] = Applied(v)
      BY <1>1, <1>2, <2>2 DEF Commit, Rollback
    <3>2. RevisionsCount(Applied(v))
          /\ (Applied(v).here => Applied(v).analyzed # Applied(v).rev)
      BY <1>1, <3>1, AppliedDue DEF Commit, Applicable, JudgedInv
    <3> QED
      BY <2>2, <3>1, <3>2 DEF Unanalyzed
  <2> QED
    BY <2>1, <2>2
<1>4. UNCHANGED unjudged /\ Notify(S, S # Changed)
      /\ (consistent' = (consistent \/ ~(S # Changed)))
  BY DEF Receive
<1>5. AnalysisIsDue'
  <2> SUFFICES ASSUME consistent', NEW v \in VMs, v \notin vmEvents', v \notin unjudged',
                      db'[v].here
               PROVE  db'[v].judged = db'[v].data
    BY DEF AnalysisIsDue
  <2>1. CASE consistent
    <3>1. vmEvents' = vmEvents \cup (IF db' = db THEN {} ELSE S \cap Unanalyzed(db'))
      BY <1>4, <2>1 DEF Notify
    <3>2. db'[v] = db[v]
      BY <1>3, <3>1
    <3> QED
      BY <1>1, <1>4, <2>1, <3>1, <3>2 DEF JudgedInv, AnalysisIsDue
  <2>2. CASE ~consistent
    <3>1. vmEvents' = Unanalyzed(db')
      BY <1>4, <2>2 DEF Notify
    <3>2. db'[v].analyzed = db'[v].rev
      BY <3>1 DEF Unanalyzed
    <3> QED
      BY <1>3, <3>2 DEF RevisionsCount
  <2> QED
    BY <2>1, <2>2
<1> QED
  BY <1>3, <1>5 DEF JudgedInv

(***************************************************************************)
(* The analyses.                                                           *)
(***************************************************************************)
LEMMA AnalyzeVMJudges ==
  ASSUME AllInv, NEW v \in VMs, AnalyzeVM(v)
  PROVE  JudgedInv'
<1>1. MirrorTypeOK /\ JudgedInv /\ v \in Objects /\ VMs \subseteq Objects
  BY DEF AllInv, IInv, Objects
<1>2. vmEvents' = vmEvents \ {v} /\ UNCHANGED consistent
  BY DEF AnalyzeVM
<1>3. CASE /\ db' = db
           /\ \/ unjudged' = unjudged /\ ~db[v].here
              \/ unjudged' = unjudged \cup {v}
  BY <1>1, <1>2, <1>3 DEF JudgedInv, AnalysisIsDue
<1>4. CASE /\ db' = [db EXCEPT ![v].analyzed = db[v].rev, ![v].judged = db[v].data]
           /\ unjudged' = unjudged
  <2> DEFINE r == db[v]
             a == db[v].rev
             d == db[v].data
  <2>1. r \in DBRowType /\ a \in Nat /\ d \in Nat /\ a = r.rev /\ d = r.data
    BY <1>1 DEF MirrorTypeOK, DBRowType
  <2>2. db' = [db EXCEPT ![v] = [r EXCEPT !.analyzed = a, !.judged = d]]
    BY <1>1, <1>4 DEF MirrorTypeOK
  <2>3. db'[v] = [r EXCEPT !.analyzed = a, !.judged = d] /\ \A x \in VMs \ {v} : db'[x] = db[x]
    BY <1>1, <2>2 DEF MirrorTypeOK
  <2>4. RevisionsCount(r)
    BY <1>1 DEF JudgedInv
  <2> HIDE DEF r, a, d
  <2>5. LET m == [r EXCEPT !.analyzed = a, !.judged = d]
        IN  /\ m.here = r.here /\ m.data = r.data /\ m.rev = r.rev
            /\ m.analyzed = a /\ m.judged = d
    BY <2>1 DEF DBRowType
  <2>6. RevisionsCount(db'[v]) /\ db'[v].judged = db'[v].data
    BY <2>1, <2>3, <2>4, <2>5 DEF RevisionsCount
  <2> QED
    BY <1>1, <1>2, <1>4, <2>3, <2>6 DEF JudgedInv, AnalysisIsDue
<1> QED
  BY <1>3, <1>4 DEF AnalyzeVM

LEMMA AnalyzeClusterJudges ==
  ASSUME AllInv, AnalyzeCluster
  PROVE  JudgedInv'
<1> DEFINE listed == db["host"].vms
<1>1. MirrorTypeOK /\ JudgedInv /\ VMs \subseteq Objects
  BY DEF AllInv, IInv, Objects
<1>2. UNCHANGED <<consistent, unjudged>>
  BY DEF AnalyzeCluster, history
<1>3. CASE UNCHANGED <<db, vmEvents>>
  BY <1>1, <1>2, <1>3 DEF JudgedInv, AnalysisIsDue
<1>4. CASE /\ db' = [o \in Objects |->
                     IF o \in listed
                     THEN [db[o] EXCEPT !.analyzed = 0, !.judged = 0] ELSE db[o]]
           /\ vmEvents' = vmEvents \cup listed
  <2>1. \A v \in VMs \cap listed : RevisionsCount(db'[v])
    <3> TAKE v \in VMs \cap listed
    <3>1. db'[v] = [db[v] EXCEPT !.analyzed = 0, !.judged = 0]
      BY <1>1, <1>4
    <3>2. db[v] \in DBRowType /\ RevisionsCount(db[v])
      BY <1>1 DEF MirrorTypeOK, JudgedInv
    <3>3. /\ db'[v].here = db[v].here /\ db'[v].rev = db[v].rev
          /\ db'[v].analyzed = 0 /\ db[v].rev \in Nat
      BY <3>1, <3>2 DEF DBRowType
    <3> QED
      BY <3>2, <3>3 DEF RevisionsCount
  <2>2. \A v \in VMs \ listed : db'[v] = db[v]
    BY <1>1, <1>4
  <2> QED
    BY <1>1, <1>2, <1>4, <2>1, <2>2 DEF JudgedInv, AnalysisIsDue
<1> QED
  BY <1>3, <1>4 DEF AnalyzeCluster

(***************************************************************************)
(* The theorem.                                                            *)
(***************************************************************************)
LEMMA JudgedKeeps ==
  ASSUME AllInv, [MirrorNext]_mirrorVars
  PROVE  JudgedInv'
<1>1. CASE \E o \in Objects : Create(o) \/ Modify(o) \/ Destroy(o)
  BY <1>1 DEF Create, Modify, Destroy, SourceChanges, watchVars, AllInv, JudgedInv, AnalysisIsDue
<1>2. CASE Updates
  BY <1>2, ReceiveJudges DEF Updates
<1>3. CASE Lost
  BY <1>3 DEF Lost, Down, AllInv, JudgedInv, AnalysisIsDue
<1>4. CASE Restart
  <2>1. \A v \in VMs : db'[v] = Missing
    BY <1>4 DEF Restart, Objects
  <2>2. RevisionsCount(Missing) /\ consistent' = FALSE
    BY <1>4 DEF Restart, Down, RevisionsCount, Missing
  <2> QED
    BY <2>1, <2>2 DEF JudgedInv, AnalysisIsDue
<1>5. CASE Connect
  <2>1. ~consistent
    BY <1>5 DEF Connect, AllInv, LoadInv, LoadedWhenConsistent
  <2> QED
    BY <1>5, <2>1 DEF Connect, AllInv, JudgedInv, AnalysisIsDue
<1>6. CASE AnalyzeCluster
  BY <1>6, AnalyzeClusterJudges
<1>7. CASE \E v \in VMs : AnalyzeVM(v)
  BY <1>7, AnalyzeVMJudges
<1>8. CASE UNCHANGED mirrorVars
  BY <1>8 DEF mirrorVars, watchVars, history, AllInv, JudgedInv, AnalysisIsDue
<1> QED
  BY <1>1, <1>2, <1>3, <1>4, <1>5, <1>6, <1>7, <1>8 DEF MirrorNext

(* In every reachable state of a consistent mirror, a VM whose analysis is *)
(* not of its present row, or is to be repeated for its cluster, has an    *)
(* event waiting or an analysis that failed: the reconciler and the two    *)
(* watches lose none between them (watch, WatchVM, WatchCluster).          *)
THEOREM AnalysisIsAlwaysDue == MirrorSpec => []AnalysisIsDue
<1>1. MirrorInit => AllInv
  <2> SUFFICES ASSUME MirrorInit PROVE JudgedInv /\ LoadInv
    BY InitHolds DEF AllInv
  <2>1. \A v \in VMs : RevisionsCount(db[v])
    BY DEF MirrorInit, Objects, Missing, RevisionsCount
  <2> QED
    BY <2>1 DEF MirrorInit, JudgedInv, AnalysisIsDue, LoadInv, LoadedWhenConsistent
<1>2. AllInv /\ [MirrorNext]_mirrorVars => AllInv'
  BY StepKeeps, LoadKeeps, JudgedKeeps DEF AllInv
<1>3. AllInv => AnalysisIsDue
  BY DEF AllInv, JudgedInv
<1> QED
  BY <1>1, <1>2, <1>3, PTL DEF MirrorSpec
=============================================================================
