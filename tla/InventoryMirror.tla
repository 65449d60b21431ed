-------------------------- MODULE InventoryMirror --------------------------
(***************************************************************************)
(* The inventory of a vSphere provider (provider/container/vsphere): the   *)
(* reconciler mirrors the objects of the source in a DB, one transaction   *)
(* for each update set the property collector reports, and two watches     *)
(* analyze the VMs in transactions of their own.                           *)
(*                                                                         *)
(* A session starts with a collector that has reported nothing.  The DB    *)
(* outlives the session, not the process.  The source has one cluster with *)
(* one host, which lists the VMs.                                          *)
(***************************************************************************)
EXTENDS Naturals, FiniteSets

CONSTANTS
  VMs,              \* virtual machines
  Groups,           \* distributed port groups and switches
  MirrorFaults,     \* kinds of fault that may happen
  MaxMirrorFaults,  \* bound: how many faults in a behaviour
  MaxChanges        \* bound: how many changes of the source

MirrorFaultKinds == {"db", "connection", "restart"}

Fixed == {"cluster", "host"}

Objects == VMs \cup Groups \cup Fixed

ASSUME ObjectsAssumption == VMs \cap Groups = {} /\ (VMs \cup Groups) \cap Fixed = {}
ASSUME FaultsAssumption ==
  /\ MirrorFaults \subseteq MirrorFaultKinds
  /\ MaxMirrorFaults \in Nat /\ MaxChanges \in Nat

VARIABLES
  source,        \* the objects of the source
  told,          \* each object as the session's collector last reported it
  db,            \* the rows of the mirror; of a VM also the revision analyzed
                 \* and, as history, the data its analysis judged
  session,       \* "up" between a connect and the error that ends getUpdates
  consistent,    \* Reconciler.consistent; the watches live while it holds
  vmEvents,      \* VMs with an event that the VM watch has yet to handle
  clusterEvent,  \* the cluster watch has an event to handle
  missed,        \* objects of a set that was rolled back in this session
  unjudged,      \* VMs whose analysis an error ended in this session
  unreported,    \* objects that were there at the connect, not yet reported
  leftover,      \* rows that were there at the connect
  faults, changes

watchVars == <<vmEvents, clusterEvent>>
history == <<missed, unjudged, unreported, leftover>>
mirrorBounds == <<faults, changes>>
mirrorVars == <<source, told, db, session, consistent, watchVars, history, mirrorBounds>>

Unseen == [here |-> FALSE, data |-> 0, vms |-> {}]
Missing ==
  [here |-> FALSE, data |-> 0, vms |-> {}, rev |-> 0, analyzed |-> 0, judged |-> 0]

(***************************************************************************)
(* The source.  An object that is gone does not come back.                 *)
(***************************************************************************)
Here(o) == source[o].life = "here"

(* What the collector reports of an object at present.                     *)
View(o) ==
  IF Here(o)
  THEN [here |-> TRUE, data |-> source[o].data,
        vms |-> IF o = "host" THEN {v \in VMs : Here(v)} ELSE {}]
  ELSE Unseen

Changed == {o \in Objects : told[o] # View(o)}

SourceChanges(o, obj) ==
  /\ changes > 0 /\ changes' = changes - 1
  /\ source' = [source EXCEPT ![o] = obj]
  /\ UNCHANGED <<told, db, session, consistent, watchVars, missed, unjudged, leftover, faults>>

Create(o) ==
  /\ source[o].life = "coming"
  /\ SourceChanges(o, [life |-> "here", data |-> 1])
  /\ UNCHANGED unreported

Modify(o) ==
  /\ Here(o) /\ o # "host"
  /\ SourceChanges(o, [source[o] EXCEPT !.data = @ + 1])
  /\ UNCHANGED unreported

Destroy(o) ==
  /\ Here(o) /\ o \notin Fixed
  /\ SourceChanges(o, [source[o] EXCEPT !.life = "gone"])
  /\ unreported' = unreported \ {o}

(***************************************************************************)
(* One update set.                                                         *)
(***************************************************************************)
Enters(o) == ~told[o].here /\ View(o).here
Leaves(o) == told[o].here /\ ~View(o).here
Modifies(o) == told[o].here /\ View(o).here

(* Mutant of Entered: an insert leaves the row of an earlier session.      *)
EnteredOnce(o) ==
  IF db[o].here
  THEN db[o]
  ELSE [here |-> TRUE, data |-> View(o).data, vms |-> View(o).vms,
        rev |-> 1, analyzed |-> 0, judged |-> 0]

(* applyEnter: the row is inserted as new, or replaces one of an earlier   *)
(* session.                                                                *)
Entered(o) ==
  [here |-> TRUE, data |-> View(o).data, vms |-> View(o).vms,
   rev |-> 1, analyzed |-> 0, judged |-> 0]

(* Mutant of Modified: the revision stays.                                 *)
ModifiedSameRevision(o) == [db[o] EXCEPT !.data = View(o).data, !.vms = View(o).vms]

(* applyModify, through the adapter, with Base.Updated.                    *)
Modified(o) ==
  [db[o] EXCEPT !.data = View(o).data, !.vms = View(o).vms, !.rev = @ + 1]

(* applyLeave does not know of distributed port groups and switches.       *)
Left(o) == IF o \in Groups THEN db[o] ELSE Missing

Applied(o) ==
  CASE Enters(o) -> Entered(o)
    [] Leaves(o) -> Left(o)
    [] Modifies(o) -> Modified(o)

MirrorFault(kind) == kind \in MirrorFaults /\ faults > 0 /\ faults' = faults - 1

(* A row to be modified must be there.                                     *)
Applicable(S) == \A o \in S : Modifies(o) => db[o].here

(* A row to be deleted need not be: the library may call that an error.    *)
Doubtful(S) == \E o \in S \ Groups : Leaves(o) /\ ~db[o].here

Unanalyzed(rows) == {v \in VMs : rows[v].here /\ rows[v].analyzed # rows[v].rev}

Down ==
  /\ session' = "down"
  /\ consistent' = FALSE
  /\ vmEvents' = {} /\ clusterEvent' = FALSE

(* The transaction of an update set: all of it, or nothing.                *)
Commit(S) ==
  /\ Applicable(S)
  /\ db' = [o \in Objects |-> IF o \in S THEN Applied(o) ELSE db[o]]
  /\ UNCHANGED <<missed, faults>>

Rollback(S) ==
  /\ \/ ~Applicable(S) /\ UNCHANGED faults
     \/ Doubtful(S) /\ UNCHANGED faults
     \/ MirrorFault("db")
  /\ db' = db
  /\ missed' = missed \cup S

(* Mutant of Notify: the VM watch takes a row of any kind for a VM.        *)
NotifyWithoutCast(S, truncated) ==
  IF consistent
  THEN /\ vmEvents' = vmEvents \cup (IF db' = db THEN {} ELSE S \ (VMs \ Unanalyzed(db')))
       /\ clusterEvent' = (clusterEvent \/ (db' # db /\ "cluster" \in S))
  ELSE IF truncated
  THEN UNCHANGED watchVars
  ELSE vmEvents' = Unanalyzed(db') /\ clusterEvent' = db'["cluster"].here

(* The watches are started by the first update set that is not truncated:  *)
(* they are told of every row there is, then of the rows that change.      *)
Notify(S, truncated) ==
  IF consistent
  THEN /\ vmEvents' = vmEvents \cup (IF db' = db THEN {} ELSE S \cap Unanalyzed(db'))
       /\ clusterEvent' = (clusterEvent \/ (db' # db /\ "cluster" \in S))
  ELSE IF truncated
  THEN UNCHANGED watchVars
  ELSE vmEvents' = Unanalyzed(db') /\ clusterEvent' = db'["cluster"].here

(* Mutant of Receive: the first set makes the mirror consistent.           *)
ReceiveIgnoresTruncated(S) ==
  /\ session = "up"
  /\ S # {} /\ S \subseteq Changed
  /\ told' = [o \in Objects |-> IF o \in S THEN View(o) ELSE told[o]]
  /\ Commit(S) \/ Rollback(S)
  /\ consistent' = TRUE
  /\ Notify(S, FALSE)
  /\ unreported' = unreported \ S
  /\ UNCHANGED <<source, session, unjudged, leftover, changes>>

(* WaitForUpdatesEx, Begin, apply, Commit or End.  The session goes on     *)
(* from the next version, and may become consistent, whatever came of it.  *)
Receive(S) ==
  /\ session = "up"
  /\ S # {} /\ S \subseteq Changed
  /\ told' = [o \in Objects |-> IF o \in S THEN View(o) ELSE told[o]]
  /\ Commit(S) \/ Rollback(S)
  /\ LET truncated == S # Changed
     IN  /\ consistent' = (consistent \/ ~truncated)
         /\ Notify(S, truncated)
  /\ unreported' = unreported \ S
  /\ UNCHANGED <<source, session, unjudged, leftover, changes>>

(* The connection is lost, or Begin fails: getUpdates returns.             *)
Lost ==
  /\ session = "up"
  /\ MirrorFault("connection") \/ MirrorFault("db")
  /\ Down
  /\ UNCHANGED <<source, told, db, history, changes>>

(* Mutant of Connect: the collector resumes from the version of before.    *)
ConnectResumes ==
  /\ session = "down"
  /\ session' = "up"
  /\ missed' = {} /\ unjudged' = {}
  /\ unreported' = {o \in Objects : Here(o)}
  /\ leftover' = {o \in Objects : db[o].here}
  /\ UNCHANGED <<source, told, db, consistent, watchVars, mirrorBounds>>

(* getUpdates is called again and creates a new collector and filter.      *)
Connect ==
  /\ session = "down"
  /\ session' = "up"
  /\ told' = [o \in Objects |-> Unseen]
  /\ missed' = {} /\ unjudged' = {}
  /\ unreported' = {o \in Objects : Here(o)}
  /\ leftover' = {o \in Objects : db[o].here}
  /\ UNCHANGED <<source, db, consistent, watchVars, mirrorBounds>>

(* The process restarts: the DB of a provider is opened empty.             *)
Restart ==
  /\ MirrorFault("restart")
  /\ Down
  /\ db' = [o \in Objects |-> Missing]
  /\ UNCHANGED <<source, told, history, changes>>

(***************************************************************************)
(* The watches.                                                            *)
(***************************************************************************)
(* WatchVM.analyze reads the row again in its transaction.                 *)
AnalyzeVM(v) ==
  /\ v \in vmEvents
  /\ vmEvents' = vmEvents \ {v}
  /\ \/ /\ db' = IF db[v].here
                 THEN [db EXCEPT ![v].analyzed = db[v].rev, ![v].judged = db[v].data]
                 ELSE db
        /\ UNCHANGED <<unjudged, faults>>
     \/ MirrorFault("db") /\ unjudged' = unjudged \cup {v} /\ UNCHANGED db
  /\ UNCHANGED <<source, told, session, consistent, clusterEvent,
                 missed, unreported, leftover, changes>>

(* WatchCluster.analyze: every VM of the cluster is to be analyzed again,  *)
(* or none when a row on the way is missing.                               *)
AnalyzeCluster ==
  LET listed == db["host"].vms
      found == db["host"].here /\ \A v \in listed : db[v].here
  IN  /\ clusterEvent
      /\ clusterEvent' = FALSE
      /\ \/ /\ found
            /\ db' = [o \in Objects |->
                        IF o \in listed
                        THEN [db[o] EXCEPT !.analyzed = 0, !.judged = 0] ELSE db[o]]
            /\ vmEvents' = vmEvents \cup listed
            /\ UNCHANGED faults
         \/ ~found /\ UNCHANGED <<db, vmEvents, faults>>
         \/ MirrorFault("db") /\ UNCHANGED <<db, vmEvents>>
      /\ UNCHANGED <<source, told, session, consistent, history, changes>>

MirrorInit ==
  /\ source \in [Objects -> {[life |-> "coming", data |-> 0], [life |-> "here", data |-> 1]}]
  /\ \A o \in Fixed : Here(o)
  /\ told = [o \in Objects |-> Unseen]
  /\ db = [o \in Objects |-> Missing]
  /\ session = "down" /\ consistent = FALSE
  /\ vmEvents = {} /\ clusterEvent = FALSE
  /\ missed = {} /\ unjudged = {} /\ unreported = {} /\ leftover = {}
  /\ faults = MaxMirrorFaults /\ changes = MaxChanges

Updates == \E S \in SUBSET Objects : Receive(S)

MirrorNext ==
  \/ \E o \in Objects : Create(o) \/ Modify(o) \/ Destroy(o)
  \/ Updates \/ Lost \/ Connect \/ Restart
  \/ \E v \in VMs : AnalyzeVM(v)
  \/ AnalyzeCluster

MirrorSpec == MirrorInit /\ [][MirrorNext]_mirrorVars

(* The loop of Start runs until shutdown, and each watch has a goroutine.  *)
MirrorFairness ==
  /\ WF_mirrorVars(Connect) /\ WF_mirrorVars(Updates)
  /\ \A v \in VMs : WF_mirrorVars(AnalyzeVM(v))
  /\ WF_mirrorVars(AnalyzeCluster)

FairMirrorSpec == MirrorSpec /\ MirrorFairness

(***************************************************************************)
(* Properties.                                                             *)
(***************************************************************************)
ObjectType == [life : {"coming", "here", "gone"}, data : Nat]
RowType == [here : BOOLEAN, data : Nat, vms : SUBSET VMs]
DBRowType ==
  [here : BOOLEAN, data : Nat, vms : SUBSET VMs, rev : Nat, analyzed : Nat, judged : Nat]

(* Every variable has its type.                                            *)
MirrorTypeOK ==
  /\ source \in [Objects -> ObjectType]
  /\ told \in [Objects -> RowType]
  /\ db \in [Objects -> DBRowType]
  /\ session \in {"up", "down"} /\ consistent \in BOOLEAN
  /\ vmEvents \subseteq VMs /\ clusterEvent \in BOOLEAN
  /\ missed \subseteq Objects /\ unjudged \subseteq VMs
  /\ unreported \subseteq Objects /\ leftover \subseteq Objects
  /\ faults \in Nat /\ changes \in Nat

(* In a session, a row is what the collector last reported of its object,  *)
(* however analyses interleave; a row of an object not reported is one of  *)
(* an earlier session (apply, applyEnter, applyModify, applyLeave).        *)
MirrorAgrees ==
  session = "up" =>
    \A o \in Objects \ missed :
       /\ told[o].here =>
            db[o].here /\ db[o].data = told[o].data /\ db[o].vms = told[o].vms
       /\ ~told[o].here /\ db[o].here => o \in leftover \cup Groups

(* Readers are let in only when every object that was there when the       *)
(* session began has been reported (getUpdates, EnsureConsistency).        *)
LoadedWhenConsistent == consistent => session = "up" /\ unreported = {}

(* A VM whose analysis did not judge what its row says now, or that its     *)
(* cluster wants judged anew, has an event for it: neither the counting of  *)
(* revisions nor the reconciler's transactions, the start of the watches    *)
(* and the analysis of the cluster, in any order, lose one (Base.Updated,   *)
(* watch, WatchVM, WatchCluster).                                          *)
AnalysisIsDue ==
  consistent =>
    \A v \in VMs \ (vmEvents \cup unjudged) : db[v].here => db[v].judged = db[v].data

(* When the source is at rest the mirror has all of it, as it is.          *)
UpToDate == \A o \in Objects \ missed : Here(o) => db[o].here /\ db[o].data = View(o).data

MirrorConverges == <>[]UpToDate

(* "has consistency" (provider/container/vsphere/reconciler.go:239): once  *)
(* all is reported, no row is left of an object the source has not.        *)
NoGhosts ==
  consistent /\ Changed = {} /\ missed = {} => \A o \in Objects : db[o].here => Here(o)
=============================================================================
