--------------------------- MODULE PlanReferences ---------------------------
(***************************************************************************)
(* A plan lists a VM by its ID or by its name, and its statuses are found  *)
(* by ID: by begin when a Migration is executed (plan/migration.go), over  *)
(* several executions and with edits of the list.  The status of a VM that *)
(* is listed by name gets the ID when its import is built (buildImport     *)
(* looks up the reference in the status itself).  PlanController has the   *)
(* pass in detail, for VMs listed by ID.                                   *)
(***************************************************************************)
EXTENDS SequencesExt

CONSTANTS
  PlanVMs,        \* the VMs that a plan may list
  MaxEdits,       \* bound: edits of the list
  MaxExecutions   \* bound: Migrations of the plan

ASSUME ReferencesAssumption ==
  /\ PlanVMs # {} /\ IsFiniteSet(PlanVMs) /\ "unset" \notin PlanVMs
  /\ MaxEdits \in Nat /\ MaxExecutions \in Nat

VARIABLES
  listed,     \* Plan.Spec.VMs
  vms,        \* Plan.Status.Migration.VMs
  condition,  \* "None", "Executing", "Succeeded" or "Failed"
  asked,      \* the list as the execution began with it (history)
  anonymous,  \* it began with a status without an ID (history)
  migrated,   \* the VMs that were imported (history)
  edits, executions

referenceVars == <<listed, vms, condition, asked, anonymous, migrated, edits, executions>>

Unset == "unset"

Refs == UNION {{[vm |-> v, id |-> v], [vm |-> v, id |-> Unset]} : v \in PlanVMs}

(* DuplicateVM: a valid plan lists a VM once.                              *)
Lists ==
  {list \in UNION {[1..n -> Refs] : n \in 1..Cardinality(PlanVMs)} :
     \A j, k \in DOMAIN list : j # k => list[j].vm # list[k].vm}

(* A mutant of FindVM: what has no ID is anyone's.                         *)
FindVMOrAny(list, id) == SelectInSeq(list, LAMBDA x : x.id \in {id, Unset})

(* FindVM of the spec and of the status: the first of that ID, or 0.       *)
FindVM(list, id) == SelectInSeq(list, LAMBDA x : x.id = id)

NewStatus(ref) == [vm |-> ref.vm, id |-> ref.id, phase |-> "New", error |-> FALSE]

(***************************************************************************)
(* begin.                                                                  *)
(***************************************************************************)
(* Delete: each turn of the loop starts a list of its own.                 *)
Kept(statuses) ==
  IF statuses # <<>> /\ FindVM(listed, Last(statuses).id) # 0 THEN <<Last(statuses)>> ELSE <<>>

Renewed(status) ==
  IF status.phase # "Completed" \/ status.error
  THEN [status EXCEPT !.phase = "Started", !.error = FALSE] ELSE status

Current(kept, ref) ==
  LET k == FindVM(kept, ref.id) IN IF k = 0 THEN NewStatus(ref) ELSE kept[k]

(* Mutant of Added: the list is added to what is kept.                     *)
AddedTo(kept) == kept \o [k \in DOMAIN listed |-> Renewed(Current(kept, listed[k]))]

(* Add/Update.                                                             *)
Added(kept) == [k \in DOMAIN listed |-> Renewed(Current(kept, listed[k]))]

Begin ==
  /\ condition # "Executing" /\ executions > 0 /\ executions' = executions - 1
  /\ condition' = "Executing"
  /\ vms' = Added(Kept(vms))
  /\ asked' = listed
  /\ anonymous' = (FindVM(Kept(vms), Unset) # 0)
  /\ UNCHANGED <<listed, migrated, edits>>

(***************************************************************************)
(* The loop over the VMs.                                                  *)
(***************************************************************************)
Step(k, status) ==
  /\ condition = "Executing"
  /\ vms' = [vms EXCEPT ![k] = status]
  /\ UNCHANGED <<listed, condition, asked, anonymous, edits, executions>>

WithID(status) == [status EXCEPT !.id = status.vm]
InError(status) == [status EXCEPT !.phase = "Completed", !.error = TRUE]

(* EnsureSecret or EnsureImport fails: before the lookup, or after it.     *)
GivenUp(k) ==
  /\ vms[k].phase = "Started"
  /\ Step(k, InError(vms[k])) \/ Step(k, InError(WithID(vms[k])))
  /\ UNCHANGED migrated

ImportCreated(k) ==
  /\ vms[k].phase = "Started"
  /\ Step(k, [WithID(vms[k]) EXCEPT !.phase = "ImportCreated"])
  /\ UNCHANGED migrated

ImportEnds(k) ==
  /\ vms[k].phase = "ImportCreated"
  /\ \/ Step(k, InError(vms[k])) /\ UNCHANGED migrated
     \/ /\ Step(k, [vms[k] EXCEPT !.phase = "Completed"])
        /\ migrated' = migrated \cup {vms[k].vm}

Finished(k) == vms[k].phase = "Completed"

(* Mutant of FailedAt: the last VM decides.                                *)
FailedAtLast == IF Last(vms).error /\ \A k \in DOMAIN vms : Finished(k) THEN {Len(vms)} ELSE {}

(* The VM at which end stops, as all before it succeeded.                  *)
FailedAt ==
  {k \in DOMAIN vms : /\ vms[k].error
                      /\ \A j \in 1..(k - 1) : Finished(j) /\ ~vms[j].error}

End ==
  /\ condition = "Executing"
  /\ \/ FailedAt # {} /\ condition' = "Failed"
     \/ FailedAt = {} /\ (\A k \in DOMAIN vms : Finished(k)) /\ condition' = "Succeeded"
  /\ UNCHANGED <<listed, vms, asked, anonymous, migrated, edits, executions>>

(* The user edits the list, at any time.                                   *)
Edit(list) ==
  /\ edits > 0 /\ edits' = edits - 1 /\ list # listed
  /\ listed' = list
  /\ UNCHANGED <<vms, condition, asked, anonymous, migrated, executions>>

ReferencesInit ==
  /\ listed \in Lists
  /\ vms = <<>> /\ condition = "None" /\ asked = <<>> /\ anonymous = FALSE /\ migrated = {}
  /\ edits = MaxEdits /\ executions = MaxExecutions

ReferencesNext ==
  \/ Begin \/ End
  \/ \E k \in DOMAIN vms : GivenUp(k) \/ ImportCreated(k) \/ ImportEnds(k)
  \/ \E list \in Lists : Edit(list)

ReferencesSpec == ReferencesInit /\ [][ReferencesNext]_referenceVars

(***************************************************************************)
(* Properties.                                                             *)
(***************************************************************************)
StatusType ==
  [vm : PlanVMs, id : PlanVMs \cup {Unset}, phase : {"Started", "ImportCreated", "Completed"},
   error : BOOLEAN]

(* Every variable has its type, and each entry has a status.               *)
ReferencesTypeOK ==
  /\ listed \in Lists /\ asked \in Lists \cup {<<>>}
  /\ vms \in Seq(StatusType) /\ Len(vms) = Len(asked)
  /\ condition \in {"None", "Executing", "Succeeded", "Failed"}
  /\ anonymous \in BOOLEAN /\ migrated \subseteq PlanVMs
  /\ edits \in 0..MaxEdits /\ executions \in 0..MaxExecutions

(* A VM listed by its ID has its own status in each execution, whatever    *)
(* was listed by name before or beside it; so has one listed by name,      *)
(* unless a status is kept that never got its ID (begin, FindVM).          *)
FoundIsOwn ==
  \A k \in DOMAIN asked :
     asked[k].id # Unset \/ ~anonymous => vms[k].vm = asked[k].vm

(* A plan that succeeded has migrated all the VMs it lists by ID, in this  *)
(* execution or in an earlier one, and with no such status kept all it     *)
(* lists (begin, end).                                                     *)
SucceededMeansMigrated ==
  condition = "Succeeded" =>
    \A k \in DOMAIN asked : asked[k].id # Unset \/ ~anonymous => asked[k].vm \in migrated
=============================================================================
