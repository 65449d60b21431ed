--------------------------- MODULE PlanController ---------------------------
(***************************************************************************)
(* The execution of one Plan: the plan controller's reconcile pass         *)
(* (pkg/controller/plan), the migration controller that copies the plan's  *)
(* progress to the Migration CRs (pkg/controller/migration), the VM        *)
(* imports that run on the destination cluster, and the user.              *)
(*                                                                         *)
(* A pass works on a copy `w` of the plan fetched at its start, creates    *)
(* imports as it goes, and writes the copy back at its end; anything may   *)
(* happen between two of its steps.                                        *)
(***************************************************************************)
EXTENDS Naturals, Sequences, FiniteSets, Itinerary

CONSTANTS
  VMs,          \* VM ids of the source provider
  Migrations,   \* names of Migration CRs, numbered in name order from 1
  Specs,        \* plan specs the user may write: sequences of [vm, hook]
  MaxInFlight,  \* Settings.Migration.MaxInFlight
  Faults,       \* kinds of fault that may happen
  MaxFaults,    \* bound: how many faults in a behaviour
  SameSecond    \* may two migrations have the same creation timestamp?

FaultKinds == {"api", "crash", "edit", "delete", "provider", "import", "importDeleted"}

ASSUME MigrationsAssumption == Migrations \subseteq Nat \ {0}
ASSUME SpecsAssumption ==
  /\ Specs \subseteq Seq([vm : VMs, hook : Hooks])
  /\ \A s \in Specs : \A j, k \in DOMAIN s : s[j].vm = s[k].vm => j = k
ASSUME LimitsAssumption ==
  /\ MaxInFlight \in Nat \ {0}
  /\ MaxFaults \in Nat
  /\ Faults \subseteq FaultKinds
  /\ SameSecond \in BOOLEAN

VARIABLES
  spec,      \* Plan.Spec.VMs
  plan,      \* Plan.Status, as persisted
  mig,       \* the Migration CRs
  imports,   \* VirtualMachineImport CRs on the destination, by VM and migration
  migrated,  \* VMs that an import has brought to the destination (history)
  queued,    \* a reconcile request for the plan is due
  up,        \* the providers are ready and the inventory answers
  budget,    \* faults left
  clock,     \* seconds, as creation timestamps tell them apart
  pc,        \* "Idle", or "Run" inside Migration.Run
  w,         \* Plan.Status as this pass holds it; equal to plan when idle
  i,         \* next VM of the pass
  inFlight,  \* the pass's inFlight counter
  more,      \* len(list) > 1: other migrations are pending
  stale      \* the plan was written by someone else since the pass fetched it

passVars == <<pc, w, i, inFlight, more, stale>>
userVars == <<spec, clock>>
vars == <<spec, plan, mig, imports, migrated, queued, up, budget, clock,
          pc, w, i, inFlight, more, stale>>

NoMigration == 0
NoImport == [disks |-> FALSE, state |-> "absent"]
NewImport == [disks |-> FALSE, state |-> "running"]

PlanConds == {"Executing", "Succeeded", "Failed"}
MigConds == {"Running", "Succeeded", "Failed"}

VMStatus == [vm : VMs, hook : Hooks, pipeline : SUBSET Steps, done : SUBSET Steps,
             phase : Phases, started : BOOLEAN, completed : BOOLEAN, error : BOOLEAN]

PlanStatus == [conds : SUBSET PlanConds, ready : BOOLEAN, started : BOOLEAN,
               completed : BOOLEAN, active : Migrations \cup {NoMigration},
               vms : Seq(VMStatus)]

MigrationCR == [state : {"new", "present", "deleted"}, born : Nat,
                snapshot : {"none", "set", "null"}, started : BOOLEAN,
                completed : BOOLEAN, conds : SUBSET MigConds, vms : Seq(VMStatus)]

Import == [disks : BOOLEAN, state : {"absent", "running", "succeeded", "failed"}]

(***************************************************************************)
(* plan/timed.go, on the plan status, a VM status or a migration.          *)
(***************************************************************************)
MarkReset(t) == [t EXCEPT !.started = FALSE, !.completed = FALSE]

MarkStarted(t) ==
  IF t.started THEN t ELSE [t EXCEPT !.started = TRUE, !.completed = FALSE]

MarkCompleted(t) == [MarkStarted(t) EXCEPT !.completed = TRUE]

(***************************************************************************)
(* Which migration a pass works for.                                       *)
(***************************************************************************)
Pending == {m \in Migrations : mig[m].state = "present" /\ ~mig[m].completed}

(* Mutant of Precedes: the newest first.                                   *)
NewestFirst(a, b) ==
  \/ mig[a].born > mig[b].born
  \/ mig[a].born = mig[b].born /\ a < b

(* pendingMigrations: by creation timestamp, then by name.                 *)
Precedes(a, b) ==
  \/ mig[a].born < mig[b].born
  \/ mig[a].born = mig[b].born /\ a < b

First(m) == m \in Pending /\ \A n \in Pending \ {m} : Precedes(m, n)

(* Mutant of Prepared: the timestamps of the last execution are kept.      *)
PreparedNotReset(p, m) ==
  LET fresh == [p EXCEPT !.conds = @ \ {"Succeeded", "Failed"}]
  IN  [(IF mig[m].started THEN p ELSE fresh) EXCEPT !.active = m]

(* execute: a migration that has not been seen started begins from a clean *)
(* plan.  Executing is not deleted.                                        *)
Prepared(p, m) ==
  LET fresh == [MarkReset(p) EXCEPT !.conds = @ \ {"Succeeded", "Failed"}]
  IN  [(IF mig[m].started THEN p ELSE fresh) EXCEPT !.active = m]

(* plan.Referenced is populated only by a validation, and a plan that is   *)
(* executing is not validated.                                             *)
Referenced == "Executing" \notin plan.conds

(* execute: the snapshot is taken when the migration has none; a provider  *)
(* that is not referenced is recorded as null.                             *)
Snapshot(m) ==
  IF mig[m].snapshot # "none" THEN mig[m].snapshot
  ELSE IF Referenced THEN "set" ELSE "null"

(***************************************************************************)
(* begin().                                                                *)
(***************************************************************************)
InSpec(v, s) == \E k \in DOMAIN s : s[k].vm = v

(* The loop marked "Delete": `kept` is declared inside the loop, so what   *)
(* is left is what the last iteration kept.                                *)
Kept(vms, s) ==
  IF vms # <<>> /\ InSpec(vms[Len(vms)].vm, s) THEN <<vms[Len(vms)]>> ELSE <<>>

NewStatus(sv) ==
  [vm |-> sv.vm, hook |-> sv.hook, pipeline |-> BuildPipeline(sv.hook), done |-> {},
   phase |-> FirstPhase, started |-> FALSE, completed |-> FALSE, error |-> FALSE]

(* A found status is used as it is when it completed without error, else   *)
(* it is reset; it keeps the hook it was created with.                     *)
Restart(s, sv) ==
  IF s.phase # "Completed" \/ s.error
  THEN [MarkReset(s) EXCEPT !.pipeline = BuildPipeline(sv.hook), !.done = {},
                            !.phase = FirstPhase, !.error = FALSE]
  ELSE s

AddOrUpdate(kept, sv) ==
  IF InSpec(sv.vm, kept)
  THEN Restart(kept[CHOOSE k \in DOMAIN kept : kept[k].vm = sv.vm], sv)
  ELSE NewStatus(sv)

Begin(p, s) ==
  IF p.conds # {} THEN p
  ELSE [MarkStarted(p) EXCEPT
          !.conds = {"Executing"},
          !.vms = [k \in DOMAIN s |-> AddOrUpdate(Kept(p.vms, s), s[k])]]

(***************************************************************************)
(* updateVM(): a VM status against its import.                             *)
(***************************************************************************)
Finished(imp) == imp.state \in {"succeeded", "failed"}

(* updatePipeline: hook steps are never completed here.                    *)
UpdatePipeline(s, imp) ==
  LET seen == {st \in ImportSteps : \/ st = "DiskTransfer" /\ imp.disks
                                    \/ st = "ImageConversion" /\ Finished(imp)}
  IN  [s EXCEPT !.done = @ \cup seen,
                !.error = @ \/ (/\ imp.state = "failed"
                                /\ "ImageConversion" \notin s.done)]

ReflectPipeline(s) == IF s.done = s.pipeline THEN MarkCompleted(s) ELSE s

(* Mutant of UpdateVM: an import that is gone is taken for one that ended. *)
MissingIsDone(s, imp) ==
  LET t == ReflectPipeline(UpdatePipeline(s, imp))
  IN  CASE imp.state = "absent" -> [s EXCEPT !.phase = NextPhase(@, s.hook)]
        [] imp.state = "succeeded" -> [t EXCEPT !.phase = NextPhase(@, s.hook)]
        [] imp.state = "failed" -> [t EXCEPT !.error = TRUE, !.phase = "Completed"]
        [] OTHER -> t

UpdateVM(s, imp) ==
  LET t == ReflectPipeline(UpdatePipeline(s, imp))
  IN  CASE imp.state = "absent" -> [s EXCEPT !.error = TRUE]
        [] imp.state = "succeeded" -> [t EXCEPT !.phase = NextPhase(@, s.hook)]
        [] imp.state = "failed" -> [t EXCEPT !.error = TRUE, !.phase = "Completed"]
        [] OTHER -> t

(* The end of the loop body in Run: an errored VM goes to Completed.       *)
Settle(s) == IF s.error THEN [s EXCEPT !.phase = "Completed"] ELSE s

(***************************************************************************)
(* end(): the loop returns at the first VM that has not completed and      *)
(* breaks at the first that completed with an error.                       *)
(***************************************************************************)
Ended(vms) ==
  \A k \in DOMAIN vms :
     \/ vms[k].completed
     \/ \E j \in 1..(k - 1) : vms[j].completed /\ vms[j].error

(* Mutant of Outcome: the last VM decides.                                 *)
OutcomeOfLast(vms) ==
  IF vms # <<>> /\ vms[Len(vms)].error THEN "Failed" ELSE "Succeeded"

Outcome(vms) ==
  IF \E k \in DOMAIN vms : vms[k].completed /\ vms[k].error THEN "Failed" ELSE "Succeeded"

End(p) ==
  IF Ended(p.vms)
  THEN [MarkCompleted(p) EXCEPT !.conds = (@ \ {"Executing"}) \cup {Outcome(p.vms)}]
  ELSE p

(***************************************************************************)
(* The initial state: a plan just created by the user.                     *)
(***************************************************************************)
NewPlan == [conds |-> {}, ready |-> FALSE, started |-> FALSE, completed |-> FALSE,
            active |-> NoMigration, vms |-> <<>>]

NewMigration == [state |-> "new", born |-> 0, snapshot |-> "none", started |-> FALSE,
                 completed |-> FALSE, conds |-> {}, vms |-> <<>>]

Init ==
  /\ spec \in Specs
  /\ plan = NewPlan
  /\ mig = [m \in Migrations |-> NewMigration]
  /\ imports = [v \in VMs |-> [m \in Migrations |-> NoImport]]
  /\ migrated = {}
  /\ queued = TRUE
  /\ up = TRUE
  /\ budget = MaxFaults
  /\ clock = 1
  /\ pc = "Idle" /\ w = NewPlan /\ i = 1 /\ inFlight = 0
  /\ more = FALSE /\ stale = FALSE

Fault(kind) == kind \in Faults /\ budget > 0 /\ budget' = budget - 1

(***************************************************************************)
(* The plan controller.  A reconcile up to the loop over the VMs is one    *)
(* step: between the fetch and the loop it reads the migrations and writes *)
(* only the Ready condition and the snapshot.                              *)
(***************************************************************************)
Idle(p) == pc' = "Idle" /\ w' = p /\ i' = 1 /\ inFlight' = 0 /\ more' = FALSE /\ stale' = FALSE

ReadyPlan == [plan EXCEPT !.ready = TRUE]

(* A plan that is executing is never found invalid.                        *)
Valid == up \/ "Executing" \in plan.conds

ReconcileBlocked ==
  /\ pc = "Idle" /\ queued /\ ~Valid
  /\ queued' = FALSE
  /\ plan' = [plan EXCEPT !.ready = FALSE]
  /\ Idle(plan')
  /\ UNCHANGED <<userVars, mig, imports, migrated, up, budget>>

ReconcileNothing ==
  /\ pc = "Idle" /\ queued /\ Valid
  /\ Pending = {}
  /\ queued' = FALSE
  /\ plan' = ReadyPlan
  /\ Idle(plan')
  /\ UNCHANGED <<userVars, mig, imports, migrated, up, budget>>

ReconcileRun(m) ==
  /\ pc = "Idle" /\ queued /\ Valid
  /\ First(m)
  /\ Snapshot(m) = "set"
  /\ queued' = FALSE
  /\ plan' = ReadyPlan
  /\ mig' = [mig EXCEPT ![m].snapshot = "set"]
  /\ pc' = "Run"
  /\ w' = Begin(Prepared(ReadyPlan, m), spec)
  /\ i' = 1 /\ inFlight' = 0 /\ stale' = FALSE
  /\ more' = (Pending # {m})
  /\ UNCHANGED <<userVars, imports, migrated, up, budget>>

(* The context cannot be built from a null snapshot; loading the builder,  *)
(* creating the namespace or building a pipeline may fail.  The snapshot   *)
(* has been written, the rest of the pass has not.                         *)
ReconcileFails(m) ==
  /\ pc = "Idle" /\ queued /\ Valid
  /\ First(m)
  /\ \/ Snapshot(m) = "null" /\ UNCHANGED budget
     \/ ~up /\ UNCHANGED budget
     \/ Fault("api")
  /\ queued' = TRUE
  /\ plan' = ReadyPlan
  /\ mig' = [mig EXCEPT ![m].snapshot = Snapshot(m)]
  /\ Idle(plan')
  /\ UNCHANGED <<userVars, imports, migrated, up>>

(* The pass returns early with an error: nothing of it is persisted.       *)
Abort ==
  /\ queued' = TRUE
  /\ Idle(plan)
  /\ UNCHANGED <<userVars, plan, mig, imports, migrated, up>>

(* One iteration of the loop in Run.                                       *)
InLoop == pc = "Run" /\ i <= Len(w.vms)

(* Mutant of Full: one VM more.                                            *)
FullTooLate == inFlight > MaxInFlight + 1

Full == inFlight > MaxInFlight

Admitted(phases) == InLoop /\ ~w.vms[i].completed /\ ~Full /\ w.vms[i].phase \in phases

LeaveVM(s, n) ==
  /\ w' = [w EXCEPT !.vms[i] = Settle(s)]
  /\ i' = i + 1
  /\ inFlight' = n
  /\ UNCHANGED <<userVars, plan, mig, migrated, queued, up, pc, more, stale>>

SkipCompleted ==
  /\ InLoop /\ w.vms[i].completed
  /\ i' = i + 1
  /\ UNCHANGED <<userVars, plan, mig, imports, migrated, queued, up, budget,
                 pc, w, inFlight, more, stale>>

BreakAtLimit ==
  /\ InLoop /\ ~w.vms[i].completed /\ Full
  /\ i' = Len(w.vms) + 1
  /\ UNCHANGED <<userVars, plan, mig, imports, migrated, queued, up, budget,
                 pc, w, inFlight, more, stale>>

RunStarted ==
  /\ Admitted({"Started"})
  /\ LET s == w.vms[i]
     IN  LeaveVM([MarkStarted(s) EXCEPT !.phase = NextPhase(@, s.hook)], inFlight + 1)
  /\ UNCHANGED <<imports, budget>>

RunHook ==
  /\ Admitted({"CreatePreHook", "PreHookCreated", "CreatePostHook", "PostHookCreated"})
  /\ LET s == w.vms[i]
     IN  LeaveVM([s EXCEPT !.phase = NextPhase(@, s.hook)], inFlight + 1)
  /\ UNCHANGED <<imports, budget>>

SetImport(v, m, imp) == imports' = [imports EXCEPT ![v][m] = imp]

(* EnsureSecret, EnsureImport, SetSecretOwner.  ensureObject deletes an    *)
(* import of the same name and creates it anew.                            *)
RunCreateImport ==
  /\ Admitted({"CreateImport"})
  /\ up
  /\ LET s == w.vms[i]
     IN  /\ SetImport(s.vm, w.active, NewImport)
         /\ LeaveVM([s EXCEPT !.phase = NextPhase(@, s.hook)], inFlight + 1)
  /\ UNCHANGED budget

(* Mutant of RunCreateImportError: the error is dropped and the VM goes on. *)
CreateImportErrorDropped ==
  /\ Admitted({"CreateImport"})
  /\ LET s == w.vms[i]
         old == imports[s.vm][w.active]
     IN  /\ Fault("api")
         /\ \E imp \in {old, NoImport, NewImport} : SetImport(s.vm, w.active, imp)
         /\ LeaveVM([s EXCEPT !.phase = NextPhase(@, s.hook)], inFlight + 1)

(* One of the three calls fails: before the import is touched, after it    *)
(* was deleted, or after it was created.  Without a fault, the three       *)
(* retries of ensureObject end before an import being deleted is gone.     *)
RunCreateImportError ==
  /\ Admitted({"CreateImport"})
  /\ LET s == w.vms[i]
         old == imports[s.vm][w.active]
     IN  /\ \/ /\ Fault("api")
               /\ \E imp \in {old, NoImport, NewImport} : SetImport(s.vm, w.active, imp)
            \/ /\ old # NoImport
               /\ SetImport(s.vm, w.active, NoImport)
               /\ UNCHANGED budget
         /\ LeaveVM([s EXCEPT !.error = TRUE], inFlight + 1)

(* ProviderNotReadyError: the whole pass returns.                          *)
RunProviderNotReady ==
  /\ Admitted({"CreateImport"})
  /\ ~up
  /\ Abort
  /\ UNCHANGED budget

RunImportCreated ==
  /\ Admitted({"ImportCreated"})
  /\ LET s == w.vms[i]
     IN  LeaveVM(UpdateVM(s, imports[s.vm][w.active]), inFlight + 1)
  /\ UNCHANGED <<imports, budget>>

(* The imports cannot be listed.                                           *)
RunListFails ==
  /\ Admitted({"ImportCreated"})
  /\ Fault("api")
  /\ Abort

(* Mutant of RunCompleted: the VM gives back a place it does not hold.     *)
RunCompletedGivesBack ==
  /\ Admitted({"Completed"})
  /\ LeaveVM(MarkCompleted(w.vms[i]), inFlight - 1)
  /\ UNCHANGED <<imports, budget>>

RunCompleted ==
  /\ Admitted({"Completed"})
  /\ LeaveVM(MarkCompleted(w.vms[i]), inFlight)
  /\ UNCHANGED <<imports, budget>>

(* Mutant of Finish: no requeue while VMs are migrating.                   *)
FinishOnce ==
  /\ pc = "Run" /\ i > Len(w.vms)
  /\ plan' = IF stale THEN plan ELSE End(w)
  /\ queued' = (queued \/ stale \/ more)
  /\ Idle(plan')
  /\ UNCHANGED <<userVars, mig, imports, migrated, up, budget>>

(* end() and the status update, which conflicts when the plan was written  *)
(* since it was fetched.                                                   *)
Finish ==
  /\ pc = "Run" /\ i > Len(w.vms)
  /\ plan' = IF stale THEN plan ELSE End(w)
  /\ queued' = (queued \/ stale \/ ~Ended(w.vms) \/ more)
  /\ Idle(plan')
  /\ UNCHANGED <<userVars, mig, imports, migrated, up, budget>>

(* The controller is restarted: every plan is reconciled again.            *)
Crash ==
  /\ pc = "Run"
  /\ Fault("crash")
  /\ Abort

RunVM ==
  \/ SkipCompleted \/ BreakAtLimit
  \/ RunStarted \/ RunHook
  \/ RunCreateImport \/ RunCreateImportError \/ RunProviderNotReady
  \/ RunImportCreated \/ RunListFails
  \/ RunCompleted

Pass ==
  \/ ReconcileBlocked \/ ReconcileNothing
  \/ \E m \in Migrations : ReconcileRun(m) \/ ReconcileFails(m)
  \/ RunVM
  \/ Finish

(***************************************************************************)
(* The migration controller.                                               *)
(***************************************************************************)
(* reflectPlan: what a migration's status becomes.  Running is not         *)
(* durable, the outcomes are.                                              *)
Reflected(m) ==
  LET cr == [mig[m] EXCEPT !.conds = @ \ {"Running"}]
      running == IF "Executing" \in plan.conds THEN {"Running"} ELSE {}
  IN  IF ~plan.ready \/ plan.active # m THEN cr
      ELSE [cr EXCEPT !.started = plan.started, !.completed = plan.completed,
                      !.vms = plan.vms,
                      !.conds = @ \cup running \cup (plan.conds \ {"Executing"})]

(* Mutant of Reflect: a completed migration is not left alone.             *)
ReflectAlways(m) ==
  /\ mig[m].state = "present"
  /\ Reflected(m) # mig[m]
  /\ mig' = [mig EXCEPT ![m] = Reflected(m)]
  /\ UNCHANGED <<userVars, plan, imports, migrated, queued, up, budget, passVars>>

Reflect(m) ==
  /\ m \in Pending
  /\ Reflected(m) # mig[m]
  /\ mig' = [mig EXCEPT ![m] = Reflected(m)]
  /\ UNCHANGED <<userVars, plan, imports, migrated, queued, up, budget, passVars>>

(***************************************************************************)
(* The user, the providers and the imports.                                *)
(***************************************************************************)
CreateMigration(m) ==
  /\ mig[m].state = "new"
  /\ mig' = [mig EXCEPT ![m].state = "present", ![m].born = clock]
  /\ clock' \in {clock + 1} \cup (IF SameSecond THEN {clock} ELSE {})
  /\ queued' = TRUE
  /\ UNCHANGED <<spec, plan, imports, migrated, up, budget, passVars>>

(* MigrationPredicate.Delete: the plan is reconciled if it had started.    *)
DeleteMigration(m) ==
  /\ Fault("delete")
  /\ mig[m].state = "present"
  /\ mig' = [mig EXCEPT ![m].state = "deleted"]
  /\ queued' = (queued \/ mig[m].started)
  /\ UNCHANGED <<userVars, plan, imports, migrated, up, passVars>>

EditPlan ==
  /\ Fault("edit")
  /\ spec' \in Specs \ {spec}
  /\ queued' = TRUE
  /\ stale' = (pc = "Run")
  /\ UNCHANGED <<plan, mig, imports, migrated, up, clock, pc, w, i, inFlight, more>>

ProviderDown ==
  /\ Fault("provider")
  /\ up /\ up' = FALSE
  /\ UNCHANGED <<userVars, plan, mig, imports, migrated, queued, passVars>>

(* ProviderPredicate.Update: the plans of a reconciled provider are queued, *)
(* whatever changed.                                                       *)
ProviderReconciled ==
  /\ Fault("provider")
  /\ ~queued /\ queued' = TRUE
  /\ UNCHANGED <<userVars, plan, mig, imports, migrated, up, passVars>>

ProviderUp ==
  /\ ~up /\ up' = TRUE
  /\ queued' = TRUE
  /\ UNCHANGED <<userVars, plan, mig, imports, migrated, budget, passVars>>

ImportDisks(v, m) ==
  /\ imports[v][m] = NewImport
  /\ SetImport(v, m, [NewImport EXCEPT !.disks = TRUE])
  /\ UNCHANGED <<userVars, plan, mig, migrated, queued, up, budget, passVars>>

(* The Data Volumes need not report Ready before the import ends.          *)
ImportSucceeds(v, m) ==
  /\ imports[v][m].state = "running"
  /\ imports' = [imports EXCEPT ![v][m].state = "succeeded"]
  /\ migrated' = migrated \cup {v}
  /\ UNCHANGED <<userVars, plan, mig, queued, up, budget, passVars>>

ImportFails(v, m) ==
  /\ Fault("import")
  /\ imports[v][m].state = "running"
  /\ imports' = [imports EXCEPT ![v][m].state = "failed"]
  /\ UNCHANGED <<userVars, plan, mig, migrated, queued, up, passVars>>

ImportDeleted(v, m) ==
  /\ Fault("importDeleted")
  /\ imports[v][m] # NoImport
  /\ SetImport(v, m, NoImport)
  /\ UNCHANGED <<userVars, plan, mig, migrated, queued, up, passVars>>

User == EditPlan \/ \E m \in Migrations : CreateMigration(m) \/ DeleteMigration(m)

Provider == ProviderDown \/ ProviderReconciled \/ ProviderUp

ImportNext(v, m) ==
  ImportDisks(v, m) \/ ImportSucceeds(v, m) \/ ImportFails(v, m) \/ ImportDeleted(v, m)

Next ==
  \/ Pass
  \/ Crash
  \/ \E m \in Migrations : Reflect(m)
  \/ User
  \/ Provider
  \/ \E v \in VMs, m \in Migrations : ImportNext(v, m)

Spec == Init /\ [][Next]_vars

(* Requests are served, the migration controller is told of every change   *)
(* of the plan, providers come back and an import ends one way or another. *)
Fairness ==
  /\ WF_vars(Pass)
  /\ WF_vars(ProviderUp)
  /\ \A m \in Migrations : WF_vars(Reflect(m))
  /\ \A v \in VMs, m \in Migrations : WF_vars(ImportSucceeds(v, m))

FairSpec == Spec /\ Fairness

(***************************************************************************)
(* Properties.                                                             *)
(***************************************************************************)
ObjectTypes ==
  /\ spec \in Specs
  /\ plan \in PlanStatus
  /\ mig \in [Migrations -> MigrationCR]
  /\ imports \in [VMs -> [Migrations -> Import]]
  /\ migrated \subseteq VMs

ControlTypes ==
  /\ queued \in BOOLEAN /\ up \in BOOLEAN
  /\ budget \in Nat /\ clock \in Nat

PassTypes ==
  /\ pc \in {"Idle", "Run"}
  /\ w \in PlanStatus
  /\ i \in Nat \ {0} /\ inFlight \in Nat
  /\ more \in BOOLEAN /\ stale \in BOOLEAN

(* Every variable has its type, whatever the pass has created or lost.     *)
TypeOK == ObjectTypes /\ ControlTypes /\ PassTypes

Statuses(vms) == {vms[k] : k \in DOMAIN vms}

(* A VM reported as completed without an error was imported: its import    *)
(* reported success under some migration (updateVM, begin, end).           *)
SuccessIsReal ==
  \A s \in Statuses(plan.vms) \cup Statuses(w.vms) :
     s.completed /\ ~s.error => s.vm \in migrated

(* The outcome of a plan is one of three and agrees with its VMs: a plan   *)
(* that Succeeded has only VMs completed without error, one that Failed    *)
(* has a VM that completed with an error (end).                            *)
OutcomeAgrees ==
  /\ plan.conds \in {{}, {"Executing"}, {"Succeeded"}, {"Failed"}}
  /\ "Succeeded" \in plan.conds =>
       \A s \in Statuses(plan.vms) : s.completed /\ ~s.error
  /\ "Failed" \in plan.conds =>
       \E s \in Statuses(plan.vms) : s.completed /\ s.error
  /\ plan.completed <=> plan.conds \cap {"Succeeded", "Failed"} # {}

(* The VMs on their way never exceed the limit by more than one. "Max VMs  *)
(* in-flight." (pkg/settings/migration.go:14) promises the limit itself,   *)
(* which Run does not keep (WithinLimit of PlanClaims): it tests with >    *)
(* before it counts, and admits one VM more.                               *)
Working(vms) ==
  {k \in DOMAIN vms : vms[k].started /\ ~vms[k].completed /\ vms[k].phase # "Completed"}

InFlightBound == Cardinality(Working(plan.vms)) <= MaxInFlight + 1

(* A VM that waits for its import has one, under the active migration: the *)
(* status written last and the imports on the other cluster agree whatever *)
(* pass was lost (execute, EnsureImport, ListImports).                     *)
ImportBacksPhase ==
  \A s \in Statuses(plan.vms) :
     s.phase = "ImportCreated" =>
       /\ plan.active # NoMigration
       /\ imports[s.vm][plan.active] # NoImport

(* A Migration CR that has ended tells the truth about its own VMs, even   *)
(* when the plan has moved on (reflectPlan).                               *)
MigrationOutcomeReal ==
  \A m \in Migrations : mig[m].completed =>
     /\ mig[m].conds \in {{"Succeeded"}, {"Failed"}}
     /\ mig[m].conds = {"Succeeded"} =>
          \A s \in Statuses(mig[m].vms) : s.completed /\ ~s.error /\ s.vm \in migrated
     /\ mig[m].conds = {"Failed"} =>
          \E s \in Statuses(mig[m].vms) : s.completed /\ s.error

(* The record of a migration that has ended never changes, not even while  *)
(* its plan is executed again (Reconcile of the migration controller).     *)
EndedIsFrozen ==
  [][\A m \in Migrations : mig[m].completed =>
        /\ mig'[m].completed
        /\ mig'[m].conds = mig[m].conds
        /\ mig'[m].vms = mig[m].vms]_vars

(* Every migration that is created ends, whatever the bounded number of    *)
(* crashes, errors, edits and outages.                                     *)
EveryMigrationEnds ==
  \A m \in Migrations : (mig[m].state = "present") ~> mig[m].completed

(* What the user sees of a migration.                                      *)
LifecycleState(m) ==
  CASE mig[m].state = "new" -> "New"
    [] mig[m].state = "deleted" -> "Deleted"
    [] m \in Pending -> IF plan.active = m THEN "Running" ELSE "Pending"
    [] OTHER -> IF "Failed" \in mig[m].conds THEN "Failed" ELSE "Succeeded"

Lifecycle == INSTANCE MigrationLifecycle
  WITH state <- [m \in Migrations |-> LifecycleState(m)],
       turn <- [m \in Migrations |-> mig[m].born]

(* Migrations are executed one at a time, the oldest pending one first, and *)
(* each ends once with an outcome that stays (pendingMigrations, execute,  *)
(* reflectPlan).                                                           *)
ImplementsLifecycle == Lifecycle!Spec
=============================================================================
