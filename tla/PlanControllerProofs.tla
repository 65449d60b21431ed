------------------------ MODULE PlanControllerProofs ------------------------
(***************************************************************************)
(* Theorems about PlanController, for every set of VMs, migrations, plan   *)
(* specs, limit and number of faults: that it is well typed, and that a    *)
(* plan, its VMs and its migrations report success only when there was     *)
(* success.                                                                *)
(***************************************************************************)
EXTENDS PlanController, TLAPS

(***************************************************************************)
(* The operators of a pass return statuses.                                *)
(***************************************************************************)
LEMMA NextPhaseType == \A phase, hook : NextPhase(phase, hook) \in Phases
BY DEF NextPhase, Phases

LEMMA TimedType ==
  /\ \A s \in VMStatus : MarkReset(s) \in VMStatus /\ MarkCompleted(s) \in VMStatus
                         /\ MarkStarted(s) \in VMStatus
  /\ \A p \in PlanStatus : MarkReset(p) \in PlanStatus /\ MarkCompleted(p) \in PlanStatus
                           /\ MarkStarted(p) \in PlanStatus
BY DEF MarkReset, MarkStarted, MarkCompleted, VMStatus, PlanStatus

LEMMA SpecType ==
  ASSUME NEW s \in Specs
  PROVE  /\ s \in Seq([vm : VMs, hook : Hooks])
         /\ DOMAIN s = 1..Len(s) /\ Len(s) \in Nat
         /\ \A k \in DOMAIN s : s[k] \in [vm : VMs, hook : Hooks]
<1> DEFINE T == [vm : VMs, hook : Hooks]
<1>1. s \in Seq(T)
  BY SpecsAssumption
<1> HIDE DEF T
<1>2. DOMAIN s = 1..Len(s) /\ Len(s) \in Nat /\ \A k \in DOMAIN s : s[k] \in T
  BY <1>1
<1> QED
  BY <1>1, <1>2 DEF T

LEMMA NewStatusType ==
  ASSUME NEW sv \in [vm : VMs, hook : Hooks]
  PROVE  NewStatus(sv) \in VMStatus
BY DEF NewStatus, VMStatus, BuildPipeline, Steps, Hooks, FirstPhase, Phases

LEMMA RestartType ==
  ASSUME NEW s \in VMStatus, NEW sv \in [vm : VMs, hook : Hooks]
  PROVE  Restart(s, sv) \in VMStatus
BY DEF Restart, MarkReset, VMStatus, BuildPipeline, Steps, Hooks, FirstPhase, Phases

LEMMA KeptType ==
  ASSUME NEW vms \in Seq(VMStatus), NEW s
  PROVE  /\ Kept(vms, s) \in Seq(VMStatus)
         /\ \A k \in DOMAIN Kept(vms, s) : \E j \in DOMAIN vms : Kept(vms, s)[k] = vms[j]
<1>1. CASE vms # <<>> /\ InSpec(vms[Len(vms)].vm, s)
  <2>1. Len(vms) \in DOMAIN vms /\ vms[Len(vms)] \in VMStatus
    BY <1>1
  <2> QED
    BY <1>1, <2>1 DEF Kept
<1>2. CASE ~(vms # <<>> /\ InSpec(vms[Len(vms)].vm, s))
  BY <1>2 DEF Kept
<1> QED
  BY <1>1, <1>2

(* What begin() lists for a VM: a new status, or a kept one restarted.     *)
LEMMA AddOrUpdateCases ==
  ASSUME NEW vms \in Seq(VMStatus), NEW s, NEW sv
  PROVE  \/ AddOrUpdate(Kept(vms, s), sv) = NewStatus(sv)
         \/ \E j \in DOMAIN vms : AddOrUpdate(Kept(vms, s), sv) = Restart(vms[j], sv)
<1> DEFINE kept == Kept(vms, s)
           k == CHOOSE l \in DOMAIN kept : kept[l].vm = sv.vm
<1>1. CASE InSpec(sv.vm, kept)
  <2>1. k \in DOMAIN kept
    BY <1>1 DEF InSpec
  <2>2. \A l \in DOMAIN kept : \E j \in DOMAIN vms : kept[l] = vms[j]
    BY KeptType
  <2> HIDE DEF k, kept
  <2>3. PICK j \in DOMAIN vms : kept[k] = vms[j]
    BY <2>1, <2>2
  <2> USE DEF k, kept
  <2> QED
    BY <1>1, <2>3 DEF AddOrUpdate
<1>2. CASE ~InSpec(sv.vm, kept)
  BY <1>2 DEF AddOrUpdate
<1> QED
  BY <1>1, <1>2

LEMMA BeginType ==
  ASSUME NEW p \in PlanStatus, NEW s \in Specs
  PROVE  Begin(p, s) \in PlanStatus
<1>1. CASE p.conds # {}
  BY <1>1 DEF Begin
<1>2. CASE p.conds = {}
  <2> DEFINE list == [k \in DOMAIN s |-> AddOrUpdate(Kept(p.vms, s), s[k])]
  <2>1. p.vms \in Seq(VMStatus)
    BY DEF PlanStatus
  <2>2. \A k \in DOMAIN s : AddOrUpdate(Kept(p.vms, s), s[k]) \in VMStatus
    <3> TAKE k \in DOMAIN s
    <3>1. s[k] \in [vm : VMs, hook : Hooks]
      BY SpecType
    <3>2. \A j \in DOMAIN p.vms : p.vms[j] \in VMStatus
      BY <2>1
    <3> QED
      BY <2>1, <3>1, <3>2, AddOrUpdateCases, NewStatusType, RestartType
  <2>3. list \in Seq(VMStatus)
    BY <2>2, SpecType
  <2>4. MarkStarted(p) \in PlanStatus
    BY TimedType
  <2>5. Begin(p, s) = [MarkStarted(p) EXCEPT !.conds = {"Executing"}, !.vms = list]
    BY <1>2 DEF Begin
  <2> HIDE DEF list
  <2> QED
    BY <2>3, <2>4, <2>5 DEF PlanStatus, PlanConds
<1> QED
  BY <1>1, <1>2

LEMMA UpdateVMType ==
  ASSUME NEW s \in VMStatus, NEW imp \in Import
  PROVE  UpdateVM(s, imp) \in VMStatus
<1>1. UpdatePipeline(s, imp) \in VMStatus
  BY DEF UpdatePipeline, VMStatus, Steps, ImportSteps
<1>2. ReflectPipeline(UpdatePipeline(s, imp)) \in VMStatus
  BY <1>1, TimedType DEF ReflectPipeline
<1> QED
  BY <1>2, NextPhaseType DEF UpdateVM, VMStatus, Import, Phases

LEMMA SettleType ==
  ASSUME NEW s \in VMStatus
  PROVE  Settle(s) \in VMStatus
BY DEF Settle, VMStatus, Phases

LEMMA EndType ==
  ASSUME NEW p \in PlanStatus
  PROVE  End(p) \in PlanStatus
BY TimedType DEF End, Outcome, PlanStatus, PlanConds

LEMMA PreparedType ==
  ASSUME NEW p \in PlanStatus, NEW m \in Migrations
  PROVE  Prepared(p, m) \in PlanStatus
BY TimedType DEF Prepared, PlanStatus, PlanConds

(* A pass in the loop works for a migration.                               *)
RunIsActive == pc = "Run" => w.active \in Migrations

LEMMA ReplaceVMType ==
  ASSUME NEW p \in PlanStatus, NEW k \in DOMAIN p.vms, NEW s \in VMStatus
  PROVE  [p EXCEPT !.vms[k] = s] \in PlanStatus
<1>1. p.vms \in Seq(VMStatus)
  BY DEF PlanStatus
<1>2. [p.vms EXCEPT ![k] = s] \in Seq(VMStatus)
  BY <1>1
<1> QED
  BY <1>2 DEF PlanStatus

LEMMA ReadyPlanType == TypeOK => ReadyPlan \in PlanStatus
BY DEF TypeOK, ObjectTypes, ReadyPlan, PlanStatus

LEMMA ImportTypes == NoImport \in Import /\ NewImport \in Import
BY DEF NoImport, NewImport, Import

LEMMA SetImportType ==
  ASSUME TypeOK, NEW v \in VMs, NEW m \in Migrations, NEW imp \in Import, SetImport(v, m, imp)
  PROVE  imports' \in [VMs -> [Migrations -> Import]]
BY DEF TypeOK, ObjectTypes, SetImport

(* The VM at which the loop stands.                                        *)
LEMMA CurrentVM ==
  ASSUME TypeOK, RunIsActive, InLoop
  PROVE  /\ i \in DOMAIN w.vms /\ i + 1 \in Nat \ {0}
         /\ w.vms \in Seq(VMStatus) /\ Len(w.vms) \in Nat
         /\ w.vms[i] \in VMStatus /\ w.vms[i].vm \in VMs
         /\ w.active \in Migrations
         /\ imports[w.vms[i].vm][w.active] \in Import
<1>1. w.vms \in Seq(VMStatus) /\ i \in Nat \ {0} /\ i <= Len(w.vms)
  BY DEF TypeOK, PassTypes, InLoop, PlanStatus
<1>2. i \in DOMAIN w.vms /\ w.vms[i] \in VMStatus /\ Len(w.vms) \in Nat
  BY <1>1
<1>3. w.vms[i].vm \in VMs
  BY <1>2 DEF VMStatus
<1>4. w.active \in Migrations
  BY DEF RunIsActive, InLoop
<1>5. imports[w.vms[i].vm][w.active] \in Import
  BY <1>3, <1>4 DEF TypeOK, ObjectTypes
<1> QED
  BY <1>1, <1>2, <1>3, <1>4, <1>5

LEMMA LeaveVMType ==
  ASSUME TypeOK, RunIsActive, InLoop, NEW s \in VMStatus, NEW n \in Nat, LeaveVM(s, n),
         budget' \in Nat, imports' \in [VMs -> [Migrations -> Import]]
  PROVE  TypeOK'
<1>1. w' \in PlanStatus
  BY CurrentVM, SettleType, ReplaceVMType DEF TypeOK, PassTypes, LeaveVM
<1>2. PassTypes'
  BY <1>1, CurrentVM DEF TypeOK, PassTypes, LeaveVM
<1>3. ObjectTypes' /\ ControlTypes'
  BY DEF TypeOK, ObjectTypes, ControlTypes, LeaveVM, userVars
<1> QED
  BY <1>2, <1>3 DEF TypeOK

(* The pass ends with the plan p in hand.                                  *)
LEMMA IdleType ==
  ASSUME NEW p \in PlanStatus, Idle(p)
  PROVE  PassTypes'
<1>1. pc' \in {"Idle", "Run"} /\ w' \in PlanStatus /\ more' \in BOOLEAN /\ stale' \in BOOLEAN
  BY DEF Idle
<1>2. i' \in Nat \ {0} /\ inFlight' \in Nat
  BY DEF Idle
<1> QED
  BY <1>1, <1>2 DEF PassTypes

LEMMA AbortType ==
  ASSUME TypeOK, Abort, budget' \in Nat
  PROVE  TypeOK'
<1>1. PassTypes'
  BY IdleType DEF Abort, TypeOK, ObjectTypes
<1>2. ObjectTypes' /\ ControlTypes'
  BY DEF Abort, TypeOK, ObjectTypes, ControlTypes, userVars
<1> QED
  BY <1>1, <1>2 DEF TypeOK

LEMMA FaultType ==
  ASSUME TypeOK, NEW kind, Fault(kind)
  PROVE  budget' \in Nat
BY DEF TypeOK, ControlTypes, Fault

(***************************************************************************)
(* TypeOK.                                                                 *)
(***************************************************************************)
(* The phases a VM moves through without an import: every next status is   *)
(* a status.                                                               *)
LEMMA AdvanceType ==
  ASSUME NEW s \in VMStatus
  PROVE  /\ [s EXCEPT !.phase = NextPhase(@, s.hook)] \in VMStatus
         /\ [MarkStarted(s) EXCEPT !.phase = NextPhase(@, s.hook)] \in VMStatus
         /\ [s EXCEPT !.error = TRUE] \in VMStatus
BY NextPhaseType, TimedType DEF VMStatus

LEMMA RunVMType == TypeOK /\ RunIsActive /\ RunVM => TypeOK'
<1> SUFFICES ASSUME TypeOK, RunIsActive, RunVM PROVE TypeOK'
  OBVIOUS
<1>n. /\ inFlight + 1 \in Nat /\ inFlight \in Nat
      /\ UNCHANGED budget => budget' \in Nat
      /\ UNCHANGED imports => imports' \in [VMs -> [Migrations -> Import]]
  BY DEF TypeOK, PassTypes, ControlTypes, ObjectTypes
<1>1. CASE SkipCompleted
  <2>1. PassTypes'
    BY <1>1, CurrentVM DEF SkipCompleted, TypeOK, PassTypes
  <2>2. ObjectTypes' /\ ControlTypes'
    BY <1>1 DEF SkipCompleted, TypeOK, ObjectTypes, ControlTypes, userVars
  <2> QED
    BY <2>1, <2>2 DEF TypeOK
<1>2. CASE BreakAtLimit
  <2>1. PassTypes'
    BY <1>2, CurrentVM DEF BreakAtLimit, TypeOK, PassTypes
  <2>2. ObjectTypes' /\ ControlTypes'
    BY <1>2 DEF BreakAtLimit, TypeOK, ObjectTypes, ControlTypes, userVars
  <2> QED
    BY <2>1, <2>2 DEF TypeOK
<1>3. CASE RunStarted
  BY <1>n, <1>3, CurrentVM, AdvanceType, LeaveVMType DEF RunStarted, Admitted
<1>4. CASE RunHook
  BY <1>n, <1>4, CurrentVM, AdvanceType, LeaveVMType DEF RunHook, Admitted
<1>5. CASE RunCreateImport
  <2>1. InLoop /\ budget' \in Nat
    BY <1>n, <1>5 DEF RunCreateImport, Admitted
  <2>2. imports' \in [VMs -> [Migrations -> Import]]
    BY <1>5, <2>1, CurrentVM, ImportTypes, SetImportType DEF RunCreateImport
  <2> QED
    BY <1>n, <1>5, <2>1, <2>2, CurrentVM, AdvanceType, LeaveVMType DEF RunCreateImport
<1>6. CASE RunCreateImportError
  <2>1. InLoop
    BY <1>6 DEF RunCreateImportError, Admitted
  <2>2. budget' \in Nat
    BY <1>n, <1>6, FaultType DEF RunCreateImportError
  <2>3. imports' \in [VMs -> [Migrations -> Import]]
    <3>1. PICK imp \in {imports[w.vms[i].vm][w.active], NoImport, NewImport} :
                SetImport(w.vms[i].vm, w.active, imp)
      BY <1>6 DEF RunCreateImportError
    <3> QED
      BY <2>1, <3>1, CurrentVM, ImportTypes, SetImportType
  <2> QED
    BY <1>n, <1>6, <2>1, <2>2, <2>3, CurrentVM, AdvanceType, LeaveVMType
       DEF RunCreateImportError
<1>7. CASE RunProviderNotReady
  BY <1>n, <1>7, AbortType DEF RunProviderNotReady
<1>8. CASE RunImportCreated
  <2>1. InLoop
    BY <1>8 DEF RunImportCreated, Admitted
  <2>2. UpdateVM(w.vms[i], imports[w.vms[i].vm][w.active]) \in VMStatus
    BY <2>1, CurrentVM, UpdateVMType
  <2> QED
    BY <1>n, <1>8, <2>1, <2>2, LeaveVMType DEF RunImportCreated
<1>9. CASE RunListFails
  BY <1>9, AbortType, FaultType DEF RunListFails
<1>10. CASE RunCompleted
  BY <1>n, <1>10, CurrentVM, TimedType, LeaveVMType DEF RunCompleted, Admitted
<1> QED
  BY <1>1, <1>2, <1>3, <1>4, <1>5, <1>6, <1>7, <1>8, <1>9, <1>10 DEF RunVM

LEMMA ReflectedType ==
  ASSUME TypeOK, NEW m \in Migrations
  PROVE  Reflected(m) \in MigrationCR
<1>1. mig[m] \in MigrationCR /\ plan \in PlanStatus
  BY DEF TypeOK, ObjectTypes
<1> QED
  BY <1>1 DEF Reflected, MigrationCR, PlanStatus, MigConds, PlanConds

LEMMA InitType == Init => TypeOK
<1> SUFFICES ASSUME Init PROVE TypeOK
  OBVIOUS
<1>1. NewPlan \in PlanStatus
  BY DEF NewPlan, PlanStatus, PlanConds
<1>2. NewMigration \in MigrationCR
  BY DEF NewMigration, MigrationCR, MigConds
<1>3. ObjectTypes
  BY <1>1, <1>2, ImportTypes DEF Init, ObjectTypes
<1>4. ControlTypes
  BY LimitsAssumption DEF Init, ControlTypes
<1>5. PassTypes
  <2>1. pc \in {"Idle", "Run"} /\ w \in PlanStatus /\ more \in BOOLEAN /\ stale \in BOOLEAN
    BY <1>1 DEF Init
  <2>2. i \in Nat \ {0} /\ inFlight \in Nat
    BY DEF Init
  <2> QED
    BY <2>1, <2>2 DEF PassTypes
<1> QED
  BY <1>3, <1>4, <1>5 DEF TypeOK

(* One migration is written, whole or in a field.                          *)
LEMMA MigrationWritten ==
  ASSUME TypeOK, NEW m \in Migrations, NEW cr \in MigrationCR
  PROVE  [mig EXCEPT ![m] = cr] \in [Migrations -> MigrationCR]
BY DEF TypeOK, ObjectTypes

LEMMA FieldWritten ==
  ASSUME NEW cr \in MigrationCR
  PROVE  /\ \A x \in {"none", "set", "null"} : [cr EXCEPT !.snapshot = x] \in MigrationCR
         /\ \A n \in Nat : [cr EXCEPT !.state = "present", !.born = n] \in MigrationCR
         /\ [cr EXCEPT !.state = "deleted"] \in MigrationCR
         /\ cr.started \in BOOLEAN /\ cr.snapshot \in {"none", "set", "null"}
<1>1. \A x \in {"none", "set", "null"} : [cr EXCEPT !.snapshot = x] \in MigrationCR
  BY DEF MigrationCR
<1>2. \A n \in Nat : [cr EXCEPT !.state = "present", !.born = n] \in MigrationCR
  BY DEF MigrationCR
<1>3. [cr EXCEPT !.state = "deleted"] \in MigrationCR
  BY DEF MigrationCR
<1>4. cr.started \in BOOLEAN /\ cr.snapshot \in {"none", "set", "null"}
  BY DEF MigrationCR
<1> QED
  BY <1>1, <1>2, <1>3, <1>4

(* What the first steps of a pass write to the migrations.                 *)
LEMMA SnapshotType ==
  ASSUME TypeOK, NEW m \in Migrations
  PROVE  /\ [mig EXCEPT ![m].snapshot = "set"] \in [Migrations -> MigrationCR]
         /\ [mig EXCEPT ![m].snapshot = Snapshot(m)] \in [Migrations -> MigrationCR]
<1>1. mig[m] \in MigrationCR
  BY DEF TypeOK, ObjectTypes
<1>2. Snapshot(m) \in {"none", "set", "null"}
  BY <1>1, FieldWritten DEF Snapshot
<1>3. \A x \in {"none", "set", "null"} :
         [mig EXCEPT ![m] = [mig[m] EXCEPT !.snapshot = x]] \in [Migrations -> MigrationCR]
  BY <1>1, FieldWritten, MigrationWritten
<1> QED
  BY <1>2, <1>3

(* Every step of a pass outside the loop over the VMs.                     *)
LEMMA PassType == TypeOK /\ RunIsActive /\ Pass => TypeOK'
<1> SUFFICES ASSUME TypeOK, RunIsActive, Pass PROVE TypeOK'
  OBVIOUS
<1>a. ReadyPlan \in PlanStatus /\ [plan EXCEPT !.ready = FALSE] \in PlanStatus
  BY ReadyPlanType DEF TypeOK, ObjectTypes, PlanStatus
<1>1. CASE ReconcileBlocked
  <2>1. ObjectTypes' /\ ControlTypes'
    BY <1>a, <1>1 DEF ReconcileBlocked, TypeOK, ObjectTypes, ControlTypes, userVars
  <2> QED
    BY <1>1, <2>1, IdleType DEF ReconcileBlocked, TypeOK, ObjectTypes
<1>2. CASE ReconcileNothing
  <2>1. ObjectTypes' /\ ControlTypes'
    BY <1>a, <1>2 DEF ReconcileNothing, TypeOK, ObjectTypes, ControlTypes, userVars
  <2> QED
    BY <1>2, <2>1, IdleType DEF ReconcileNothing, TypeOK, ObjectTypes
<1>3. ASSUME NEW m \in Migrations, ReconcileRun(m) PROVE TypeOK'
  <2>1. ObjectTypes' /\ ControlTypes'
    BY <1>a, <1>3, SnapshotType
       DEF ReconcileRun, TypeOK, ObjectTypes, ControlTypes, userVars
  <2>2. w' \in PlanStatus
    BY <1>a, <1>3, PreparedType, BeginType DEF ReconcileRun, TypeOK, ObjectTypes
  <2>3. more' \in BOOLEAN
    BY <1>3, Zenon DEF ReconcileRun
  <2>4. pc' \in {"Idle", "Run"} /\ stale' \in BOOLEAN
    BY <1>3 DEF ReconcileRun
  <2>5. i' \in Nat \ {0} /\ inFlight' \in Nat
    BY <1>3 DEF ReconcileRun
  <2> QED
    BY <2>1, <2>2, <2>3, <2>4, <2>5 DEF TypeOK, PassTypes
<1>4. ASSUME NEW m \in Migrations, ReconcileFails(m) PROVE TypeOK'
  <2>1. budget' \in Nat
    BY <1>4, FaultType DEF ReconcileFails, TypeOK, ControlTypes
  <2>2. ObjectTypes' /\ ControlTypes'
    BY <1>a, <1>4, <2>1, SnapshotType
       DEF ReconcileFails, TypeOK, ObjectTypes, ControlTypes, userVars
  <2> QED
    BY <1>4, <2>2, IdleType DEF ReconcileFails, TypeOK, ObjectTypes
<1>5. CASE RunVM
  BY <1>5, RunVMType
<1>6. CASE Finish
  <2>1. plan' \in PlanStatus
    BY <1>6, EndType DEF Finish, TypeOK, ObjectTypes, PassTypes
  <2>2. ObjectTypes' /\ ControlTypes'
    BY <1>6, <2>1 DEF Finish, TypeOK, ObjectTypes, ControlTypes, userVars
  <2> QED
    BY <1>6, <2>1, <2>2, IdleType DEF Finish, TypeOK
<1> QED
  BY <1>1, <1>2, <1>3, <1>4, <1>5, <1>6 DEF Pass

LEMMA ImportNextType ==
  ASSUME TypeOK, NEW v \in VMs, NEW m \in Migrations, ImportNext(v, m)
  PROVE  TypeOK'
<1>1. imports[v][m] \in Import
  BY DEF TypeOK, ObjectTypes
<1>2. imports' \in [VMs -> [Migrations -> Import]]
  <2>1. ASSUME NEW st \in {"succeeded", "failed"},
               imports' = [imports EXCEPT ![v][m].state = st]
        PROVE  imports' \in [VMs -> [Migrations -> Import]]
    BY <1>1, <2>1 DEF TypeOK, ObjectTypes, Import
  <2>2. [NewImport EXCEPT !.disks = TRUE] \in Import
    BY DEF NewImport, Import
  <2> QED
    BY <2>1, <2>2, ImportTypes, SetImportType
       DEF ImportNext, ImportDisks, ImportSucceeds, ImportFails, ImportDeleted
<1>3. budget' \in Nat
  BY FaultType DEF ImportNext, ImportDisks, ImportSucceeds, ImportFails, ImportDeleted,
     TypeOK, ControlTypes
<1>4. PassTypes'
  BY DEF ImportNext, ImportDisks, ImportSucceeds, ImportFails, ImportDeleted, TypeOK,
     PassTypes, passVars
<1>5. ObjectTypes' /\ ControlTypes'
  BY <1>2, <1>3 DEF ImportNext, ImportDisks, ImportSucceeds, ImportFails, ImportDeleted,
     TypeOK, ObjectTypes, ControlTypes, userVars
<1> QED
  BY <1>4, <1>5 DEF TypeOK

LEMMA UserType ==
  ASSUME TypeOK, User
  PROVE  TypeOK'
<1>1. CASE EditPlan
  <2>1. budget' \in Nat
    BY <1>1, FaultType DEF EditPlan
  <2>2. PassTypes'
    <3>1. stale' \in BOOLEAN
      BY <1>1, Zenon DEF EditPlan
    <3>2. UNCHANGED <<pc, w, i, inFlight, more>>
      BY <1>1 DEF EditPlan
    <3> QED
      BY <3>1, <3>2 DEF TypeOK, PassTypes
  <2>3. ObjectTypes' /\ ControlTypes'
    BY <1>1, <2>1 DEF EditPlan, TypeOK, ObjectTypes, ControlTypes
  <2> QED
    BY <2>2, <2>3 DEF TypeOK
<1>2. ASSUME NEW m \in Migrations, CreateMigration(m) PROVE TypeOK'
  <2>1. clock \in Nat /\ clock' \in Nat
    BY <1>2 DEF CreateMigration, TypeOK, ControlTypes
  <2>2. mig' \in [Migrations -> MigrationCR]
    <3>1. mig[m] \in MigrationCR
      BY DEF TypeOK, ObjectTypes
    <3>2. [mig EXCEPT ![m] = [mig[m] EXCEPT !.state = "present", !.born = clock]]
            \in [Migrations -> MigrationCR]
      BY <2>1, <3>1, FieldWritten, MigrationWritten
    <3> QED
      BY <1>2, <3>2 DEF CreateMigration
  <2>3. PassTypes'
    BY <1>2 DEF CreateMigration, TypeOK, PassTypes, passVars
  <2>4. ObjectTypes' /\ ControlTypes'
    BY <1>2, <2>1, <2>2 DEF CreateMigration, TypeOK, ObjectTypes, ControlTypes
  <2> QED
    BY <2>3, <2>4 DEF TypeOK
<1>3. ASSUME NEW m \in Migrations, DeleteMigration(m) PROVE TypeOK'
  <2>1. budget' \in Nat
    BY <1>3, FaultType DEF DeleteMigration
  <2>2. mig' \in [Migrations -> MigrationCR] /\ mig[m].started \in BOOLEAN
    <3>1. mig[m] \in MigrationCR
      BY DEF TypeOK, ObjectTypes
    <3>2. [mig EXCEPT ![m] = [mig[m] EXCEPT !.state = "deleted"]]
            \in [Migrations -> MigrationCR]
      BY <3>1, FieldWritten, MigrationWritten
    <3> QED
      BY <1>3, <3>1, <3>2, FieldWritten DEF DeleteMigration
  <2>3. PassTypes'
    BY <1>3 DEF DeleteMigration, TypeOK, PassTypes, passVars
  <2>4. ObjectTypes' /\ ControlTypes'
    BY <1>3, <2>1, <2>2
       DEF DeleteMigration, TypeOK, ObjectTypes, ControlTypes, userVars
  <2> QED
    BY <2>3, <2>4 DEF TypeOK
<1> QED
  BY <1>1, <1>2, <1>3 DEF User

LEMMA ProviderType ==
  ASSUME TypeOK, Provider
  PROVE  TypeOK'
<1>1. budget' \in Nat
  BY FaultType DEF Provider, ProviderDown, ProviderReconciled, ProviderUp, TypeOK, ControlTypes
<1>2. PassTypes'
  BY DEF Provider, ProviderDown, ProviderReconciled, ProviderUp, TypeOK, PassTypes, passVars
<1>3. ObjectTypes' /\ ControlTypes'
  BY <1>1 DEF Provider, ProviderDown, ProviderReconciled, ProviderUp, TypeOK, ObjectTypes,
     ControlTypes, userVars
<1> QED
  BY <1>2, <1>3 DEF TypeOK

LEMMA ReflectType ==
  ASSUME TypeOK, NEW m \in Migrations, Reflect(m)
  PROVE  TypeOK'
<1>1. mig' \in [Migrations -> MigrationCR]
  BY ReflectedType DEF Reflect, TypeOK, ObjectTypes
<1>2. PassTypes'
  BY DEF Reflect, TypeOK, PassTypes, passVars
<1>3. ObjectTypes' /\ ControlTypes'
  BY <1>1 DEF Reflect, TypeOK, ObjectTypes, ControlTypes, userVars
<1> QED
  BY <1>2, <1>3 DEF TypeOK

LEMMA StepType == TypeOK /\ RunIsActive /\ [Next]_vars => TypeOK'
<1> SUFFICES ASSUME TypeOK, RunIsActive, [Next]_vars PROVE TypeOK'
  OBVIOUS
<1>1. CASE Crash
  BY <1>1, AbortType, FaultType DEF Crash
<1>2. CASE UNCHANGED vars
  BY <1>2 DEF vars, TypeOK, ObjectTypes, ControlTypes, PassTypes
<1> QED
  BY <1>1, <1>2, PassType, ReflectType, UserType, ProviderType, ImportNextType DEF Next

(***************************************************************************)
(* A pass works for the migration it was started for.                      *)
(***************************************************************************)
LEMMA ReconcileRunActive ==
  ASSUME TypeOK, NEW m \in Migrations, ReconcileRun(m)
  PROVE  w'.active = m
<1>1. ReadyPlan \in PlanStatus /\ Prepared(ReadyPlan, m) \in PlanStatus
  BY ReadyPlanType, PreparedType
<1>2. Prepared(ReadyPlan, m).active = m
  BY <1>1, TimedType DEF Prepared, PlanStatus
<1>3. \A p \in PlanStatus : \A s : Begin(p, s).active = p.active
  BY DEF Begin, MarkStarted, PlanStatus
<1> QED
  BY <1>1, <1>2, <1>3 DEF ReconcileRun

LEMMA StepRunIsActive == TypeOK /\ RunIsActive /\ [Next]_vars => RunIsActive'
<1> SUFFICES ASSUME TypeOK, RunIsActive, [Next]_vars PROVE RunIsActive'
  OBVIOUS
<1>1. CASE pc' = "Idle"
  BY <1>1 DEF RunIsActive
<1>2. CASE UNCHANGED <<pc, w>>
  BY <1>2 DEF RunIsActive
<1>3. ASSUME NEW s, NEW n, InLoop, LeaveVM(s, n) PROVE RunIsActive'
  <2>1. w'.active = w.active
    BY <1>3 DEF LeaveVM, TypeOK, PassTypes, PlanStatus
  <2> QED
    BY <1>3, <2>1 DEF RunIsActive, LeaveVM
<1>4. ASSUME NEW m \in Migrations, ReconcileRun(m) PROVE RunIsActive'
  BY <1>4, ReconcileRunActive DEF RunIsActive
<1>5. CASE RunVM
  BY <1>1, <1>2, <1>3, <1>5
     DEF RunVM, SkipCompleted, BreakAtLimit, RunStarted, RunHook, RunCreateImport,
         RunCreateImportError, RunProviderNotReady, RunImportCreated, RunListFails,
         RunCompleted, Admitted, Abort, Idle
<1>6. CASE Pass
  BY <1>1, <1>4, <1>5, <1>6
     DEF Pass, ReconcileBlocked, ReconcileNothing, ReconcileFails, Finish, Idle
<1>7. CASE Crash
  BY <1>1, <1>7 DEF Crash, Abort, Idle
<1>8. CASE UNCHANGED vars \/ User \/ Provider \/ \E m \in Migrations : Reflect(m)
  BY <1>2, <1>8 DEF vars, passVars, User, EditPlan, CreateMigration, DeleteMigration,
     Provider, ProviderDown, ProviderReconciled, ProviderUp, Reflect
<1>9. ASSUME NEW v \in VMs, NEW m \in Migrations, ImportNext(v, m) PROVE RunIsActive'
  BY <1>2, <1>9 DEF passVars, ImportNext, ImportDisks, ImportSucceeds, ImportFails, ImportDeleted
<1> QED
  BY <1>6, <1>7, <1>8, <1>9 DEF Next

LEMMA InitRunIsActive == Init => RunIsActive
BY DEF Init, RunIsActive

(* In every behaviour every variable has its type, whatever calls failed   *)
(* and passes were lost, and a pass in its loop works for a migration.     *)
THEOREM TypeCorrect == Spec => [](TypeOK /\ RunIsActive)
<1>1. Init => TypeOK /\ RunIsActive
  BY InitType, InitRunIsActive
<1>2. TypeOK /\ RunIsActive /\ [Next]_vars => (TypeOK /\ RunIsActive)'
  BY StepType, StepRunIsActive
<1> QED
  BY <1>1, <1>2, PTL DEF Spec

(***************************************************************************)
(* Success.  SuccessIsReal and OutcomeAgrees are not inductive: a pass     *)
(* works on its own copy of the plan, so both are stated of the copy too,  *)
(* and of a VM they must say what each of its phases has already shown.    *)
(***************************************************************************)
AfterImport == {"CreatePostHook", "PostHookCreated", "Completed"}

(* A status that claims, by its mark, its phase or its pipeline, that the  *)
(* import succeeded is the status of a VM in `got`.                        *)
Genuine(s, got) ==
  /\ "ImageConversion" \in s.pipeline
  /\ (\/ s.completed
      \/ s.phase \in AfterImport
      \/ "ImageConversion" \in s.done) => s.error \/ s.vm \in got

AllGenuine(vms, got) == \A k \in DOMAIN vms : Genuine(vms[k], got)

ImportsGenuine ==
  \A v \in VMs, m \in Migrations : imports[v][m].state = "succeeded" => v \in migrated

GenuineInv ==
  ImportsGenuine /\ AllGenuine(plan.vms, migrated) /\ AllGenuine(w.vms, migrated)

(***************************************************************************)
(* What the operators of a pass preserve.                                  *)
(***************************************************************************)
LEMMA BeginGenuine ==
  ASSUME NEW p \in PlanStatus, NEW s \in Specs, NEW got, AllGenuine(p.vms, got)
  PROVE  AllGenuine(Begin(p, s).vms, got)
<1>1. CASE p.conds # {}
  BY <1>1 DEF Begin
<1>2. CASE p.conds = {}
  <2>1. p.vms \in Seq(VMStatus) /\ MarkStarted(p) \in PlanStatus
    BY TimedType DEF PlanStatus
  <2>2. Begin(p, s).vms = [k \in DOMAIN s |-> AddOrUpdate(Kept(p.vms, s), s[k])]
    BY <1>2, <2>1 DEF Begin, PlanStatus
  <2>3. \A k \in DOMAIN s : Genuine(AddOrUpdate(Kept(p.vms, s), s[k]), got)
    <3> TAKE k \in DOMAIN s
    <3>1. Genuine(NewStatus(s[k]), got)
      BY DEF NewStatus, Genuine, AfterImport, BuildPipeline, ImportSteps, FirstPhase
    <3>2. \A j \in DOMAIN p.vms : Genuine(Restart(p.vms[j], s[k]), got)
      <4> TAKE j \in DOMAIN p.vms
      <4>1. p.vms[j] \in VMStatus /\ Genuine(p.vms[j], got)
        BY <2>1 DEF AllGenuine
      <4> QED
        BY <4>1 DEF Restart, MarkReset, VMStatus, Genuine, AfterImport, BuildPipeline,
           ImportSteps, FirstPhase
    <3> QED
      BY <2>1, <3>1, <3>2, AddOrUpdateCases
  <2> QED
    BY <2>2, <2>3 DEF AllGenuine
<1> QED
  BY <1>1, <1>2

LEMMA UpdateVMGenuine ==
  ASSUME NEW s \in VMStatus, NEW imp \in Import, NEW got, Genuine(s, got),
         ~s.completed, s.phase = "ImportCreated",
         imp.state = "succeeded" => s.vm \in got
  PROVE  Genuine(UpdateVM(s, imp), got)
<1> DEFINE u == UpdatePipeline(s, imp)
           t == ReflectPipeline(u)
<1>1. /\ u \in VMStatus /\ u.vm = s.vm /\ u.phase = s.phase /\ u.pipeline = s.pipeline
      /\ u.completed = s.completed
  BY DEF UpdatePipeline, VMStatus, Steps, ImportSteps
<1>2. "ImageConversion" \in u.done => u.error \/ s.vm \in got
  BY DEF UpdatePipeline, VMStatus, ImportSteps, Finished, Genuine, Import
<1>3. "ImageConversion" \in u.pipeline
  BY <1>1 DEF Genuine
<1> HIDE DEF u
<1>4. /\ t \in VMStatus /\ t.vm = s.vm /\ t.phase = "ImportCreated"
      /\ t.pipeline = u.pipeline /\ t.done = u.done /\ t.error = u.error
      /\ t.completed => u.done = u.pipeline
  BY <1>1 DEF ReflectPipeline, MarkCompleted, MarkStarted, VMStatus
<1> HIDE DEF t
<1>5. Genuine(t, got)
  BY <1>2, <1>3, <1>4 DEF Genuine, AfterImport
<1>6. UpdateVM(s, imp) \in {[s EXCEPT !.error = TRUE], t,
        [t EXCEPT !.phase = NextPhase(@, s.hook)],
        [t EXCEPT !.error = TRUE, !.phase = "Completed"]}
  BY DEF UpdateVM, u, t
<1>7. Genuine([s EXCEPT !.error = TRUE], got)
  BY DEF Genuine, VMStatus
<1>8. Genuine([t EXCEPT !.error = TRUE, !.phase = "Completed"], got)
  BY <1>3, <1>4 DEF Genuine, VMStatus
<1>9. CASE imp.state = "succeeded"
  <2>1. Genuine([t EXCEPT !.phase = NextPhase(@, s.hook)], got)
    BY <1>3, <1>4, <1>9 DEF Genuine, VMStatus
  <2> QED
    BY <1>5, <1>6, <1>7, <1>8, <2>1
<1>10. CASE imp.state # "succeeded"
  <2>1. UpdateVM(s, imp) \in {[s EXCEPT !.error = TRUE], t,
          [t EXCEPT !.error = TRUE, !.phase = "Completed"]}
    BY <1>10 DEF UpdateVM, u, t
  <2> QED
    BY <1>5, <1>7, <1>8, <2>1
<1> QED
  BY <1>9, <1>10

LEMMA SettleGenuine ==
  ASSUME NEW s \in VMStatus, NEW got, Genuine(s, got)
  PROVE  Genuine(Settle(s), got)
BY DEF Settle, Genuine, VMStatus

(* The steps that move a VM on without looking at its import.              *)
LEMMA AdvanceGenuine ==
  ASSUME NEW s \in VMStatus, NEW got, Genuine(s, got), ~s.completed
  PROVE  /\ s.phase \in {"Started", "CreatePreHook", "PreHookCreated", "CreateImport",
                         "CreatePostHook", "PostHookCreated"} =>
              Genuine([s EXCEPT !.phase = NextPhase(@, s.hook)], got)
         /\ s.phase = "Started" =>
              Genuine([MarkStarted(s) EXCEPT !.phase = NextPhase(@, s.hook)], got)
         /\ s.phase = "Completed" => Genuine(MarkCompleted(s), got)
         /\ Genuine([s EXCEPT !.error = TRUE], got)
<1>1. ASSUME s.phase \in {"CreatePostHook", "PostHookCreated"}
      PROVE  Genuine([s EXCEPT !.phase = NextPhase(@, s.hook)], got)
  BY <1>1 DEF Genuine, VMStatus, AfterImport
<1>2. ASSUME s.phase \in {"Started", "CreatePreHook", "PreHookCreated", "CreateImport"}
      PROVE  NextPhase(s.phase, s.hook) \notin AfterImport
  BY <1>2 DEF NextPhase, AfterImport
<1>3. ASSUME s.phase \in {"Started", "CreatePreHook", "PreHookCreated", "CreateImport"}
      PROVE  Genuine([s EXCEPT !.phase = NextPhase(@, s.hook)], got)
  BY <1>2, <1>3 DEF Genuine, VMStatus
<1>4. ASSUME s.phase = "Started"
      PROVE  Genuine([MarkStarted(s) EXCEPT !.phase = NextPhase(@, s.hook)], got)
  BY <1>2, <1>4 DEF Genuine, VMStatus, MarkStarted
<1>5. ASSUME s.phase = "Completed" PROVE Genuine(MarkCompleted(s), got)
  BY <1>5 DEF Genuine, VMStatus, MarkCompleted, MarkStarted, AfterImport
<1>6. Genuine([s EXCEPT !.error = TRUE], got)
  BY DEF Genuine, VMStatus
<1> QED
  BY <1>1, <1>3, <1>4, <1>5, <1>6

LEMMA GenuineMonotone ==
  ASSUME NEW vms, NEW got, NEW more_got, got \subseteq more_got, AllGenuine(vms, got)
  PROVE  AllGenuine(vms, more_got)
BY DEF AllGenuine, Genuine

(***************************************************************************)
(* One iteration of the loop over the VMs.                                 *)
(***************************************************************************)
LEMMA LeaveVMGenuine ==
  ASSUME TypeOK, RunIsActive, GenuineInv, InLoop, NEW s \in VMStatus, NEW n, LeaveVM(s, n),
         Genuine(s, migrated)
  PROVE  AllGenuine(plan'.vms, migrated') /\ AllGenuine(w'.vms, migrated')
<1>1. w.vms \in Seq(VMStatus) /\ i \in DOMAIN w.vms
  BY CurrentVM
<1>2. w'.vms = [w.vms EXCEPT ![i] = Settle(s)]
  BY DEF LeaveVM, TypeOK, PassTypes, PlanStatus
<1>3. Genuine(Settle(s), migrated)
  BY SettleGenuine
<1>4. AllGenuine(w'.vms, migrated)
  BY <1>1, <1>2, <1>3 DEF AllGenuine, GenuineInv
<1> QED
  BY <1>4 DEF LeaveVM, GenuineInv

LEMMA RunVMGenuine ==
  ASSUME TypeOK, RunIsActive, GenuineInv, RunVM
  PROVE  AllGenuine(plan'.vms, migrated') /\ AllGenuine(w'.vms, migrated')
<1> DEFINE s == w.vms[i]
           Goal == AllGenuine(plan'.vms, migrated') /\ AllGenuine(w'.vms, migrated')
<1>a. ASSUME InLoop, ~s.completed
      PROVE  s \in VMStatus /\ Genuine(s, migrated)
  BY <1>a, CurrentVM DEF GenuineInv, AllGenuine
<1>b. ASSUME UNCHANGED <<plan, w, migrated>> PROVE Goal
  BY <1>b DEF GenuineInv
<1>c. ASSUME Abort PROVE Goal
  BY <1>c DEF GenuineInv, Abort, Idle
<1>1. CASE SkipCompleted \/ BreakAtLimit
  BY <1>b, <1>1 DEF SkipCompleted, BreakAtLimit
<1>2. CASE RunStarted
  BY <1>a, <1>2, AdvanceType, AdvanceGenuine, LeaveVMGenuine DEF RunStarted, Admitted
<1>3. CASE RunHook
  BY <1>a, <1>3, AdvanceType, AdvanceGenuine, LeaveVMGenuine DEF RunHook, Admitted
<1>4. CASE RunCreateImport
  BY <1>a, <1>4, AdvanceType, AdvanceGenuine, LeaveVMGenuine DEF RunCreateImport, Admitted
<1>5. CASE RunCreateImportError
  BY <1>a, <1>5, AdvanceType, AdvanceGenuine, LeaveVMGenuine
     DEF RunCreateImportError, Admitted
<1>6. CASE RunProviderNotReady \/ RunListFails
  BY <1>c, <1>6 DEF RunProviderNotReady, RunListFails
<1>7. CASE RunImportCreated
  <2> DEFINE imp == imports[s.vm][w.active]
  <2>1. InLoop /\ ~s.completed /\ s.phase = "ImportCreated"
    BY <1>7 DEF RunImportCreated, Admitted
  <2>2. imp \in Import /\ (imp.state = "succeeded" => s.vm \in migrated)
    BY <2>1, CurrentVM DEF GenuineInv, ImportsGenuine
  <2>3. LeaveVM(UpdateVM(s, imp), inFlight + 1)
    BY <1>7 DEF RunImportCreated
  <2> HIDE DEF imp, s
  <2>4. s \in VMStatus /\ Genuine(s, migrated)
    BY <1>a, <2>1
  <2>5. Genuine(UpdateVM(s, imp), migrated) /\ UpdateVM(s, imp) \in VMStatus
    BY <2>1, <2>2, <2>4, UpdateVMGenuine, UpdateVMType
  <2> QED
    BY <2>1, <2>3, <2>5, LeaveVMGenuine
<1>8. CASE RunCompleted
  BY <1>a, <1>8, TimedType, AdvanceGenuine, LeaveVMGenuine DEF RunCompleted, Admitted
<1> QED
  BY <1>1, <1>2, <1>3, <1>4, <1>5, <1>6, <1>7, <1>8 DEF RunVM

LEMMA PassGenuine ==
  ASSUME TypeOK, RunIsActive, GenuineInv, Pass
  PROVE  AllGenuine(plan'.vms, migrated') /\ AllGenuine(w'.vms, migrated')
<1>1. ReadyPlan.vms = plan.vms /\ [plan EXCEPT !.ready = FALSE].vms = plan.vms
  BY DEF TypeOK, ObjectTypes, ReadyPlan, PlanStatus
<1>2. CASE ReconcileBlocked \/ ReconcileNothing \/ \E m \in Migrations : ReconcileFails(m)
  BY <1>1, <1>2
     DEF ReconcileBlocked, ReconcileNothing, ReconcileFails, Idle, GenuineInv
<1>3. ASSUME NEW m \in Migrations, ReconcileRun(m)
      PROVE  AllGenuine(plan'.vms, migrated') /\ AllGenuine(w'.vms, migrated')
  <2>1. ReadyPlan \in PlanStatus /\ Prepared(ReadyPlan, m) \in PlanStatus
    BY ReadyPlanType, PreparedType
  <2>2. Prepared(ReadyPlan, m).vms = plan.vms
    BY <1>1, <2>1 DEF Prepared, MarkReset, PlanStatus
  <2>3. AllGenuine(Begin(Prepared(ReadyPlan, m), spec).vms, migrated)
    BY <2>1, <2>2, BeginGenuine DEF GenuineInv, TypeOK, ObjectTypes
  <2> QED
    BY <1>1, <1>3, <2>3 DEF ReconcileRun, GenuineInv
<1>4. CASE Finish
  <2>1. End(w).vms = w.vms
    BY DEF End, MarkCompleted, MarkStarted, TypeOK, PassTypes, PlanStatus
  <2> QED
    BY <1>4, <2>1 DEF Finish, Idle, GenuineInv
<1> QED
  BY <1>2, <1>3, <1>4, RunVMGenuine DEF Pass

(***************************************************************************)
(* The imports.                                                            *)
(***************************************************************************)
LEMMA StepImportsGenuine ==
  ASSUME TypeOK, RunIsActive, ImportsGenuine, [Next]_vars
  PROVE  ImportsGenuine' /\ migrated \subseteq migrated'
<1>1. CASE UNCHANGED <<imports, migrated>>
  BY <1>1 DEF ImportsGenuine
<1>2. ASSUME NEW v \in VMs, NEW m \in Migrations, NEW imp \in Import,
             SetImport(v, m, imp), UNCHANGED migrated,
             imp.state = "succeeded" => imports[v][m].state = "succeeded"
      PROVE  ImportsGenuine' /\ migrated \subseteq migrated'
  BY <1>2 DEF SetImport, ImportsGenuine, TypeOK, ObjectTypes
<1>3. CASE RunCreateImport
  <2>1. InLoop
    BY <1>3 DEF RunCreateImport, Admitted
  <2>2. SetImport(w.vms[i].vm, w.active, NewImport) /\ UNCHANGED migrated
    BY <1>3 DEF RunCreateImport, LeaveVM
  <2>3. NewImport.state # "succeeded"
    BY DEF NewImport
  <2> QED
    BY <1>2, <2>1, <2>2, <2>3, CurrentVM, ImportTypes
<1>4. CASE RunCreateImportError
  <2>1. InLoop
    BY <1>4 DEF RunCreateImportError, Admitted
  <2>2. PICK imp \in {imports[w.vms[i].vm][w.active], NoImport, NewImport} :
               SetImport(w.vms[i].vm, w.active, imp)
    BY <1>4 DEF RunCreateImportError
  <2>3. UNCHANGED migrated
    BY <1>4 DEF RunCreateImportError, LeaveVM
  <2>4. NewImport.state # "succeeded" /\ NoImport.state # "succeeded"
    BY DEF NewImport, NoImport
  <2> QED
    BY <1>2, <2>1, <2>2, <2>3, <2>4, CurrentVM, ImportTypes
<1>5. ASSUME NEW v \in VMs, NEW m \in Migrations, ImportNext(v, m)
      PROVE  ImportsGenuine' /\ migrated \subseteq migrated'
  <2>1. imports[v][m] \in Import
    BY DEF TypeOK, ObjectTypes
  <2>2. CASE ImportDisks(v, m)
    <3>1. [NewImport EXCEPT !.disks = TRUE] \in Import
          /\ [NewImport EXCEPT !.disks = TRUE].state # "succeeded"
      BY DEF NewImport, Import
    <3> QED
      BY <1>2, <2>2, <3>1 DEF ImportDisks
  <2>3. CASE ImportSucceeds(v, m)
    BY <2>1, <2>3 DEF ImportSucceeds, ImportsGenuine, TypeOK, ObjectTypes, Import
  <2>4. CASE ImportFails(v, m)
    BY <2>1, <2>4 DEF ImportFails, ImportsGenuine, TypeOK, ObjectTypes, Import
  <2>5. CASE ImportDeleted(v, m)
    <3>1. NoImport.state # "succeeded"
      BY DEF NoImport
    <3> QED
      BY <1>2, <2>5, <3>1, ImportTypes DEF ImportDeleted
  <2> QED
    BY <1>5, <2>2, <2>3, <2>4, <2>5 DEF ImportNext
<1>6. CASE Pass
  BY <1>1, <1>3, <1>4, <1>6
     DEF Pass, ReconcileBlocked, ReconcileNothing, ReconcileRun, ReconcileFails, RunVM,
         SkipCompleted, BreakAtLimit, RunStarted, RunHook, RunProviderNotReady,
         RunImportCreated, RunListFails, RunCompleted, LeaveVM, Abort, Finish
<1>7. CASE UNCHANGED vars \/ Crash \/ User \/ Provider \/ \E m \in Migrations : Reflect(m)
  BY <1>1, <1>7
     DEF vars, Crash, Abort, User, EditPlan, CreateMigration, DeleteMigration, Provider,
         ProviderDown, ProviderReconciled, ProviderUp, Reflect
<1> QED
  BY <1>5, <1>6, <1>7 DEF Next

LEMMA StepGenuine ==
  ASSUME TypeOK, RunIsActive, GenuineInv, [Next]_vars
  PROVE  GenuineInv'
<1>1. ImportsGenuine' /\ migrated \subseteq migrated'
  BY StepImportsGenuine DEF GenuineInv
<1>2. ASSUME UNCHANGED <<plan, w>>
      PROVE  AllGenuine(plan'.vms, migrated') /\ AllGenuine(w'.vms, migrated')
  BY <1>1, <1>2, GenuineMonotone DEF GenuineInv
<1>3. CASE Crash
  BY <1>1, <1>3 DEF Crash, Abort, Idle, GenuineInv
<1>4. CASE Pass
  BY <1>1, <1>4, PassGenuine DEF GenuineInv
<1>5. CASE \/ UNCHANGED vars \/ User \/ Provider \/ \E m \in Migrations : Reflect(m)
           \/ \E v \in VMs, m \in Migrations : ImportNext(v, m)
  <2>1. UNCHANGED <<plan, w>>
    BY <1>5 DEF vars, passVars, User, EditPlan, CreateMigration, DeleteMigration, Provider,
       ProviderDown, ProviderReconciled, ProviderUp, Reflect, ImportNext, ImportDisks,
       ImportSucceeds, ImportFails, ImportDeleted
  <2> QED
    BY <1>1, <1>2, <2>1 DEF GenuineInv
<1> QED
  BY <1>3, <1>4, <1>5 DEF Next

LEMMA InitGenuine == Init => GenuineInv
BY DEF Init, GenuineInv, ImportsGenuine, AllGenuine, NewPlan, NoImport

LEMMA GenuineImplies == TypeOK /\ GenuineInv => SuccessIsReal
BY DEF GenuineInv, AllGenuine, Genuine, SuccessIsReal, Statuses

(* No VM is ever reported as completed without an error unless an import   *)
(* of it succeeded, through all crashes, lost writes and re-executions.    *)
THEOREM SuccessIsAlwaysReal == Spec => []SuccessIsReal
<1>1. Init => TypeOK /\ RunIsActive /\ GenuineInv
  BY InitType, InitRunIsActive, InitGenuine
<1>2. TypeOK /\ RunIsActive /\ GenuineInv /\ [Next]_vars =>
        (TypeOK /\ RunIsActive /\ GenuineInv)'
  BY StepType, StepRunIsActive, StepGenuine
<1>3. TypeOK /\ RunIsActive /\ GenuineInv => SuccessIsReal
  BY GenuineImplies
<1> QED
  BY <1>1, <1>2, <1>3, PTL DEF Spec

(***************************************************************************)
(* The outcome of a plan.                                                  *)
(***************************************************************************)
(* OutcomeAgrees, of the plan as persisted or as a pass holds it.          *)
OutcomeOf(p) ==
  /\ p.conds \in {{}, {"Executing"}, {"Succeeded"}, {"Failed"}}
  /\ p.conds = {"Succeeded"} => \A k \in DOMAIN p.vms : p.vms[k].completed /\ ~p.vms[k].error
  /\ p.conds = {"Failed"} => \E k \in DOMAIN p.vms : p.vms[k].completed /\ p.vms[k].error
  /\ p.completed <=> p.conds \in {{"Succeeded"}, {"Failed"}}

OutcomeInv == OutcomeOf(plan) /\ OutcomeOf(w)

LEMMA PreparedOutcome ==
  ASSUME NEW p \in PlanStatus, NEW m \in Migrations, OutcomeOf(p)
  PROVE  OutcomeOf(Prepared(p, m))
<1>1. CASE mig[m].started
  BY <1>1 DEF Prepared, OutcomeOf, PlanStatus
<1>2. CASE ~mig[m].started
  <2> DEFINE q == Prepared(p, m)
  <2>1. /\ q.conds = p.conds \ {"Succeeded", "Failed"}
        /\ q.completed = FALSE
    BY <1>2 DEF Prepared, MarkReset, PlanStatus
  <2>2. q.conds \in {{}, {"Executing"}}
    BY <2>1 DEF OutcomeOf
  <2> QED
    BY <2>1, <2>2 DEF OutcomeOf
<1> QED
  BY <1>1, <1>2

LEMMA BeginOutcome ==
  ASSUME NEW p \in PlanStatus, NEW s \in Specs, OutcomeOf(p)
  PROVE  OutcomeOf(Begin(p, s))
<1>1. CASE p.conds # {}
  BY <1>1 DEF Begin
<1>2. CASE p.conds = {}
  <2>1. Begin(p, s).conds = {"Executing"} /\ Begin(p, s).completed = FALSE
    BY <1>2 DEF Begin, MarkStarted, PlanStatus, OutcomeOf
  <2> QED
    BY <2>1 DEF OutcomeOf
<1> QED
  BY <1>1, <1>2

(* A VM that completed is not touched again, so a plan that has its        *)
(* outcome keeps what shows it.                                            *)
LEMMA LeaveVMOutcome ==
  ASSUME TypeOK, RunIsActive, OutcomeInv, InLoop, ~w.vms[i].completed, NEW s, NEW n,
         LeaveVM(s, n)
  PROVE  OutcomeInv'
<1>1. i \in DOMAIN w.vms /\ w.vms \in Seq(VMStatus)
  BY CurrentVM
<1>2. /\ w'.vms = [w.vms EXCEPT ![i] = Settle(s)]
      /\ w'.conds = w.conds /\ w'.completed = w.completed
  BY DEF LeaveVM, TypeOK, PassTypes, PlanStatus
<1>3. /\ DOMAIN w'.vms = DOMAIN w.vms
      /\ \A k \in DOMAIN w.vms : k # i => w'.vms[k] = w.vms[k]
  BY <1>1, <1>2
<1>4. w.conds # {"Succeeded"}
  BY <1>1 DEF OutcomeInv, OutcomeOf
<1>5. OutcomeOf(w')
  BY <1>1, <1>2, <1>3, <1>4 DEF OutcomeInv, OutcomeOf
<1>6. plan' = plan
  BY DEF LeaveVM
<1> QED
  BY <1>5, <1>6 DEF OutcomeInv

LEMMA EndOutcome ==
  ASSUME NEW p \in PlanStatus, OutcomeOf(p)
  PROVE  OutcomeOf(End(p))
<1>1. CASE ~Ended(p.vms)
  BY <1>1 DEF End
<1>2. CASE Ended(p.vms)
  <2> DEFINE q == End(p)
  <2>1. /\ q.conds = (p.conds \ {"Executing"}) \cup {Outcome(p.vms)}
        /\ q.completed = TRUE
        /\ q.vms = p.vms
    BY <1>2 DEF End, MarkCompleted, MarkStarted, PlanStatus
  <2>2. p.conds \ {"Executing"} \in {{}, {"Succeeded"}, {"Failed"}}
    BY DEF OutcomeOf
  <2>3. p.conds = {"Succeeded"} => Outcome(p.vms) = "Succeeded"
    BY DEF OutcomeOf, Outcome
  <2>4. p.conds = {"Failed"} => Outcome(p.vms) = "Failed"
    BY DEF OutcomeOf, Outcome
  <2>5. q.conds = {Outcome(p.vms)}
    BY <2>1, <2>2, <2>3, <2>4 DEF OutcomeOf, Outcome
  <2>6. CASE Outcome(p.vms) = "Failed"
    BY <2>1, <2>5, <2>6 DEF OutcomeOf, Outcome
  <2>7. CASE Outcome(p.vms) = "Succeeded"
    <3>1. \A k \in DOMAIN p.vms : ~(p.vms[k].completed /\ p.vms[k].error)
      BY <2>7 DEF Outcome
    <3>2. \A k \in DOMAIN p.vms : 1..(k - 1) \subseteq DOMAIN p.vms
      <4>1. p.vms \in Seq(VMStatus)
        BY DEF PlanStatus
      <4>2. DOMAIN p.vms = 1..Len(p.vms) /\ Len(p.vms) \in Nat
        BY <4>1
      <4> QED
        BY <4>2
    <3>3. \A k \in DOMAIN p.vms : p.vms[k].completed
      BY <1>2, <3>1, <3>2 DEF Ended
    <3> QED
      BY <2>1, <2>5, <2>7, <3>1, <3>3 DEF OutcomeOf
  <2> QED
    BY <2>6, <2>7 DEF Outcome
<1> QED
  BY <1>1, <1>2

LEMMA RunVMOutcome ==
  ASSUME TypeOK, RunIsActive, OutcomeInv, RunVM
  PROVE  OutcomeInv'
<1>1. CASE SkipCompleted \/ BreakAtLimit
  BY <1>1 DEF SkipCompleted, BreakAtLimit, OutcomeInv
<1>2. CASE RunProviderNotReady \/ RunListFails
  BY <1>2 DEF RunProviderNotReady, RunListFails, Abort, Idle, OutcomeInv
<1>3. CASE \/ RunStarted \/ RunHook \/ RunCreateImport \/ RunCreateImportError
           \/ RunImportCreated \/ RunCompleted
  BY <1>3, LeaveVMOutcome
     DEF RunStarted, RunHook, RunCreateImport, RunCreateImportError, RunImportCreated,
         RunCompleted, Admitted
<1> QED
  BY <1>1, <1>2, <1>3 DEF RunVM

LEMMA StepOutcome ==
  ASSUME TypeOK, RunIsActive, OutcomeInv, [Next]_vars
  PROVE  OutcomeInv'
<1>1. plan \in PlanStatus /\ w \in PlanStatus
  BY DEF TypeOK, ObjectTypes, PassTypes
<1>2. /\ OutcomeOf(ReadyPlan)
      /\ OutcomeOf([plan EXCEPT !.ready = FALSE])
  BY <1>1 DEF OutcomeInv, OutcomeOf, ReadyPlan, PlanStatus
<1>3. CASE ReconcileBlocked \/ ReconcileNothing \/ \E m \in Migrations : ReconcileFails(m)
  BY <1>2, <1>3 DEF ReconcileBlocked, ReconcileNothing, ReconcileFails, Idle, OutcomeInv
<1>4. ASSUME NEW m \in Migrations, ReconcileRun(m) PROVE OutcomeInv'
  <2>1. spec \in Specs /\ ReadyPlan \in PlanStatus /\ Prepared(ReadyPlan, m) \in PlanStatus
    BY ReadyPlanType, PreparedType DEF TypeOK, ObjectTypes
  <2>2. OutcomeOf(Begin(Prepared(ReadyPlan, m), spec))
    BY <1>2, <2>1, PreparedOutcome, BeginOutcome
  <2> QED
    BY <1>2, <1>4, <2>2 DEF ReconcileRun, OutcomeInv
<1>5. CASE Finish
  BY <1>1, <1>5, EndOutcome DEF Finish, Idle, OutcomeInv
<1>6. CASE Crash
  BY <1>6 DEF Crash, Abort, Idle, OutcomeInv
<1>7. CASE \/ UNCHANGED vars \/ User \/ Provider \/ \E m \in Migrations : Reflect(m)
           \/ \E v \in VMs, m \in Migrations : ImportNext(v, m)
  BY <1>7 DEF vars, passVars, User, EditPlan, CreateMigration, DeleteMigration, Provider,
     ProviderDown, ProviderReconciled, ProviderUp, Reflect, ImportNext, ImportDisks,
     ImportSucceeds, ImportFails, ImportDeleted, OutcomeInv
<1> QED
  BY <1>3, <1>4, <1>5, <1>6, <1>7, RunVMOutcome DEF Next, Pass

LEMMA InitOutcome == Init => OutcomeInv
BY DEF Init, OutcomeInv, OutcomeOf, NewPlan

LEMMA OutcomeImplies == TypeOK /\ OutcomeInv => OutcomeAgrees
BY DEF OutcomeInv, OutcomeOf, OutcomeAgrees, Statuses

(* Whatever passes are lost or repeated and whichever migration they work  *)
(* for, a plan says Succeeded only when every VM it lists completed        *)
(* without an error and Failed only when one completed with an error, and  *)
(* it is marked as completed exactly when it says one of the two.          *)
THEOREM OutcomeAlwaysAgrees == Spec => []OutcomeAgrees
<1>1. Init => TypeOK /\ RunIsActive /\ OutcomeInv
  BY InitType, InitRunIsActive, InitOutcome
<1>2. TypeOK /\ RunIsActive /\ OutcomeInv /\ [Next]_vars =>
        (TypeOK /\ RunIsActive /\ OutcomeInv)'
  BY StepType, StepRunIsActive, StepOutcome
<1>3. TypeOK /\ RunIsActive /\ OutcomeInv => OutcomeAgrees
  BY OutcomeImplies
<1> QED
  BY <1>1, <1>2, <1>3, PTL DEF Spec

(***************************************************************************)
(* The record a migration keeps of its execution.                          *)
(***************************************************************************)
(* MigrationOutcomeReal, of one migration; one that has not ended has no   *)
(* outcome that a later reflection would add to.                           *)
Truthful(cr, got) ==
  IF cr.completed
  THEN /\ cr.conds \in {{"Succeeded"}, {"Failed"}}
       /\ cr.conds = {"Succeeded"} =>
            \A k \in DOMAIN cr.vms :
               cr.vms[k].completed /\ ~cr.vms[k].error /\ cr.vms[k].vm \in got
       /\ cr.conds = {"Failed"} =>
            \E k \in DOMAIN cr.vms : cr.vms[k].completed /\ cr.vms[k].error
  ELSE cr.conds \subseteq {"Running"}

RecordInv == \A m \in Migrations : Truthful(mig[m], migrated)

LEMMA TruthfulMonotone ==
  ASSUME NEW cr, NEW got, NEW more_got, got \subseteq more_got, Truthful(cr, got)
  PROVE  Truthful(cr, more_got)
BY DEF Truthful

(* What a reflection takes over from the plan is true because the plan is. *)
LEMMA ReflectedTruthful ==
  ASSUME TypeOK, OutcomeInv, GenuineInv, RecordInv, NEW m \in Pending
  PROVE  Truthful(Reflected(m), migrated)
<1>1. /\ mig[m] \in MigrationCR /\ ~mig[m].completed
      /\ mig[m].conds \subseteq {"Running"}
  BY DEF Pending, RecordInv, Truthful, TypeOK, ObjectTypes
<1>2. CASE ~plan.ready \/ plan.active # m
  <2>1. Reflected(m) = [mig[m] EXCEPT !.conds = @ \ {"Running"}]
    BY <1>2 DEF Reflected
  <2>2. Reflected(m).completed = mig[m].completed /\ Reflected(m).conds = {}
    BY <1>1, <2>1 DEF MigrationCR
  <2> QED
    BY <1>1, <2>2 DEF Truthful
<1>3. CASE ~(~plan.ready \/ plan.active # m)
  <2> DEFINE running == IF "Executing" \in plan.conds THEN {"Running"} ELSE {}
             r == Reflected(m)
  <2>1. /\ r.completed = plan.completed
        /\ r.vms = plan.vms
        /\ r.conds = (mig[m].conds \ {"Running"}) \cup running \cup (plan.conds \ {"Executing"})
    BY <1>1, <1>3 DEF Reflected, MigrationCR
  <2>2. r.conds = running \cup (plan.conds \ {"Executing"})
    BY <1>1, <2>1
  <2>3. OutcomeOf(plan) /\ AllGenuine(plan.vms, migrated) /\ plan.completed \in BOOLEAN
    BY DEF OutcomeInv, GenuineInv, TypeOK, ObjectTypes, PlanStatus
  <2> SUFFICES Truthful(r, migrated)
    OBVIOUS
  <2> HIDE DEF r
  <2>4. CASE ~plan.completed
    BY <2>1, <2>2, <2>3, <2>4 DEF OutcomeOf, Truthful
  <2>5. CASE plan.completed
    <3>1. plan.conds \in {{"Succeeded"}, {"Failed"}} /\ r.conds = plan.conds
      BY <2>2, <2>3, <2>5 DEF OutcomeOf
    <3>2. plan.conds = {"Succeeded"} =>
            \A k \in DOMAIN plan.vms :
               /\ plan.vms[k].completed /\ ~plan.vms[k].error
               /\ plan.vms[k].vm \in migrated
      BY <2>3 DEF OutcomeOf, AllGenuine, Genuine
    <3>3. plan.conds = {"Failed"} =>
            \E k \in DOMAIN plan.vms : plan.vms[k].completed /\ plan.vms[k].error
      BY <2>3 DEF OutcomeOf
    <3> QED
      BY <2>1, <2>5, <3>1, <3>2, <3>3 DEF Truthful
  <2> QED
    BY <2>4, <2>5
<1> QED
  BY <1>2, <1>3

(* What a step may do to a migration: only a reflection of one that has    *)
(* not ended writes its record.                                            *)
SameRecord(m) ==
  /\ mig'[m].completed = mig[m].completed
  /\ mig'[m].conds = mig[m].conds
  /\ mig'[m].vms = mig[m].vms

LEMMA StepRecord ==
  ASSUME TypeOK, [Next]_vars, NEW m \in Migrations
  PROVE  SameRecord(m) \/ (m \in Pending /\ mig'[m] = Reflected(m))
<1>1. mig \in [Migrations -> MigrationCR] /\ mig[m] \in MigrationCR
  BY DEF TypeOK, ObjectTypes
<1>2. CASE mig' = mig
  BY <1>2 DEF SameRecord
<1>3. ASSUME NEW n \in Migrations, NEW x, mig' = [mig EXCEPT ![n].snapshot = x]
      PROVE  SameRecord(m)
  BY <1>1, <1>3 DEF SameRecord, MigrationCR
<1>4. ASSUME NEW n \in Migrations, CreateMigration(n) PROVE SameRecord(m)
  BY <1>1, <1>4 DEF CreateMigration, SameRecord, MigrationCR
<1>5. ASSUME NEW n \in Migrations, DeleteMigration(n) PROVE SameRecord(m)
  BY <1>1, <1>5 DEF DeleteMigration, SameRecord, MigrationCR
<1>6. ASSUME NEW n \in Migrations, Reflect(n)
      PROVE  SameRecord(m) \/ (m \in Pending /\ mig'[m] = Reflected(m))
  BY <1>1, <1>6 DEF Reflect, SameRecord
<1>7. CASE Pass
  BY <1>2, <1>3, <1>7
     DEF Pass, ReconcileBlocked, ReconcileNothing, ReconcileRun, ReconcileFails, RunVM,
         SkipCompleted, BreakAtLimit, RunStarted, RunHook, RunCreateImport,
         RunCreateImportError, RunProviderNotReady, RunImportCreated, RunListFails,
         RunCompleted, LeaveVM, Abort, Finish
<1>8. CASE \/ UNCHANGED vars \/ Crash \/ EditPlan \/ Provider
           \/ \E v \in VMs, n \in Migrations : ImportNext(v, n)
  BY <1>2, <1>8 DEF vars, Crash, Abort, EditPlan, Provider, ProviderDown,
     ProviderReconciled, ProviderUp, ImportNext, ImportDisks, ImportSucceeds, ImportFails,
     ImportDeleted
<1> QED
  BY <1>4, <1>5, <1>6, <1>7, <1>8 DEF Next, User

LEMMA StepTruthful ==
  ASSUME TypeOK, RunIsActive, OutcomeInv, GenuineInv, RecordInv, [Next]_vars
  PROVE  RecordInv'
<1>1. migrated \subseteq migrated'
  BY StepImportsGenuine DEF GenuineInv
<1> SUFFICES ASSUME NEW m \in Migrations PROVE Truthful(mig'[m], migrated')
  BY DEF RecordInv
<1>2. CASE SameRecord(m)
  <2>1. Truthful(mig[m], migrated)
    BY DEF RecordInv
  <2>2. Truthful(mig'[m], migrated)
    BY <1>2, <2>1 DEF SameRecord, Truthful
  <2> QED
    BY <1>1, <2>2, TruthfulMonotone
<1>3. CASE m \in Pending /\ mig'[m] = Reflected(m)
  BY <1>1, <1>3, ReflectedTruthful, TruthfulMonotone
<1> QED
  BY <1>2, <1>3, StepRecord

LEMMA InitTruthful == Init => RecordInv
BY DEF Init, RecordInv, Truthful, NewMigration

LEMMA TruthfulImplies == TypeOK /\ RecordInv => MigrationOutcomeReal
BY DEF RecordInv, Truthful, MigrationOutcomeReal, Statuses

(* A Migration that has ended has one outcome; when it is Succeeded every  *)
(* VM it lists has been brought to the destination, when it is Failed one  *)
(* of them completed with an error, whatever its plan does afterwards.     *)
THEOREM MigrationOutcomeAlwaysReal == Spec => []MigrationOutcomeReal
<1> DEFINE IInv == TypeOK /\ RunIsActive /\ OutcomeInv /\ GenuineInv /\ RecordInv
<1>1. Init => IInv
  BY InitType, InitRunIsActive, InitOutcome, InitGenuine, InitTruthful
<1>2. IInv /\ [Next]_vars => IInv'
  BY StepType, StepRunIsActive, StepOutcome, StepGenuine, StepTruthful
<1>3. IInv => MigrationOutcomeReal
  BY TruthfulImplies
<1> QED
  BY <1>1, <1>2, <1>3, PTL DEF Spec

(* No step changes the outcome or the VMs of a Migration that has ended,   *)
(* whoever takes it.                                                       *)
THEOREM EndedIsAlwaysFrozen == Spec => EndedIsFrozen
<1>1. TypeOK /\ [Next]_vars =>
        [\A m \in Migrations : mig[m].completed =>
            /\ mig'[m].completed
            /\ mig'[m].conds = mig[m].conds
            /\ mig'[m].vms = mig[m].vms]_vars
  BY StepRecord DEF SameRecord, Pending
<1> QED
  BY <1>1, TypeCorrect, PTL DEF Spec, EndedIsFrozen
=============================================================================
