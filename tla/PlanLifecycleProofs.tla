------------------------- MODULE PlanLifecycleProofs -------------------------
(***************************************************************************)
(* That the plan and the migration controller together implement           *)
(* MigrationLifecycle, where no two migrations are created in the same     *)
(* second.  The mapping needs to know that the migration a pass works for, *)
(* and the one the plan says is active, were the oldest when they were     *)
(* chosen and stay older than all that wait: a pass holds its choice while *)
(* migrations are created, reflected and deleted.                          *)
(***************************************************************************)
EXTENDS PlanControllerProofs

(* The migration a, if there is one, is older than all that wait.          *)
Oldest(a) ==
  a \in Migrations =>
    /\ mig[a].state # "new"
    /\ \A n \in Pending \ {a} : mig[a].born < mig[n].born

(* Creation order tells all migrations apart.                              *)
BirthInv ==
  /\ \A m \in Migrations : mig[m].born < clock
  /\ \A m \in Migrations : mig[m].state = "new" => ~mig[m].completed
  /\ \A m, n \in Migrations :
        mig[m].state # "new" /\ mig[n].state # "new" /\ mig[m].born = mig[n].born => m = n

OrderInv ==
  /\ BirthInv
  /\ Oldest(plan.active) /\ Oldest(w.active)
  /\ pc = "Run" /\ w.active # plan.active => plan.active \notin Pending

(***************************************************************************)
(* What a step may do to the migrations, and to the choice among them.     *)
(***************************************************************************)
Kin(m) ==
  /\ mig'[m].state = mig[m].state /\ mig'[m].born = mig[m].born
  /\ mig'[m].completed = mig[m].completed /\ mig'[m].conds = mig[m].conds

LEMMA StepKin ==
  ASSUME TypeOK, [Next]_vars
  PROVE  \/ clock' = clock /\ \A m \in Migrations : Kin(m)
         \/ \E m \in Migrations : CreateMigration(m) \/ DeleteMigration(m) \/ Reflect(m)
<1>1. mig \in [Migrations -> MigrationCR]
  BY DEF TypeOK, ObjectTypes
<1>2. CASE UNCHANGED <<mig, clock>>
  BY <1>2 DEF Kin
<1>3. ASSUME NEW n \in Migrations, NEW x, mig' = [mig EXCEPT ![n].snapshot = x], clock' = clock
      PROVE  clock' = clock /\ \A m \in Migrations : Kin(m)
  <2> SUFFICES ASSUME NEW m \in Migrations PROVE Kin(m)
    BY <1>3
  <2>1. mig[m] \in MigrationCR
    BY <1>1
  <2> QED
    BY <1>1, <1>3, <2>1 DEF Kin, MigrationCR
<1>4. CASE Pass
  BY <1>2, <1>3, <1>4
     DEF Pass, ReconcileBlocked, ReconcileNothing, ReconcileRun, ReconcileFails, RunVM,
         SkipCompleted, BreakAtLimit, RunStarted, RunHook, RunCreateImport,
         RunCreateImportError, RunProviderNotReady, RunImportCreated, RunListFails,
         RunCompleted, LeaveVM, Abort, Finish, userVars
<1>5. CASE \/ UNCHANGED vars \/ Crash \/ EditPlan \/ Provider
           \/ \E v \in VMs, n \in Migrations : ImportNext(v, n)
  BY <1>2, <1>5 DEF vars, Crash, Abort, EditPlan, Provider, ProviderDown,
     ProviderReconciled, ProviderUp, ImportNext, ImportDisks, ImportSucceeds, ImportFails,
     ImportDeleted, userVars
<1> QED
  BY <1>4, <1>5 DEF Next, User

(* A pass that goes on keeps its choice, one that ends with its write      *)
(* makes it the plan's, and one that begins chooses.                       *)
Keeps == pc' = pc /\ plan'.active = plan.active /\ w'.active = w.active
GivesUp == pc' = "Idle" /\ plan'.active = plan.active /\ w'.active = plan.active
Writes == /\ pc = "Run" /\ pc' = "Idle" /\ plan'.active = w.active /\ w'.active = w.active
          /\ mig' = mig
Chooses(m) == ReconcileRun(m) /\ plan'.active = plan.active /\ w'.active = m

LEMMA StepChoice ==
  ASSUME TypeOK, RunIsActive, [Next]_vars
  PROVE  Keeps \/ GivesUp \/ Writes \/ \E m \in Migrations : Chooses(m)
<1>1. plan \in PlanStatus /\ w \in PlanStatus
  BY DEF TypeOK, ObjectTypes, PassTypes
<1>2. ReadyPlan.active = plan.active /\ [plan EXCEPT !.ready = FALSE].active = plan.active
  BY <1>1 DEF ReadyPlan, PlanStatus
<1>3. CASE ReconcileBlocked \/ ReconcileNothing \/ \E m \in Migrations : ReconcileFails(m)
  BY <1>2, <1>3 DEF ReconcileBlocked, ReconcileNothing, ReconcileFails, Idle, GivesUp
<1>4. ASSUME NEW m \in Migrations, ReconcileRun(m) PROVE Chooses(m)
  <2>1. plan'.active = plan.active
    BY <1>2, <1>4 DEF ReconcileRun
  <2> QED
    BY <1>4, <2>1, ReconcileRunActive DEF Chooses
<1>5. CASE Finish
  <2>1. End(w).active = w.active
    BY <1>1 DEF End, MarkCompleted, MarkStarted, PlanStatus
  <2> QED
    BY <1>5, <2>1 DEF Finish, Idle, GivesUp, Writes
<1>6. CASE Abort
  BY <1>6 DEF Abort, Idle, GivesUp
<1>7. ASSUME NEW s, NEW n, InLoop, LeaveVM(s, n) PROVE Keeps
  <2>1. w'.active = w.active
    BY <1>1, <1>7 DEF LeaveVM, PlanStatus
  <2> QED
    BY <1>7, <2>1 DEF LeaveVM, Keeps
<1>8. CASE RunVM
  BY <1>6, <1>7, <1>8
     DEF RunVM, SkipCompleted, BreakAtLimit, RunStarted, RunHook, RunCreateImport,
         RunCreateImportError, RunProviderNotReady, RunImportCreated, RunListFails,
         RunCompleted, Admitted, Keeps
<1>9. CASE \/ UNCHANGED vars \/ User \/ Provider \/ \E m \in Migrations : Reflect(m)
           \/ \E v \in VMs, m \in Migrations : ImportNext(v, m)
  BY <1>9 DEF vars, passVars, User, EditPlan, CreateMigration, DeleteMigration, Provider,
     ProviderDown, ProviderReconciled, ProviderUp, Reflect, ImportNext, ImportDisks,
     ImportSucceeds, ImportFails, ImportDeleted, Keeps
<1> QED
  BY <1>3, <1>4, <1>5, <1>6, <1>8, <1>9 DEF Next, Pass, Crash

(* A migration that is there keeps its place in the order, and one that    *)
(* does not wait will not wait again.                                      *)
Aged(m) ==
  /\ mig'[m].born = mig[m].born
  /\ mig'[m].state = "new" <=> mig[m].state = "new"
  /\ mig'[m].state = "new" => ~mig'[m].completed
  /\ m \in Pending' => m \in Pending

LEMMA CreatedOthers ==
  ASSUME TypeOK, NEW m \in Migrations, CreateMigration(m), ~SameSecond
  PROVE  /\ \A n \in Migrations \ {m} : mig'[n] = mig[n]
         /\ mig'[m].state = "present" /\ mig'[m].born = clock
         /\ mig'[m].completed = mig[m].completed /\ mig'[m].conds = mig[m].conds
         /\ mig[m].state = "new" /\ clock' = clock + 1
<1>1. mig \in [Migrations -> MigrationCR] /\ mig[m] \in MigrationCR
  BY DEF TypeOK, ObjectTypes
<1> QED
  BY <1>1 DEF CreateMigration, MigrationCR

LEMMA StepAged ==
  ASSUME TypeOK, BirthInv, [Next]_vars, \A m \in Migrations : ~CreateMigration(m)
  PROVE  clock' = clock /\ \A m \in Migrations : Aged(m)
<1>1. mig \in [Migrations -> MigrationCR]
  BY DEF TypeOK, ObjectTypes
<1>2. CASE clock' = clock /\ \A m \in Migrations : Kin(m)
  BY <1>2 DEF Kin, Aged, Pending, BirthInv
<1>3. ASSUME NEW m \in Migrations, DeleteMigration(m)
      PROVE  clock' = clock /\ \A n \in Migrations : Aged(n)
  BY <1>1, <1>3 DEF DeleteMigration, Aged, Pending, BirthInv, MigrationCR, userVars
<1>4. ASSUME NEW m \in Migrations, Reflect(m)
      PROVE  clock' = clock /\ \A n \in Migrations : Aged(n)
  <2>1. /\ m \in Pending /\ mig' = [mig EXCEPT ![m] = Reflected(m)] /\ clock' = clock
    BY <1>4 DEF Reflect, userVars
  <2>2. mig[m] \in MigrationCR
    BY <1>1
  <2>3. Reflected(m).born = mig[m].born /\ Reflected(m).state = mig[m].state
    BY <2>2 DEF Reflected, MigrationCR
  <2>4. mig'[m] = Reflected(m) /\ \A n \in Migrations \ {m} : mig'[n] = mig[n]
    BY <1>1, <2>1
  <2>5. mig[m].state = "present"
    BY <2>1 DEF Pending
  <2>6. Aged(m)
    BY <2>1, <2>3, <2>4, <2>5 DEF Aged
  <2>7. \A n \in Migrations \ {m} : Aged(n)
    BY <2>4 DEF Aged, Pending, BirthInv
  <2> QED
    BY <2>1, <2>6, <2>7
<1> QED
  BY <1>2, <1>3, <1>4, StepKin
(***************************************************************************)
(* OrderInv.                                                               *)
(***************************************************************************)
LEMMA StepBirth ==
  ASSUME TypeOK, BirthInv, ~SameSecond, [Next]_vars
  PROVE  BirthInv'
<1>1. mig \in [Migrations -> MigrationCR] /\ clock \in Nat
  BY DEF TypeOK, ObjectTypes, ControlTypes
<1>2. \A m \in Migrations : mig[m].born \in Nat
  BY <1>1 DEF MigrationCR
<1>3. ASSUME NEW m \in Migrations, CreateMigration(m) PROVE BirthInv'
  <2>1. /\ \A n \in Migrations \ {m} : mig'[n] = mig[n]
        /\ mig'[m].state = "present" /\ mig'[m].born = clock /\ clock' = clock + 1
    BY <1>3, CreatedOthers
  <2>2. \A n \in Migrations : mig'[n].born < clock'
    BY <1>1, <1>2, <2>1 DEF BirthInv
  <2>3. \A n \in Migrations : mig'[n].state = "new" => ~mig'[n].completed
    BY <2>1 DEF BirthInv
  <2>4. ASSUME NEW n \in Migrations, NEW o \in Migrations, mig'[n].state # "new",
               mig'[o].state # "new", mig'[n].born = mig'[o].born
        PROVE  n = o
    <3>1. \A x \in Migrations \ {m} : mig'[x].born # mig'[m].born
      BY <1>1, <1>2, <2>1 DEF BirthInv
    <3> QED
      BY <2>1, <2>4, <3>1 DEF BirthInv
  <2> QED
    BY <2>2, <2>3, <2>4 DEF BirthInv
<1>4. ASSUME \A m \in Migrations : ~CreateMigration(m) PROVE BirthInv'
  <2>1. clock' = clock /\ \A m \in Migrations : Aged(m)
    BY <1>4, StepAged
  <2> QED
    BY <2>1 DEF BirthInv, Aged
<1> QED
  BY <1>3, <1>4

(* What was older than all that wait stays so: a new migration is younger. *)
LEMMA OldestKept ==
  ASSUME TypeOK, BirthInv, ~SameSecond, [Next]_vars, NEW a \in Migrations, Oldest(a)
  PROVE  /\ mig'[a].state # "new"
         /\ \A n \in Pending' \ {a} : mig'[a].born < mig'[n].born
<1>1. mig[a].state # "new" /\ \A n \in Pending \ {a} : mig[a].born < mig[n].born
  BY DEF Oldest
<1>2. ASSUME NEW m \in Migrations, CreateMigration(m)
      PROVE  /\ mig'[a].state # "new"
             /\ \A n \in Pending' \ {a} : mig'[a].born < mig'[n].born
  <2>1. /\ \A n \in Migrations \ {m} : mig'[n] = mig[n]
        /\ mig[m].state = "new" /\ mig'[m].born = clock
    BY <1>2, CreatedOthers
  <2>2. a # m /\ mig'[a] = mig[a]
    BY <1>1, <2>1
  <2>3. ASSUME NEW n \in Pending' \ {a} PROVE mig'[a].born < mig'[n].born
    <3>1. CASE n = m
      BY <2>1, <2>2, <3>1 DEF BirthInv
    <3>2. CASE n # m
      <4>1. n \in Migrations /\ mig'[n] = mig[n] /\ n \in Pending
        BY <2>1, <2>3, <3>2 DEF Pending
      <4> QED
        BY <1>1, <2>2, <2>3, <4>1
    <3> QED
      BY <3>1, <3>2
  <2> QED
    BY <1>1, <2>2, <2>3
<1>3. ASSUME \A m \in Migrations : ~CreateMigration(m)
      PROVE  /\ mig'[a].state # "new"
             /\ \A n \in Pending' \ {a} : mig'[a].born < mig'[n].born
  <2>1. \A m \in Migrations : Aged(m)
    BY <1>3, StepAged
  <2>2. Pending' \subseteq Migrations
    BY DEF Pending
  <2> QED
    BY <1>1, <2>1, <2>2 DEF Aged
<1> QED
  BY <1>2, <1>3

(* pendingMigrations gives the oldest, and the active one if that waits.   *)
LEMMA FirstIsOldest ==
  ASSUME TypeOK, OrderInv, NEW m \in Migrations, First(m)
  PROVE  /\ Oldest(m)
         /\ m # plan.active => plan.active \notin Pending
<1>1. \A n \in Migrations : mig[n].born \in Nat
  BY DEF TypeOK, ObjectTypes, MigrationCR
<1>2. m \in Pending /\ \A n \in Pending \ {m} : Precedes(m, n)
  BY DEF First
<1>3. ASSUME NEW n \in Pending \ {m} PROVE mig[m].born < mig[n].born
  <2>1. n \in Migrations /\ n # m /\ mig[n].state # "new" /\ mig[m].state # "new"
    BY <1>2, <1>3 DEF Pending
  <2>2. mig[m].born # mig[n].born
    BY <2>1 DEF OrderInv, BirthInv
  <2> QED
    BY <1>2, <1>3, <2>2 DEF Precedes
<1>4. Oldest(m)
  BY <1>2, <1>3 DEF Oldest, Pending
<1>5. ASSUME m # plan.active, plan.active \in Pending PROVE FALSE
  <2>1. plan.active \in Migrations
    BY <1>5 DEF Pending
  <2>2. mig[plan.active].born < mig[m].born
    BY <1>2, <1>5, <2>1 DEF OrderInv, Oldest
  <2>3. mig[m].born < mig[plan.active].born
    BY <1>3, <1>5
  <2> QED
    BY <1>1, <2>1, <2>2, <2>3
<1> QED
  BY <1>4, <1>5

LEMMA StepOrder ==
  ASSUME TypeOK, RunIsActive, OrderInv, ~SameSecond, [Next]_vars
  PROVE  OrderInv'
<1>1. BirthInv /\ BirthInv'
  BY StepBirth DEF OrderInv
<1>2. \A a \in Migrations : Oldest(a) =>
         /\ mig'[a].state # "new"
         /\ \A n \in Pending' \ {a} : mig'[a].born < mig'[n].born
  BY <1>1, OldestKept
<1>3. plan'.active \in Migrations =>
         /\ mig'[plan'.active].state # "new"
         /\ \A n \in Pending' \ {plan'.active} : mig'[plan'.active].born < mig'[n].born
  <2>1. plan'.active = plan.active \/ plan'.active = w.active
    BY StepChoice DEF Keeps, GivesUp, Writes, Chooses
  <2>2. Oldest(plan.active) /\ Oldest(w.active)
    BY DEF OrderInv
  <2> QED
    BY <1>2, <2>1, <2>2
<1>4. w'.active \in Migrations =>
         /\ mig'[w'.active].state # "new"
         /\ \A n \in Pending' \ {w'.active} : mig'[w'.active].born < mig'[n].born
  <2>1. \/ w'.active = plan.active \/ w'.active = w.active
        \/ \E m \in Migrations : ReconcileRun(m) /\ w'.active = m
    BY StepChoice DEF Keeps, GivesUp, Writes, Chooses
  <2>2. Oldest(plan.active) /\ Oldest(w.active)
    BY DEF OrderInv
  <2>3. ASSUME NEW m \in Migrations, ReconcileRun(m) PROVE Oldest(m)
    BY <2>3, FirstIsOldest DEF ReconcileRun
  <2> QED
    BY <1>2, <2>1, <2>2, <2>3
<1>5. ASSUME pc' = "Run", w'.active # plan'.active, plan'.active \in Pending'
      PROVE  FALSE
  <2>1. plan'.active = plan.active
    BY <1>5, StepChoice DEF Keeps, GivesUp, Writes, Chooses
  <2>2. plan.active \in Pending
    <3>1. CASE \E m \in Migrations : CreateMigration(m)
      <4>1. PICK m \in Migrations : CreateMigration(m)
        BY <3>1
      <4>2. /\ \A n \in Migrations \ {m} : mig'[n] = mig[n]
            /\ mig[m].state = "new"
        BY <4>1, CreatedOthers
      <4>3. plan.active \in Migrations
        BY <1>5, <2>1 DEF Pending
      <4>4. plan.active # m
        BY <4>2, <4>3 DEF OrderInv, Oldest
      <4> QED
        BY <1>5, <2>1, <4>2, <4>3, <4>4 DEF Pending
    <3>2. CASE ~ \E m \in Migrations : CreateMigration(m)
      <4>1. \A m \in Migrations : Aged(m)
        BY <1>1, <3>2, StepAged
      <4>2. plan.active \in Migrations
        BY <1>5, <2>1 DEF Pending
      <4> QED
        BY <1>5, <2>1, <4>1, <4>2 DEF Aged
    <3> QED
      BY <3>1, <3>2
  <2>3. CASE Keeps
    BY <1>5, <2>2, <2>3 DEF Keeps, OrderInv
  <2>4. CASE \E m \in Migrations : Chooses(m)
    BY <1>5, <2>2, <2>4, FirstIsOldest DEF Chooses, ReconcileRun
  <2> QED
    BY <1>5, <2>3, <2>4, StepChoice DEF GivesUp, Writes
<1> QED
  BY <1>1, <1>3, <1>4, <1>5 DEF OrderInv, Oldest

LEMMA InitOrder == Init => OrderInv
<1> SUFFICES ASSUME Init PROVE OrderInv
  OBVIOUS
<1>1. \A m \in Migrations : mig[m] = NewMigration
  BY DEF Init
<1>2. 0 \notin Migrations
  BY MigrationsAssumption
<1>3. plan.active = 0 /\ w.active = 0 /\ pc = "Idle" /\ clock = 1
  BY DEF Init, NewPlan, NoMigration
<1>4. BirthInv
  BY <1>1, <1>3 DEF BirthInv, NewMigration
<1> QED
  BY <1>2, <1>3, <1>4 DEF OrderInv, Oldest
(***************************************************************************)
(* The refinement.                                                         *)
(***************************************************************************)
(* What the user sees is a function of the migration and of whether the    *)
(* plan says that it is active.                                            *)
View(cr, active) ==
  IF cr.state = "new" THEN "New"
  ELSE IF cr.state = "deleted" THEN "Deleted"
  ELSE IF ~cr.completed THEN IF active THEN "Running" ELSE "Pending"
  ELSE IF "Failed" \in cr.conds THEN "Failed" ELSE "Succeeded"

LEMMA StateIsView ==
  ASSUME TypeOK, TypeOK', NEW m \in Migrations
  PROVE  /\ LifecycleState(m) = View(mig[m], plan.active = m)
         /\ LifecycleState(m)' = View(mig'[m], plan'.active = m)
<1>1. /\ mig[m].state \in {"new", "present", "deleted"}
      /\ mig'[m].state \in {"new", "present", "deleted"}
  BY DEF TypeOK, ObjectTypes, MigrationCR
<1>2. /\ m \in Pending <=> mig[m].state = "present" /\ ~mig[m].completed
      /\ m \in Pending' <=> mig'[m].state = "present" /\ ~mig'[m].completed
  BY DEF Pending
<1>3. LifecycleState(m) = View(mig[m], plan.active = m)
  BY <1>1, <1>2 DEF LifecycleState, View
<1>4. LifecycleState(m)' = View(mig'[m], plan'.active = m)
  BY <1>1, <1>2 DEF LifecycleState, View
<1> QED
  BY <1>3, <1>4

(* A step that leaves the place of every migration as it is, and changes   *)
(* the state of none but m, is one of the lifecycle when m's change is.    *)
OthersStay(m) ==
  /\ \A n \in Migrations : mig'[n].born = mig[n].born
  /\ \A n \in Migrations \ {m} : LifecycleState(n)' = LifecycleState(n)

LEMMA Becomes ==
  ASSUME NEW m \in Migrations, OthersStay(m), NEW s, LifecycleState(m)' = s
  PROVE  /\ Lifecycle!Become(m, s)
         /\ [n \in Migrations |-> mig[n].born]' = [n \in Migrations |-> mig[n].born]
BY DEF OthersStay, Lifecycle!Become

LEMMA Stutters ==
  ASSUME \A n \in Migrations : mig'[n].born = mig[n].born,
         \A n \in Migrations : LifecycleState(n)' = LifecycleState(n)
  PROVE  UNCHANGED <<[n \in Migrations |-> LifecycleState(n)],
                     [n \in Migrations |-> mig[n].born]>>
OBVIOUS

LifecycleStep ==
  [Lifecycle!Next]_<<[m \in Migrations |-> LifecycleState(m)],
                     [m \in Migrations |-> mig[m].born]>>

LEMMA CreateRefines ==
  ASSUME TypeOK, TypeOK', OrderInv, ~SameSecond, NEW m \in Migrations, CreateMigration(m)
  PROVE  LifecycleStep
<1>1. /\ \A n \in Migrations \ {m} : mig'[n] = mig[n]
      /\ mig'[m].state = "present" /\ mig'[m].born = clock
      /\ mig'[m].completed = mig[m].completed /\ mig[m].state = "new"
  BY CreatedOthers
<1>2. plan' = plan /\ plan.active # m /\ ~mig[m].completed
  BY <1>1 DEF CreateMigration, OrderInv, BirthInv, Oldest
<1>3. LifecycleState(m) = "New" /\ LifecycleState(m)' = "Pending"
  BY <1>1, <1>2, StateIsView DEF View
<1>4. \A n \in Migrations \ {m} : LifecycleState(n)' = LifecycleState(n)
  BY <1>1, <1>2, StateIsView
<1>5. Lifecycle!Become(m, "Pending")
  BY <1>3, <1>4 DEF Lifecycle!Become
<1>6. \A n \in Migrations : mig[n].born < mig'[m].born
  BY <1>1 DEF OrderInv, BirthInv
<1>7. [n \in Migrations |-> mig'[n].born] =
        [[n \in Migrations |-> mig[n].born] EXCEPT ![m] = mig'[m].born]
  BY <1>1
<1>8. Lifecycle!Create(m)
  BY <1>3, <1>5, <1>6, <1>7 DEF Lifecycle!Create
<1> QED
  BY <1>8 DEF LifecycleStep, Lifecycle!Next

LEMMA DeleteRefines ==
  ASSUME TypeOK, TypeOK', OrderInv, NEW m \in Migrations, DeleteMigration(m)
  PROVE  LifecycleStep
<1>1. mig \in [Migrations -> MigrationCR] /\ mig[m] \in MigrationCR
  BY DEF TypeOK, ObjectTypes
<1>2. /\ mig' = [mig EXCEPT ![m].state = "deleted"] /\ mig[m].state = "present"
      /\ plan' = plan
  BY DEF DeleteMigration
<1>3. /\ mig'[m].state = "deleted"
      /\ \A n \in Migrations \ {m} : mig'[n] = mig[n]
      /\ \A n \in Migrations : mig'[n].born = mig[n].born
  BY <1>1, <1>2 DEF MigrationCR
<1>4. LifecycleState(m)' = "Deleted" /\ LifecycleState(m) \notin {"New", "Deleted"}
  BY <1>2, <1>3, StateIsView DEF View
<1>5. OthersStay(m)
  BY <1>2, <1>3, StateIsView DEF OthersStay
<1>6. Lifecycle!Delete(m)
  BY <1>4, <1>5, Becomes DEF Lifecycle!Delete
<1> QED
  BY <1>6 DEF LifecycleStep, Lifecycle!Next

(* A migration ends in the reflection that finds its plan completed.       *)
LEMMA ReflectRefines ==
  ASSUME TypeOK, TypeOK', OrderInv, NEW m \in Migrations, Reflect(m)
  PROVE  LifecycleStep
<1>1. mig \in [Migrations -> MigrationCR] /\ mig[m] \in MigrationCR
  BY DEF TypeOK, ObjectTypes
<1>2. /\ m \in Pending /\ mig' = [mig EXCEPT ![m] = Reflected(m)] /\ plan' = plan
  BY DEF Reflect
<1>3. mig'[m] = Reflected(m) /\ \A n \in Migrations \ {m} : mig'[n] = mig[n]
  BY <1>1, <1>2
<1>4. /\ Reflected(m).born = mig[m].born /\ Reflected(m).state = mig[m].state
      /\ plan.active = m \/ Reflected(m).completed = mig[m].completed
  BY <1>1 DEF Reflected, MigrationCR
<1>5. OthersStay(m)
  BY <1>2, <1>3, <1>4, StateIsView DEF OthersStay
<1>6. mig[m].state = "present" /\ ~mig[m].completed
  BY <1>2 DEF Pending
<1>7. CASE Reflected(m).completed
  <2>1. LifecycleState(m) = "Running" /\ LifecycleState(m)' \in {"Succeeded", "Failed"}
    BY <1>2, <1>3, <1>4, <1>6, <1>7, StateIsView DEF View
  <2>2. Lifecycle!End(m)
    BY <1>5, <2>1, Becomes DEF Lifecycle!End
  <2> QED
    BY <2>2 DEF LifecycleStep, Lifecycle!Next
<1>8. CASE ~Reflected(m).completed
  <2>1. LifecycleState(m)' = LifecycleState(m)
    BY <1>2, <1>3, <1>4, <1>6, <1>8, StateIsView DEF View
  <2>2. \A n \in Migrations : mig'[n].born = mig[n].born /\ LifecycleState(n)' = LifecycleState(n)
    BY <1>5, <2>1 DEF OthersStay
  <2> QED
    BY <2>2, Stutters DEF LifecycleStep
<1> QED
  BY <1>7, <1>8

(* A migration begins when the plan is written with it for the first time: *)
(* no other that waits has begun, and all of them are younger.             *)
LEMMA WriteRefines ==
  ASSUME TypeOK, TypeOK', RunIsActive, OrderInv, Writes
  PROVE  LifecycleStep
<1>1. PICK a \in Migrations : a = w.active
  BY DEF Writes, RunIsActive
<1>2. plan'.active = a /\ mig' = mig /\ pc = "Run"
  BY <1>1 DEF Writes
<1>3. \A n \in Migrations : n \in Pending <=> mig[n].state = "present" /\ ~mig[n].completed
  BY DEF Pending
<1>4. \A n \in Migrations :
         n \notin Pending \/ (n # plan.active /\ n # a) => LifecycleState(n)' = LifecycleState(n)
  <2> SUFFICES ASSUME NEW n \in Migrations, n \notin Pending \/ (n # plan.active /\ n # a)
               PROVE  LifecycleState(n)' = LifecycleState(n)
    OBVIOUS
  <2>1. mig[n].state \in {"new", "present", "deleted"}
    BY DEF TypeOK, ObjectTypes, MigrationCR
  <2> QED
    BY <1>2, <1>3, <2>1, StateIsView DEF View
<1>5. CASE plan.active = a
  <2>1. \A n \in Migrations : mig'[n].born = mig[n].born /\ LifecycleState(n)' = LifecycleState(n)
    BY <1>2, <1>5, StateIsView
  <2> QED
    BY <2>1, Stutters DEF LifecycleStep
<1>6. CASE plan.active # a
  <2>1. plan.active \notin Pending
    BY <1>1, <1>2, <1>6 DEF OrderInv
  <2>2. OthersStay(a)
    BY <1>2, <1>4, <2>1 DEF OthersStay
  <2>3. CASE a \notin Pending
    <3>1. \A n \in Migrations : mig'[n].born = mig[n].born
                                /\ LifecycleState(n)' = LifecycleState(n)
      BY <1>4, <2>2, <2>3 DEF OthersStay
    <3> QED
      BY <3>1, Stutters DEF LifecycleStep
  <2>4. CASE a \in Pending
    <3>1. LifecycleState(a) = "Pending" /\ LifecycleState(a)' = "Running"
      BY <1>2, <1>3, <1>6, <2>4, StateIsView DEF View
    <3>2. ASSUME NEW n \in Migrations \ {a}, LifecycleState(n) \in {"Pending", "Running"}
          PROVE  LifecycleState(n) = "Pending" /\ mig[a].born < mig[n].born
      <4>1. mig[n].state \in {"new", "present", "deleted"}
        BY DEF TypeOK, ObjectTypes, MigrationCR
      <4>2. n \in Pending
        BY <1>3, <3>2, <4>1, StateIsView DEF View
      <4>3. LifecycleState(n) = "Pending"
        BY <1>3, <2>1, <3>2, <4>2, StateIsView DEF View
      <4>4. mig[a].born < mig[n].born
        BY <1>1, <3>2, <4>2 DEF OrderInv, Oldest
      <4> QED
        BY <4>3, <4>4
    <3>3. Lifecycle!Become(a, "Running")
          /\ [n \in Migrations |-> mig[n].born]' = [n \in Migrations |-> mig[n].born]
      BY <2>2, <3>1, Becomes
    <3>4. Lifecycle!Begin(a)
      BY <3>1, <3>2, <3>3 DEF Lifecycle!Begin, Lifecycle!Waiting
    <3> QED
      BY <3>4 DEF LifecycleStep, Lifecycle!Next
  <2> QED
    BY <2>3, <2>4
<1> QED
  BY <1>5, <1>6

LEMMA StepRefines ==
  ASSUME TypeOK, TypeOK', RunIsActive, OrderInv, ~SameSecond, [Next]_vars
  PROVE  LifecycleStep
<1>1. ASSUME \A m \in Migrations : Kin(m), plan'.active = plan.active PROVE LifecycleStep
  <2>1. \A n \in Migrations : mig'[n].born = mig[n].born /\ LifecycleState(n)' = LifecycleState(n)
    BY <1>1, StateIsView DEF Kin, View
  <2> QED
    BY <2>1, Stutters DEF LifecycleStep
<1>2. CASE \E m \in Migrations : CreateMigration(m) \/ DeleteMigration(m) \/ Reflect(m)
  BY <1>2, CreateRefines, DeleteRefines, ReflectRefines
<1>3. CASE \A m \in Migrations : Kin(m)
  BY <1>1, <1>3, StepChoice, WriteRefines DEF Keeps, GivesUp, Chooses
<1> QED
  BY <1>2, <1>3, StepKin

LEMMA InitRefines == Init => Lifecycle!Init
<1> SUFFICES ASSUME Init
             PROVE  Lifecycle!Init
  OBVIOUS
<1>1. \A m \in Migrations : mig[m].state = "new" /\ mig[m].born = 0 /\ m \notin Pending
  BY DEF Init, NewMigration, Pending
<1>2. \A m \in Migrations : LifecycleState(m) = "New"
  BY <1>1 DEF LifecycleState
<1> QED
  BY <1>1, <1>2 DEF Lifecycle!Init

(* When creation timestamps tell all Migrations apart, the two controllers *)
(* implement the lifecycle promised to the user: Migrations are executed   *)
(* one at a time, the oldest that waits first, and each ends once with an  *)
(* outcome that stays, through crashes, edits, deletions and lost writes.  *)
THEOREM LifecycleIsImplemented ==
  ASSUME ~SameSecond
  PROVE  Spec => ImplementsLifecycle
<1> DEFINE IInv == TypeOK /\ RunIsActive /\ OrderInv
<1>1. Init => IInv
  BY InitType, InitRunIsActive, InitOrder
<1>2. IInv /\ [Next]_vars => IInv'
  BY StepType, StepRunIsActive, StepOrder
<1>3. IInv /\ IInv' /\ [Next]_vars => LifecycleStep
  BY StepRefines
<1> QED
  BY <1>1, <1>2, <1>3, InitRefines, PTL
     DEF Spec, ImplementsLifecycle, Lifecycle!Spec, LifecycleStep
=============================================================================
