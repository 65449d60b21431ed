----------------------------- MODULE PlanClaims -----------------------------
(***************************************************************************)
(* What the comments of the repository say of a plan's execution and the   *)
(* code does not do.  Each is the property of one run that violates it.    *)
(***************************************************************************)
EXTENDS PlanController

(* "Delete", "Add/Update." (pkg/controller/plan/migration.go:249, 258): a  *)
(* VM that completed without error and is still listed is kept by the next *)
(* execution, not migrated again.                                          *)
CompletedVMKept ==
  [][\A s \in Statuses(plan.vms) :
        s.completed /\ ~s.error /\ InSpec(s.vm, spec) =>
          \E t \in Statuses(plan'.vms) : t.vm = s.vm /\ t.completed]_vars

(* "Has completed." (pkg/apis/forklift/v1alpha1/plan/timed.go:52): an      *)
(* execution marked completed has no VM that is still migrating (end).     *)
EndWaitsForAll == plan.completed => \A s \in Statuses(plan.vms) : s.completed

(* "The Migration CR represents an execution of the Plan."                 *)
(* (pkg/controller/migration/doc.go:2): the plan is not executed a second  *)
(* time for one migration.                                                 *)
OneExecution ==
  [][plan.completed /\ plan'.active = plan.active => plan'.completed]_vars

(* "The actual migration is orchestrated by the Plan controller."          *)
(* (pkg/controller/migration/doc.go:4): every Migration of a valid plan is *)
(* executed at some time.                                                  *)
EveryMigrationIsExecuted ==
  \A m \in Migrations : (mig[m].state = "present") ~> (plan.active = m)

(* "Max VMs in-flight." (pkg/settings/migration.go:14): no more VMs than   *)
(* MaxInFlight are on their way at once. The loop of Run tests its counter *)
(* before it raises it, with >, and admits one more; the bound that holds  *)
(* is InFlightBound.                                                       *)
WithinLimit == Cardinality(Working(plan.vms)) <= MaxInFlight
=============================================================================
