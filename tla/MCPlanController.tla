-------------------------- MODULE MCPlanController --------------------------
(***************************************************************************)
(* Small instances of PlanController: the plan specs of each run and, for  *)
(* the runs that take several instances together, what may happen in each. *)
(* The number of VMs in the plan tells the instances of `core` apart,      *)
(* whether there is a Migration 2 those of `live`.                         *)
(***************************************************************************)
EXTENDS PlanClaims

CONSTANTS v1, v2, v3

Plain(v) == [vm |-> v, hook |-> {}]
Hooked(v) == [vm |-> v, hook |-> HookSteps]

TwoVMs == {<<Plain(v1), Plain(v2)>>}
OneSpec == {<<Plain(v1)>>}
HookedSpecs == {<<Hooked(v1)>>, <<Plain(v1)>>}

Outage == ProviderDown \/ ProviderReconciled
SomeImportFails == \E v \in VMs, m \in Migrations : ImportFails(v, m)
FaultsOnlyOf(A) == budget' = budget \/ A

(***************************************************************************)
(* core: one VM, with or without hooks, in a plan that may be edited and   *)
(* with Migrations that may share a second; two VMs; three VMs, with one   *)
(* Migration and faults of imports and providers.                          *)
(***************************************************************************)
CoreSpecs == HookedSpecs \cup TwoVMs \cup {<<Plain(v1), Plain(v2), Plain(v3)>>}

NoTie == \A m \in Migrations : mig'[m].born = mig[m].born \/ clock' # clock

CoreSteps ==
  CASE Len(spec) = 1 -> Len(spec') = 1 /\ ~Outage
    [] Len(spec) = 2 -> spec' = spec /\ ~Outage /\ NoTie
    [] Len(spec) = 3 -> /\ spec' = spec /\ mig'[2] = NewMigration
                        /\ FaultsOnlyOf(Outage \/ SomeImportFails)

(***************************************************************************)
(* live: two VMs in a plan that may be edited, and one Migration; one VM   *)
(* and two Migrations, with an outage of the provider.                     *)
(***************************************************************************)
EditedSpecs == {<<Plain(v1), Plain(v2)>>, <<Plain(v2)>>}
LiveSpecs == EditedSpecs \cup OneSpec

LiveSteps ==
  IF spec \in OneSpec
  THEN spec' = spec /\ budget' > 0 /\ FaultsOnlyOf(Outage)
  ELSE spec' \in EditedSpecs /\ mig'[2] = NewMigration

LiveSpec == Init /\ [][Next /\ LiveSteps]_vars /\ Fairness
=============================================================================
