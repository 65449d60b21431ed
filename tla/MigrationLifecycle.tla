------------------------- MODULE MigrationLifecycle -------------------------
(***************************************************************************)
(* What the Migration CRs of a plan promise to the user, whoever carries   *)
(* them out: they are executed one at a time in the order they were        *)
(* created, and each ends once, with one outcome that stays.               *)
(***************************************************************************)
EXTENDS Naturals

CONSTANT Migrations

VARIABLES
  state,  \* of each migration
  turn    \* its place in the order of creation, 0 before it exists

States == {"New", "Pending", "Running", "Succeeded", "Failed", "Deleted"}

Waiting(m) == state[m] \in {"Pending", "Running"}

Init ==
  /\ state = [m \in Migrations |-> "New"]
  /\ turn = [m \in Migrations |-> 0]

Become(m, s) == state' = [state EXCEPT ![m] = s]

(* The user creates a migration: it comes after all the others.            *)
Create(m) ==
  /\ state[m] = "New"
  /\ Become(m, "Pending")
  /\ \A n \in Migrations : turn[n] < turn'[m]
  /\ turn' = [turn EXCEPT ![m] = turn'[m]]

(* The oldest migration that has not ended begins, alone.                  *)
Begin(m) ==
  /\ state[m] = "Pending"
  /\ \A n \in Migrations \ {m} : Waiting(n) => state[n] = "Pending" /\ turn[m] < turn[n]
  /\ Become(m, "Running")
  /\ UNCHANGED turn

End(m) ==
  /\ state[m] = "Running"
  /\ \/ Become(m, "Succeeded")
     \/ Become(m, "Failed")
  /\ UNCHANGED turn

Delete(m) ==
  /\ state[m] \notin {"New", "Deleted"}
  /\ Become(m, "Deleted")
  /\ UNCHANGED turn

Next == \E m \in Migrations : Create(m) \/ Begin(m) \/ End(m) \/ Delete(m)

Spec == Init /\ [][Next]_<<state, turn>>
=============================================================================
