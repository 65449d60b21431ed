------------------------- MODULE ProviderController -------------------------
(***************************************************************************)
(* The provider controller (pkg/controller/provider) on one Provider CR:   *)
(* it validates the CR and its secret, tests the connection, keeps the     *)
(* container that mirrors the inventory (and the container's DB file), and *)
(* says whether the provider is Ready.  Passes on one CR never overlap;    *)
(* between two calls of a pass the user, the source, the container's own   *)
(* goroutine and the process go on.                                        *)
(*                                                                         *)
(* InventoryMirror is the container seen from inside.                      *)
(***************************************************************************)
EXTENDS Integers

CONSTANTS
  Specs,     \* provider specs the user may write
  Faults,    \* kinds of thing that may happen to the provider
  MaxFaults  \* bound: how many of them in a behaviour

SpecKinds == {"vsphere", "host", "invalid"}
FaultKinds == {"api", "crash", "edit", "delete", "secret", "rotate", "outage"}

ASSUME ProviderAssumption ==
  /\ Specs \subseteq SpecKinds /\ Specs # {}
  /\ Faults \subseteq FaultKinds /\ MaxFaults \in Nat

VARIABLES
  cr,         \* the Provider CR: present or not, which incarnation of its name,
              \* spec, generation, observed generation, conditions
  secret,     \* the referenced secret and the password it holds
  password,   \* the password the source accepts
  reach,      \* the source can be reached
  container,  \* the container found under the CR's name; loaded is history
  file,       \* whose rows are in the DB file of that name
  pc, p,      \* the pass and its copy of the CR
  stale,      \* the CR was written by someone else since the fetch
  queued,     \* a request for the CR is due
  budget

worldVars == <<secret, password, reach>>
passVars == <<pc, p, stale>>
vars == <<cr, worldVars, container, file, passVars, queued, budget>>

Conditions == {"Blocker", "ConnectionTested", "InventoryCreated", "Ready"}
Places == {"Idle", "Fetched", "Validated", "Tested", "Checked", "Built"}

NoContainer ==
  [uid |-> 0, gen |-> 0, spec |-> "host", key |-> 0, consistent |-> FALSE, loaded |-> FALSE]

NewCR(uid, spec) ==
  [here |-> TRUE, uid |-> uid, gen |-> 1, observed |-> 0, spec |-> spec, conds |-> {}]

Found == container # NoContainer

(* Whose rows a container writes: those of its incarnation and generation. *)
Owner(c) == <<c.uid, c.gen>>

Fault(kind) == kind \in Faults /\ budget > 0 /\ budget' = budget - 1

(***************************************************************************)
(* The pass.                                                               *)
(***************************************************************************)
HasReconciled(c) == c.observed = c.gen

(* container.Delete, Shutdown and DB().Close(true), which removes the file. *)
Dropped ==
  /\ container' = NoContainer
  /\ file' = IF Found THEN {} ELSE file

EndPass(requeue) ==
  /\ pc' = "Idle" /\ p' = cr /\ stale' = FALSE
  /\ queued' = (queued \/ requeue)

Goto(place, conds) == pc' = place /\ p' = [p EXCEPT !.conds = conds]

(* Mutant of Fetch: the conditions of an earlier pass are kept.            *)
FetchUnstaged ==
  /\ pc = "Idle" /\ queued /\ cr.here
  /\ queued' = FALSE
  /\ pc' = "Fetched" /\ p' = cr /\ stale' = FALSE
  /\ IF HasReconciled(cr) THEN UNCHANGED <<container, file>> ELSE Dropped
  /\ UNCHANGED <<cr, worldVars, budget>>

(* The fetch, and BeginStagingConditions: conditions are found anew.       *)
Fetch ==
  /\ pc = "Idle" /\ queued /\ cr.here
  /\ queued' = FALSE
  /\ pc' = "Fetched" /\ p' = [cr EXCEPT !.conds = {}] /\ stale' = FALSE
  /\ IF HasReconciled(cr) THEN UNCHANGED <<container, file>> ELSE Dropped
  /\ UNCHANGED <<cr, worldVars, budget>>

(* Mutant of FetchNotFound: the container of a deleted provider goes on.   *)
FetchNotFoundKeeps ==
  /\ pc = "Idle" /\ queued /\ ~cr.here
  /\ queued' = FALSE
  /\ UNCHANGED <<cr, worldVars, container, file, passVars, budget>>

FetchNotFound ==
  /\ pc = "Idle" /\ queued /\ ~cr.here
  /\ queued' = FALSE
  /\ Dropped
  /\ UNCHANGED <<cr, worldVars, passVars, budget>>

(* validateType, validateURL, validateSecret; a host provider has no URL   *)
(* and no secret.                                                          *)
Validate ==
  /\ pc = "Fetched"
  /\ pc' = "Validated"
  /\ p' = [p EXCEPT !.conds = @ \cup
             IF \/ p.spec = "invalid"
                \/ p.spec # "host" /\ secret.state # "complete"
             THEN {"Blocker"} ELSE {}]
  /\ UNCHANGED <<cr, worldVars, container, file, stale, queued, budget>>

Blocked == "Blocker" \in p.conds

(* An OpenShift source is never refused: its Test is to be written.        *)
Connects(spec, key) == spec = "host" \/ (reach /\ key = password)

(* testConnection, with the secret as it was validated: what was rotated   *)
(* between the two is not told apart from an earlier rotation.             *)
TestConnection ==
  /\ pc = "Validated"
  /\ Goto("Tested",
          IF ~Blocked /\ Connects(p.spec, secret.key)
          THEN p.conds \cup {"ConnectionTested"} ELSE p.conds)
  /\ UNCHANGED <<cr, worldVars, container, file, stale, queued, budget>>

(* inventoryCreated                                                        *)
CheckInventory ==
  /\ pc = "Tested"
  /\ Goto("Checked",
          IF ~Blocked /\ container.consistent
          THEN p.conds \cup {"InventoryCreated"} ELSE p.conds)
  /\ UNCHANGED <<cr, worldVars, container, file, stale, queued, budget>>

(* Mutant of Opened: the file of an earlier process is not removed.        *)
OpenedAsItIs(rows) == file \cup rows

(* db.Open(true) removes the file first.                                   *)
Opened(rows) == rows

NeedsContainer ==
  /\ ~(Found /\ HasReconciled(p))
  /\ ~Blocked /\ "ConnectionTested" \in p.conds

(* What a container is given of a secret that is read again: one that is   *)
(* incomplete by now has no password, which is never the source's.         *)
KeyRead == IF secret.state = "complete" THEN secret.key ELSE 0

SecretFound == p.spec = "host" \/ secret.state # "missing"

(* updateContainer: the secret is read again, the DB opened, the provider  *)
(* inserted and the container replaced and started.  Closing the DB of the *)
(* container that was found would remove the file of the new one.          *)
UpdateContainer ==
  /\ pc = "Checked"
  /\ NeedsContainer => SecretFound
  /\ Goto("Built", p.conds)
  /\ IF NeedsContainer
     THEN /\ container' = [uid |-> p.uid, gen |-> p.gen, spec |-> p.spec, key |-> KeyRead,
                           consistent |-> FALSE, loaded |-> FALSE]
          /\ file' = IF Found THEN {} ELSE Opened({Owner(p)})
     ELSE UNCHANGED <<container, file>>
  /\ UNCHANGED <<cr, worldVars, stale, queued, budget>>

(* The secret is gone since it was validated, or the DB cannot be opened   *)
(* or written: retried later, no status is written.                        *)
UpdateContainerFails ==
  /\ pc = "Checked" /\ NeedsContainer
  /\ \/ ~SecretFound /\ UNCHANGED <<file, budget>>
     \/ Fault("api") /\ file' \in {file, {}}
  /\ EndPass(TRUE)
  /\ UNCHANGED <<cr, worldVars, container>>

(* A read of the API server or the status update fails.                    *)
PassFails ==
  /\ pc \in {"Fetched", "Built"}
  /\ Fault("api")
  /\ EndPass(TRUE)
  /\ UNCHANGED <<cr, worldVars, container, file>>

(* The Ready condition.                                                    *)
Judged ==
  IF ~Blocked /\ {"ConnectionTested", "InventoryCreated"} \subseteq p.conds
  THEN p.conds \cup {"Ready"} ELSE p.conds

(* Mutant of WriteStatus: the CR is written whoever wrote it meanwhile.    *)
WriteStatusAnyway ==
  /\ pc = "Built" /\ cr.here
  /\ cr' = [cr EXCEPT !.observed = p.gen, !.conds = Judged]
  /\ pc' = "Idle" /\ p' = cr' /\ stale' = FALSE
  /\ \/ /\ queued' = (queued \/ ~({"ConnectionTested", "InventoryCreated"} \subseteq p.conds))
        /\ UNCHANGED budget
     \/ Found /\ Fault("api") /\ queued' = TRUE
  /\ UNCHANGED <<worldVars, container, file>>

(* Mutant of WriteStatus: a provider whose inventory loads is not retried. *)
WriteStatusOnce ==
  /\ pc = "Built" /\ ~stale
  /\ cr' = [cr EXCEPT !.observed = p.gen, !.conds = Judged]
  /\ pc' = "Idle" /\ p' = cr' /\ stale' = FALSE
  /\ queued' = (queued \/ "ConnectionTested" \notin p.conds)
  /\ UNCHANGED <<worldVars, container, file, budget>>

(* The status update, then updateProvider.                                 *)
WriteStatus ==
  /\ pc = "Built" /\ ~stale
  /\ cr' = [cr EXCEPT !.observed = p.gen, !.conds = Judged]
  /\ pc' = "Idle" /\ p' = cr' /\ stale' = FALSE
  /\ \/ /\ queued' = (queued \/ ~({"ConnectionTested", "InventoryCreated"} \subseteq p.conds))
        /\ UNCHANGED budget
     \/ Found /\ Fault("api") /\ queued' = TRUE
  /\ UNCHANGED <<worldVars, container, file>>

(* The update conflicts, or the CR is gone.                                *)
WriteConflicts ==
  /\ pc = "Built" /\ stale
  /\ EndPass(TRUE)
  /\ UNCHANGED <<cr, worldVars, container, file, budget>>

Pass ==
  \/ Fetch \/ FetchNotFound
  \/ Validate \/ TestConnection \/ CheckInventory
  \/ UpdateContainer \/ UpdateContainerFails
  \/ WriteStatus \/ WriteConflicts \/ PassFails

(* A new process finds the CRs and the files, and reconciles every CR.     *)
Crash ==
  /\ Fault("crash")
  /\ container' = NoContainer
  /\ EndPass(TRUE)
  /\ UNCHANGED <<cr, worldVars, file>>

(***************************************************************************)
(* The container's goroutine.                                              *)
(***************************************************************************)
MirrorLoads ==
  /\ Found /\ ~container.consistent
  /\ Connects(container.spec, container.key)
  /\ container' = [container EXCEPT !.consistent = TRUE, !.loaded = TRUE]
  /\ UNCHANGED <<cr, worldVars, file, passVars, queued, budget>>

(* A session needs the password at its start only.                         *)
MirrorLost ==
  /\ Found /\ container.consistent
  /\ container.spec # "host" /\ ~reach
  /\ container' = [container EXCEPT !.consistent = FALSE]
  /\ UNCHANGED <<cr, worldVars, file, passVars, queued, budget>>

(***************************************************************************)
(* The user and the source.  ProviderPredicate queues what is created,     *)
(* deleted or has a new generation; the watch on secrets queues the        *)
(* providers that refer to one.                                            *)
(***************************************************************************)
WriteCR(new) ==
  /\ cr' = new
  /\ queued' = TRUE
  /\ stale' = (pc # "Idle")
  /\ p' = IF pc = "Idle" THEN new ELSE p
  /\ UNCHANGED <<worldVars, container, file, pc>>

Edit(s) ==
  /\ cr.here /\ Fault("edit")
  /\ WriteCR([cr EXCEPT !.spec = s, !.gen = @ + 1])

Delete ==
  /\ cr.here /\ Fault("delete")
  /\ WriteCR([cr EXCEPT !.here = FALSE])

Recreate(s) ==
  /\ ~cr.here
  /\ WriteCR(NewCR(cr.uid + 1, s))
  /\ UNCHANGED budget

WriteSecret(new) ==
  /\ secret' = new
  /\ queued' = TRUE
  /\ UNCHANGED <<cr, password, reach, container, file, passVars>>

SpoilSecret(state) ==
  /\ Fault("secret")
  /\ WriteSecret([secret EXCEPT !.state = state])

UpdateSecret ==
  /\ secret # [state |-> "complete", key |-> password]
  /\ WriteSecret([state |-> "complete", key |-> password])
  /\ UNCHANGED budget

Rotate ==
  /\ Fault("rotate")
  /\ password' = password + 1
  /\ UNCHANGED <<cr, secret, reach, container, file, passVars, queued>>

Outage ==
  /\ reach /\ Fault("outage")
  /\ reach' = FALSE
  /\ UNCHANGED <<cr, secret, password, container, file, passVars, queued>>

OutageEnds ==
  /\ ~reach /\ reach' = TRUE
  /\ UNCHANGED <<cr, secret, password, container, file, passVars, queued, budget>>

User ==
  \/ \E s \in Specs : Edit(s) \/ Recreate(s)
  \/ Delete
  \/ \E state \in {"missing", "incomplete"} : SpoilSecret(state)
  \/ UpdateSecret

Source == Rotate \/ Outage \/ OutageEnds

Init ==
  /\ \E s \in Specs : cr = NewCR(1, s)
  /\ secret = [state |-> "complete", key |-> 1] /\ password = 1 /\ reach = TRUE
  /\ container = NoContainer /\ file = {}
  /\ pc = "Idle" /\ p = cr /\ stale = FALSE
  /\ queued = TRUE /\ budget \in 0 .. MaxFaults

Next == Pass \/ Crash \/ MirrorLoads \/ MirrorLost \/ User \/ Source

Spec == Init /\ [][Next]_vars

(* A worker serves the queue, the container's goroutine retries until shut *)
(* down, and an outage ends.                                               *)
Fairness == WF_vars(Pass) /\ WF_vars(MirrorLoads) /\ WF_vars(OutageEnds)

FairSpec == Spec /\ Fairness

(***************************************************************************)
(* Properties.                                                             *)
(***************************************************************************)
CRType == [here : BOOLEAN, uid : Nat, gen : Nat, observed : Nat,
           spec : SpecKinds, conds : SUBSET Conditions]
ContainerType == [uid : Nat, gen : Nat, spec : SpecKinds, key : Nat,
                  consistent : BOOLEAN, loaded : BOOLEAN]

(* Every variable has its type.                                            *)
TypeOK ==
  /\ cr \in CRType /\ p \in CRType
  /\ secret \in [state : {"complete", "incomplete", "missing"}, key : Nat]
  /\ password \in Nat /\ reach \in BOOLEAN
  /\ container \in ContainerType
  /\ file \subseteq Nat \X Nat
  /\ pc \in Places /\ stale \in BOOLEAN /\ queued \in BOOLEAN /\ budget \in Nat

AtRest == pc = "Idle" /\ ~queued

(* When nothing is left to do for a provider, its container is the one of  *)
(* the CR as it is: none outlives the CR, its incarnation or the           *)
(* generation it was built from (Reconcile, updateContainer).              *)
ContainerIsCurrent ==
  AtRest /\ Found => cr.here /\ container.uid = cr.uid /\ container.gen = cr.gen

(* The DB file has the rows of the container that is running and no other: *)
(* neither a container that was shut down, nor one of another process,     *)
(* nor the closing of an old DB of that name, leaves or removes rows.      *)
FileIsTheContainers == Found => file = {Owner(container)}

(* A provider at rest that says Ready has a container of its present spec  *)
(* which loaded the inventory: neither an edit, a conflict nor a restart   *)
(* leaves the condition behind (Reconcile).                                *)
ReadyIsBacked ==
  AtRest /\ cr.here /\ "Ready" \in cr.conds =>
    container.loaded /\ container.gen = cr.gen /\ container.uid = cr.uid

Healthy ==
  /\ cr.here /\ cr.spec # "invalid" /\ reach
  /\ secret = [state |-> "complete", key |-> password]

(* A provider whose CR, secret and source are in order becomes ready and   *)
(* stays so, unless its container runs on a password that is no longer     *)
(* accepted (Reconcile, its requeues and the watches).                     *)
ReadyInTheEnd ==
  <>[](Healthy /\ (Found => Connects(container.spec, container.key)) =>
         "Ready" \in cr.conds /\ cr.observed = cr.gen)
=============================================================================
