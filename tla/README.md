# A TLA+ project for forklift-controller (virt-controller)

The program migrates virtual machines from vSphere to OpenShift Virtualization.
A user describes a migration in a `Plan` CR and runs it by creating a
`Migration` CR; controllers carry it out by creating `VirtualMachineImport` CRs
on the destination cluster and polling them. This directory models the parts of
it that decide what happens to a VM, checks them with TLC on small instances and
proves the main facts about them with TLAPS for every instance.

## 1. Inventory

Paths are below `src/pkg`; "hard" is what makes the component hard to test.

| Component | State | Operations | Hard | Right when |
|---|---|---|---|---|
| Plan controller `controller/plan/{controller,migration,predicate,validation}.go` | `Plan.Status`: conditions (Executing, Succeeded, Failed are durable), timestamps, active Migration UID, one `VMStatus` per VM (phase, pipeline, error); inside a pass: the fetched copy, the in-flight counter, the list of imports | Reconcile: validate, write Ready, `execute` (choose the oldest pending Migration, snapshot, `begin`, one step per VM, `end`), write the status, requeue | effects on another cluster before one status write at the end; another controller's copy of its own state read back; edits during a pass | a VM reported done was imported; the outcome agrees with the VMs; one execution at a time; the limit; every Migration ends |
| Migration controller `controller/migration` | `Migration.Status`: timestamps, VMs, conditions | Reconcile: validate the plan, `reflectPlan`, write | runs at any time relative to the plan controller | an ended Migration is true and never changes |
| API types `apis/forklift/v1alpha1` | the CRs | `MarkStarted/Completed/Reset`, `FindVM`, `ReflectPipeline`, snapshot annotations | - | - |
| KubeVirt `controller/plan/kubevirt.go` | secrets, imports, namespace on the destination | `EnsureSecret`, `EnsureImport`, `SetSecretOwner`, `ensureObject`, `ImportMap` | three calls, each may fail; delete-and-create with bounded retries | an import belongs to one VM of one Migration |
| Builder `controller/plan/builder/vsphere` | maps loaded per pass | `Import`, `Secret`, `Tasks`, mapping of networks and storage | name or ID references, per-host credentials | every disk and NIC is mapped to its pair |
| vSphere mirror `controller/provider/container/vsphere` | SQLite mirror, property-collector version, consistency flag, analysis watches | `getUpdates`: enter/modify/leave in one transaction per update set; reconnect; analyze | lost connections, failed transactions, concurrent analysis | the mirror converges to the source |
| OpenShift mirror `controller/provider/container/ocp` | the same for three collections; the version threshold | list, then watch | events during the list, or older than it | the same; no row goes backwards |
| Provider controller `controller/provider` | provider conditions; container map; DB file per provider | validate, test, build or replace the container, Ready | ten concurrent workers; edit, delete and secret changes | one live container per provider on its own DB; Ready means so |
| Inventory model, tree `controller/provider/model`, `web/vsphere/{tree,host}.go` | rows of objects with their references | VM and host trees, paths, a host's network adapters, each read row by row | the mirror is updated in between; lists that are reported separately | an answer shows what was there all the time; every request ends |
| Inventory web API and client `controller/provider/web` | - | GET handlers; client with typed errors | statuses that are swallowed | errors the controllers tell apart are told apart |
| Validation `controller/validation`, `plan/validation.go` | conditions | rules on providers, networks, storage, VMs | - | a Ready plan has no dangling reference |
| Host, network map, storage map controllers | conditions | validate, stage conditions, write | observed generation | Ready is about the present generation |
| Settings, manager, webhooks, generated code | - | start-up | - | - |

**How they interact.** Controllers share no memory: each reads and writes CRs
through the API server, and is told of changes by watches whose predicates drop
part of them. The plan controller is queued by new and edited plans, by new
Migrations, by Migrations deleted after their start, and by reconciled
providers; during an execution it requeues itself (nothing watches the imports).
The migration controller is queued by every change of a reconciled plan. The
plan controller reads `Migration.Status.Started`, which the migration controller
copies from the plan: a loop of information with a delay in it, and the origin
of several findings below. Providers become ready through the provider
controller and its mirrors; validations and the builder read the inventory
through the web client.

## 2. Plan

Done, in the order of their weight: the plan controller and what it promises
(`Itinerary`, `PlanController`, `MigrationLifecycle`, `PlanClaims`), the vSphere
mirror (`InventoryMirror`), the provider controller (`ProviderController`), what
the other controllers make of a provider (`InventoryClient`, `Validation`,
`Readiness`), the creation of imports (`Builder`, `KubeVirt`), what is read from
the inventory and how it gets there (`InventoryTree`, `HostNetworking`,
`OcpInventory`), VMs listed by name (`PlanReferences`), and proofs about all of
them: every invariant and every action property of a passing run is a theorem,
some under the hypotheses that section 6 names.

Composition: `Readiness` extends `ProviderController` and runs both controllers
on their shared state; `KubeVirt` extends `Builder`, and both look things up
through `InventoryClient`, which `Readiness` uses with the provider's container
as its service. `PlanController` has the whole of `KubeVirt` as one step and the
verdict of `Validation` as a Boolean; `ProviderController` has the whole of
`InventoryMirror` as a container that is loaded or not. `InventoryTree` and
`HostNetworking` have the update sets of `InventoryMirror` with the properties
that it abstracts; `PlanReferences` has the loop of `PlanController` by its ends.

Wanted next: what the hypotheses of two theorems leave out - imports that a user
deletes, and Migrations created in the same second - as weaker properties of
their own.

## 3. Modules

- **`Itinerary`**: phases, steps and their order (`migration.go` `itinerary`,
  `Predicate`, `next`, `buildPipeline`), as operators.
- **`PlanController`**: one plan with its Migrations, imports and user.
  | Variable | Code |
  |---|---|
  | `spec`, `plan` | `Plan.Spec.VMs`, `Plan.Status` as persisted |
  | `mig` | the Migration CRs matching the plan, with the snapshot annotation |
  | `imports` | the imports by VM and Migration (their name holds both) |
  | `pc`, `w`, `i`, `inFlight`, `more` | the pass: `execute` and `Run` on the fetched copy |
  | `stale` | the plan's resource version has moved since the fetch |
  | `queued`, `up` | the work queue of the plan; the providers and their inventory |
  | `migrated`, `budget`, `clock` | history of VMs brought over; faults left; creation timestamps |

  `ReconcileBlocked/Nothing/Run/Fails` are a pass up to the loop over the VMs,
  `Run...`, `SkipCompleted`, `BreakAtLimit` one iteration each, `Finish` is
  `end` and the status write, `Reflect` a reconcile of the migration
  controller. Operators carry the code's names: `MarkStarted`, `Begin`,
  `UpdateVM`, `End`, ... Timestamps are Booleans, errors a Boolean, a hook the
  set of its ends, the pipeline the set of its steps and the completed ones.
- **`MigrationLifecycle`**: what the Migrations of a plan promise: one at a
  time, in the order of creation, each with one outcome that stays.
  `PlanController` implements it (`ImplementsLifecycle`) by the mapping
  `LifecycleState`.
- **`PlanClaims`**: five things that comments of the repository say and the code
  does not do, each for a run of its own.
- **`InventoryMirror`**: the vSphere reconciler, its DB and its two watches.
  | Variable | Code |
  |---|---|
  | `source` | the objects in vSphere |
  | `told` | what the property collector of this session last reported |
  | `db` | the rows: an object's properties (`data`), a host's VMs, `Revision`, `RevisionAnalyzed`; `judged` is history: the properties the last analysis saw |
  | `session`, `consistent` | between `connect` and the error that ends `getUpdates`; `Reconciler.consistent` |
  | `vmEvents`, `clusterEvent` | events the watches have still to handle |
  | `missed`, `unjudged`, `unreported`, `leftover` | history of the session: objects of rolled-back sets, VMs whose analysis failed, objects there at its start and not yet reported, rows there at its start |

  `Receive` is one turn of the loop of `getUpdates` (one update set, its
  transaction, the consistency flag, the start of the watches), `Connect` its
  prologue, `Lost` its error returns with the deferred clean-up, `AnalyzeVM` and
  `AnalyzeCluster` the watches' transactions, `Restart` a new process (or a new
  container), which opens the DB empty.
- **`ProviderController`**: one provider, its container and its DB file.
  | Variable | Code |
  |---|---|
  | `cr` | the Provider CR; `uid` tells one incarnation of its name from the next |
  | `secret`, `password`, `reach` | the referenced secret (complete or not, and its password); what the source accepts; whether it answers |
  | `container` | what the container map has under the CR's name: the CR it was built from, the password it was given, its consistency; `loaded` is history |
  | `file` | whose rows the DB file of that name has |
  | `pc`, `p`, `stale`, `queued` | the pass, its copy of the CR, whether the CR has moved since, the queue |

  `Fetch` (with the removal of an outdated container), `Validate`,
  `TestConnection`, `CheckInventory`, `UpdateContainer` and `WriteStatus` are
  the calls of `Reconcile` in their order; the user, the source, the container's
  goroutine and a restart take their steps between any two of them.
- **`InventoryClient`**: operators for a lookup: the handlers with their statuses
  and path filters, `ProviderClient` and the finder's `ByRef` with its results.
- **`Validation`**: operators for the conditions made of these results, each
  list of entries with the condition type its code gives each fault.
- **`Readiness`**: a CR that refers to the provider - a Host, a map's source or
  destination, or a plan - and its controller's pass, lookup by lookup.
  | Variable | Code |
  |---|---|
  | `kind`, `named`, `rows` | which CR it is; whether it names the provider; the inventory's objects |
  | `dep` | its generation, observed generation, references and conditions |
  | `dpc`, `d` | the pass: what it has read of the provider, the answers so far, the staged conditions; `d.found` is the client that has been answered once |
  | `dstale`, `dqueued` | as above; `Notified` is `ProviderPredicate` |
- **`Builder`**: operators for `Load`, `Secret` and `Import`: which host answers,
  which IDs it gives, which entries of the map are used.
- **`KubeVirt`**: the calls that create the secret, the import and the owner
  reference of each VM, with retries, against a destination that collects
  garbage and delays deletions.
  | Variable | Code |
  |---|---|
  | `imports`, `secrets` | the objects on the destination by name: the VM's ID and the last characters of the Migration's UID |
  | `vms`, `active` | `VMStatus` as persisted, by position in the plan; the Migration |
  | `pc`, `w`, `i`, `retry`, `object`, `listed` | the pass of `Migration.Run`: its copy, the VM it is at, the object in hand, the `ImportMap` |
  | `hosts`, `found` | `Builder.hosts`; the inventory client |
  | `hostCRs`, `place`, `inv`, `classes` | the Host CRs; where VMs run; the source's and the destination's inventory |
- **`PlanReferences`**: the statuses of a plan whose VMs are listed by ID or by
  name, over several executions and edits.
  | Variable | Code |
  |---|---|
  | `listed`, `vms`, `condition` | `Plan.Spec.VMs`; `Status.Migration.VMs`, each with the reference it was made with; the plan's condition |
  | `asked`, `anonymous`, `migrated` | history: the list that the execution began with, whether a status without an ID was kept, the VMs imported |

  `Begin` is `begin`, `End` is `end`; a VM is given up before or after
  `buildImport` writes the ID into its status (`GivenUp`), or has its import
  created (`ImportCreated`), which ends (`ImportEnds`).
- **`InventoryTree`**: one request - a VM tree, a host tree or a VM's path - and
  the mirror it reads.
  | Variable | Code |
  |---|---|
  | `place`, `told`, `rows`, `missed` | where VMs and folders are in vSphere; what was last reported; the rows with parent and references; objects of rolled-back sets |
  | `request` | the handler: the frames of `walk` (the path to an object and its references still to be visited), what it shows, its end: answered, failed (500) or not found |
  | `steady`, `ever`, `vanished` | history: the references between rows that there were all the time or at some time since the request began; objects without a row at some time |

  `Receive` is the transaction of an update set; `Visit` is one turn of a loop in
  `walk`, with `getRef`; `Climb` is one turn of the loop in `Path`.
- **`HostNetworking`**: the four lists of a host's networking.
  | Variable | Code |
  |---|---|
  | `host`, `row` | the networking in vSphere; `Host.Network` in the DB |
  | `pending`, `hostSession`, `modified` | properties to be reported; the session; history: those reported again in it |

  `Entered` and `Modified` are `applyEnter` and `applyModify` with
  `HostAdapter.Apply`; `Adapters` is `AdapterBuilder.build`; `Sorted` is
  `sort.Slice` in both.
- **`OcpInventory`**: the three collections of an OpenShift provider.
  | Variable | Code |
  |---|---|
  | `cluster`, `resources` | the resource of each kind in the cluster, by its version; the DB |
  | `session`, `todo`, `list`, `watching`, `events` | libocp's loading of the collections, its watches and the events still to be delivered |
  | `threshold` | what `UpdateThreshold` has raised |
  | `early` | history: kinds that changed since the session began to load |

  `List` and `Insert` are `Reconcile` of a collection, `Deliver` with `Followed`
  its `Create`, `Update` and `Delete`.
- **`MC...`**: the instances of the runs; `MCRemote` puts `InventoryMirror` and
  `KubeVirt` in one run, `MCLookups` four modules.
- **`...Proofs`**: section 6. `PlanProgressProofs` and `PlanLifecycleProofs` rest on
  `PlanControllerProofs`; `ReadinessProofs` has the provider's proofs and the
  composition's; `LookupsProofs` those of `OcpInventory`, `InventoryTree` and
  `HostNetworking`.

Operators commented as a *mutant* are the code with a plausible bug: substituted
for the definition they name, they violate a property of a run, which shows that
the property depends on that piece of code.

### What `PlanController` merges

- *A pass up to the loop is one step.* It writes only the Ready condition and
  the snapshot. An edit of the plan in that stretch makes its first status write
  fail, as if the pass had not begun; an edit after it is `EditPlan` in the pass.
- *The imports are read when a VM needs them.* The code reads them once per
  pass; imports of different VMs are independent, so an earlier reading is the
  model's with the import's progress later.
- *A reconcile of the migration controller is one step.* It reads the plan once
  and writes the Migration once; a conflict repeats it.
- *A crash happens inside a pass.* Between passes nothing is in memory but the
  queue, which a restart fills again.
- *Imports of a Migration are told apart by its name* (the code uses the last
  four characters of its UID: collisions are in `KubeVirt`).
- `ensureObject` deletes and recreates at most three times; that an object with
  a finalizer is still there after the third is a choice that needs no fault.
- A DataVolume may or may not have reported Ready when its import succeeds.
- A plan is never deleted; `postpone()`, which only delays a pass, is left out;
  caches are as fresh as the API server.

### What the other modules merge

- `ProviderController`: the three validations of a CR and its secret are one
  step; a secret that is incomplete when it is read again makes a container with a
  password that is never accepted (`KeyRead`); `testConnection` uses the secret as it is then. `updateProvider`, which
  refreshes a row of the container's DB, is part of `WriteStatus`.
- `Readiness`: of a CR's own fields its references are kept; a host's address and
  secret and a map's other side are in order. A pass of a plan is one that does
  not execute it.
- `KubeVirt`: a VM uses what it uses for good, and only moves; an import reads
  its secret when it ends; a deletion of an import with a finalizer is done later
  or at once; of `PlanController`'s statuses only the phases around the import
  are kept. A Host CR is of the host its reference names.
- Inventories do not change their objects in `Readiness` and `KubeVirt`: what
  comes and goes is the inventory as a whole.
- `KubeVirt` notes a VM's ID at its first lookup, the code at its second; nothing
  there depends on it, and `PlanReferences` has the difference.
- `PlanReferences`: the steps of the loop on a VM up to a failure, its import or
  its import's end are one; `end` may come some steps after it could. Two
  statuses that are one object until they are written step separately.
- `InventoryTree`: one request at a time, references in any order. Folders are
  only moved; the VMs are on one host. A vApp is the reference of another kind.
- `HostNetworking`: the adapters are of the row as it is; `withDPG` reads the
  same host row once more. A switch or port group is found by one key. `sort.Slice`
  may put equals in any order; `Sorted` leaves them as they are.

### What `InventoryMirror` takes from libraries

The property collector and the inventory DB are libraries whose code is not in
the repository. From how the code uses them:

- A new filter reports every object as entering, then changes only; a set that
  leaves out some of what changed is `Truncated`; versions advance with each
  set, whatever became of the one before.
- `Tx.Insert` of a row that exists replaces it (each session inserts `About`,
  and all objects, again). Deleting a row that does not exist may be an error or
  not: both are steps. A transaction is atomic and transactions are serial.
- `DB.Watch` tells the watch of every row there is, then of each committed
  change; ending a watch drops its events.
- An update set without content ends the session, as its re-login gives the
  collector up.

libocp, from how the collections use it: it loads them in their order, again
from the first when one fails, and watches the object of each from some time in
the load on. A watch begins with what there is. Events wait until all is loaded;
those of versions up to the threshold are dropped. The DB of a new container is
empty; a row's key is the namespace and name.

In `InventoryMirror` an object's properties are one number that a change increments; the code updates
the changed properties only, which differs only for an object in `missed`, of
which no property speaks. The inventory has one cluster with one host.

## 4. Runs

`CHECK_DEADLOCK FALSE` because the systems rightly stop: all Migrations have
ended, or a source or a provider is at rest.

| Run | Asks | Instance | Result |
|---|---|---|---|
| `core` | types, imports behind phases, outcomes of plan and Migrations, ended ones frozen, VMs at once | together: 2 VMs and 2 Migrations; 1 VM and 2 Migrations that may share a second; 3 VMs with a limit of 1; one fault | holds, 1.9 M states; `InFlightBound` holds at limit + 1, `limit` shows that no less does |
| `lifecycle` | refinement of `MigrationLifecycle`; no VM is reported migrated that was not | 1 VM with or without hooks, 3 Migrations, one fault of any kind | holds, 0.5 M states |
| `live` | every Migration ends | together: 2 VMs, 1 Migration, any two faults; 1 VM, 2 Migrations, a provider outage | holds |
| `kept`, `ending`, `execution`, `stuck`, `limit` | one claim of `PlanClaims` each | the smallest that shows it; for `limit` two VMs, a limit of one and no fault | violated |
| `remote` | of the mirror: rows agree with reports; consistent means loaded; no analysis lost; the mirror converges. Of the imports: secret, import, mapping and owner belong together; every VM ends | together: `InventoryMirror` with 2 VMs, 1 port group, one cluster and host, one change, one fault of any kind; `KubeVirt` with 2 VMs (by ID, by name) on 2 hosts, 3 lists of Host CRs, 2 Migrations with equal names for their imports, one fault of any kind | holds, 0.3 M states |
| `ghosts` | no row without an object | 2 VMs, 2 changes, one lost connection | violated |
| `readiness` | one container per provider on its own file; Ready is backed, earned, shared and reached | a vSphere or host provider and a CR of each of six kinds with references by ID, by name, qualified rightly or wrongly, ambiguous, dangling, unset or repeated; one fault of any kind, or two for a CR that names no provider | holds, 0.54 M states |
| `lookups` | a tree or path shows what was in place all the time and nothing that never was, and every request ends; all virtual NICs are adapters, in order, with their MTU, with their speed while only virtual NICs are reported again, and exactly the host's until any are; no OpenShift row goes backwards, and that inventory catches up; VMs listed by name or ID have their own status, and success means migrated | together: `InventoryTree` with 1 VM, 2 folders, any 2 changes or rolled-back sets, each of three routes; `HostNetworking` with 2 virtual and 2 physical NICs, 1 switch with a port group, 2 distributed groups of which one is not in the mirror, 2 changes or lost connections; `OcpInventory` with 3 collections, 3 changes, one failed collection or restart; `PlanReferences` with 2 VMs by ID or name, 2 edits, 3 executions | holds, 0.4 M states |

*Why the bounds suffice.* Two VMs give a VM before and one after a failed one,
and a last one that `begin` keeps and another that it forgets. Two Migrations
give an ended one beside a new one, three a queue with an order. A limit of one
with three VMs lets the loop break before the end of the list. The action constraint `CoreSteps` tells
the three instances of `core` apart: which of them has edits, outages, failed
imports and Migrations of one second. Faults are
bounded by `MaxFaults`; one or two suffice for each interplay named in the
hazards (a lost pass and a retry, a failure and a re-execution). The clock moves
only when a Migration is created.

For the mirror in `remote`, one change and one fault are enough to meet each other at every
point of a session and of the next one: a rolled-back set followed by a change
or a removal of its objects, a change while the connection is down, an analysis
before, between and after the updates of its row. (With two changes, or one VM
and two faults and changes, the run holds too, in minutes.)

For `readiness`, a fault is a thing done to the provider or the CR: an edit, a
deletion (re-creation is free), a broken secret (correction is free), a rotated
password, an outage, a failed call, a restart. One of them meets every call of
both passes; with two, and a CR that does not name the provider, they meet each
other, as an edit and a conflict, a deletion and a re-creation, or a restart and
an edit do. For the imports in `remote` one fault meets every call; two have no
violation of the invariants either (2 M states, without liveness). The inventory
has two hosts, so that a Host CR may be of another host than the VM's. What does
not depend on the bounds is proved in section 6.

In `remote` and `lookups` a variable `subject` says which of the modules a
behaviour is of; the others stay as they begin, and a liveness property of one
is about the behaviours of its subject: `SourceIsMirrored` is `MirrorConverges`,
`ImportsEnd` is `EveryVMEnds`, `OcpConverges` is `InventoryConverges`. For
`InventoryTree`, two folders, one in the other, and two events are the least
that make a cycle of rows: two moves of which the mirror has seen parts. A VM
whose creation was rolled back may be missing from the start. `MaxDepth` bounds
how often a request goes round while such a cycle lasts: it then waits for the
mirror. For `OcpInventory`, three changes let a kind change before, during and
after its list, or be deleted between two versions. (With four changes, and
every networking a host may begin with, the two hold as well.) For
`PlanReferences`, a plan begins three times: with a status that is kept, one
found by another entry, and one that is forgotten.

*Fairness.* Weak fairness of `Pass`: the work queue serves requests and the
process runs. Of `Reflect`: every status write of the plan triggers the
migration controller. Of `ProviderUp` and `ImportSucceeds`: an outage ends and
an import comes to an end. Without the last two no plan could promise anything.
Faults and the user are not fair; users create Migrations or not.
`EveryMigrationEnds` is conditional on what the code can deliver: with two
Migrations there is no import fault, because with one the plan is executed twice
and the second Migration may never run - this is the run `stuck`. For the mirror:
weak fairness of `Connect` (the loop of `Start` retries until shut down), of the
arrival of some update set while anything changed (`WaitForUpdatesEx` returns),
and of each watch, which has a goroutine. `SourceIsMirrored` is about objects of
no rolled-back set: those of one are lost until the next session. For
`Readiness`: of both passes, of the container's goroutine and of the end of an
outage. For `KubeVirt`: of the pass, of the destination (its import operator,
finalizers and collector) and of the return of the inventory. For
`InventoryTree`: of update sets (`Updates`) and of the handler (`Answering`).
For `OcpInventory`: of the library's loading and of its delivery of events.

*What properties except, and why.* `ReadyInTheEnd` excepts a container on a
password that is no longer accepted, which nothing replaces. `ReadyIsReached` is
about a source that answers throughout: an outage may leave a verdict that is
not retried (finding 10). `ReadyIsShared` excepts a provider edited since it was
reconciled (finding 11). `SecretFitsImport` excepts a VM that moved during the
pass, `MappedAsPlanned` a mapping lost with its error (finding 12).
`RequestsEnd` excepts a rolled-back set: with one of its rows missing the others
may be a cycle for good, and `walk` and `Path` have no limit (the run without
the exception is violated so). `OcpConverges` excepts a kind that changed while
the session began: the threshold is shared by the collections, so that a change
between the list of one and the list of another can be below it and is dropped.
`FoundIsOwn` and `SucceededMeansMigrated` except executions that keep a status
without an ID (finding 7).

## 5. Findings

1. `kept`: `begin` re-declares `kept` in the loop and forgets all statuses but
   the last: VMs that completed are migrated again.
2. `ending`: `end` breaks at the first failed VM and closes the plan while
   later VMs are still being imported.
3. `execution`: whether a Migration is new is read from a copy that lags. A pass
   before the copy resets the plan's timestamps and, if the plan had ended,
   executes it again for the same Migration.
4. `stuck`: an executing plan is not validated, so its `Referenced` is empty when
   another Migration becomes the oldest; a snapshot of nulls is recorded for good
   and that Migration, with all after it, never runs.
5. `ghosts`: a session starts on the rows of the one before, and an object
   destroyed in between is never reported: its row stays, and the mirror says it
   is consistent.
6. `limit`: "Max VMs in-flight." (`settings/migration.go:14`) is one less than what
   `Run` allows: it breaks when `inFlight > MaxInFlight`, before it counts the VM
   at hand. The first pass over two VMs with a limit of one starts both, with no
   fault needed; the default of 20 allows 21. `WithinLimit` is the claim;
   `InFlightBound`, the limit and one more, is what holds, and is proved.

What the models have as the code does, and their properties therefore except, or
what reading for them showed, without a run of its own:

7. A status is found by ID, which is empty for a VM listed by name until its
   import is built: a VM that took the place of one that failed before that is
   not migrated, the other is, and the plan succeeds. `HostAdapter.Apply` appends
   the switches, port groups and NICs of an update to those of the row, so after
   any change of a host's networking removed NICs are still its adapters and the
   others are listed twice. `Namespace.Object` returns a StorageClass: storage
   classes are watched for the namespaces, and their events fail the cast. A Host
   of a provider that lost its source says Ready for ever: its validation asks
   the inventory of a provider that is not Ready, which answers so, and the pass
   is retried without writing what it had found. (Maps whose destination it is
   behave the same; sources of maps and plans return before.)
8. After a lost pass `ensureObject` deletes and recreates an import whatever its
   state, so a VM whose import had succeeded is imported twice.
9. The objects of an update set that failed to apply stay missing or old for the
   session, and a later set that touches one that has no row is rolled back
   whole; a distributed port group or switch is never removed, as `applyLeave`
   has no case for them (`Left`).
10. `ProviderClient.List` takes every status but 200 for an empty list: an
    inventory lost after the client was answered says "not found" of a reference
    by name, and that verdict is written and not retried. A host whose connection
    test failed is not retried either, and its `Reconcile` forgets the request
    when its first read fails.
11. A provider that is deleted after an edit and before it was reconciled is
    dropped by `ProviderPredicate.Delete`: the CRs that refer to it stay Ready. A
    rotated password reaches the test and not the container (`updateContainer`
    returns when the provider has reconciled).
12. `loadHosts` keeps the address of its loop variable: every entry of `hosts` is
    the last Host of the list, so with two Host CRs the VMs of the other host
    fail when their networks are translated. `mapping` returns the wrong variable when a
    storage class cannot be read, and the import is created without mappings.
    The builder wraps lookup errors, so an inventory lost between two lookups
    fails the VM, where before the first it delays the pass.
13. A VM given up after its import was created (an error of `SetSecretOwner`)
    leaves that import running unwatched. A finalizer on an import makes the
    three retries of `ensureObject` run out.
14. A qualified name is accepted when one object has the name, wherever it is
    (`filter` returns for fewer than two); a storage entry that is not set gives
    a condition about networks (`ValidateStorage`).
15. A tree is no transaction: an object that moves while it is built may be in it
    twice or not at all, and one that is removed after it was listed makes the
    whole tree an error 500, although the rows were consistent at every moment.

## 6. Proofs

Each proof has the same shape: an inductive invariant, a lemma per operator, a lemma
per action, and a theorem that combines them. The invariants were checked
with TLC before they were proved.

### The plan controller

Assumed are the named assumptions of `PlanController`: Migrations are numbered
from 1 in name order, a plan lists a VM at most once (the validation's
DuplicateVM), the limit is positive. Two theorems have a hypothesis more.

- **`TypeCorrect`** (`PlanControllerProofs`): `Spec => [](TypeOK /\ RunIsActive)`.
  `TypeOK` alone is not inductive: a step that creates an import writes it under
  the active Migration of the pass, so `RunIsActive` (a pass in the loop has
  one) is carried along. One lemma per operator (`KeptType`, `UpdateVMType`,
  `EndType`, ...), one step per action.
- **`SuccessIsAlwaysReal`**: `Spec => []SuccessIsReal`.
  The property says nothing of a VM before it completes, so it is strengthened
  to `GenuineInv`: a VM whose phase has passed the import, or whose pipeline
  is complete, without an error, is in `migrated` - in the persisted plan and in
  the pass's copy. The case that matters is `UpdateVM`, where success comes
  from the import; `Begin` keeps a status only when it is genuine already.
- **`OutcomeAlwaysAgrees`**: `OutcomeInv` says it of the persisted plan and of the
  pass's copy, with the conditions as one of four sets: a copy that has ended is
  what the next write persists.
- **`MigrationOutcomeAlwaysReal`, `EndedIsAlwaysFrozen`**: `RecordInv` says of each
  Migration that its record is true (`Truthful`). What `reflectPlan` takes over is
  true because the plan agrees with its VMs (`OutcomeInv`) and these are genuine
  (`GenuineInv`); afterwards `migrated` only grows and the record stays.
- **`InFlightIsBounded`** (`PlanProgressProofs`): the limit and one more, as the limit
  itself is not kept (`WithinLimit`, run `limit`). The limit is on a counter of one pass,
  the property a count over the persisted VMs, which an earlier pass wrote and
  a lost one did not. `LoopInv` relates them: the VMs behind the loop's position
  are at most `inFlight`, and those ahead of it that are on their way fit in what the limit
  leaves, or there are none. `Sound` says which statuses count at all.
- **`ImportAlwaysBacksPhase`**, where nobody else deletes imports
  (`"importDeleted" \notin Faults`, as in the run: with deletions it is false, and
  the VM is failed by the next pass). The import is created before the plan is
  written, so `BackedInv` speaks of the VMs that the pass has dealt with, and
  those it has not are as persisted or have no import to wait for.
- **`LifecycleIsImplemented`** (`PlanLifecycleProofs`):
  `Spec => ImplementsLifecycle`, where creation timestamps tell Migrations apart
  (`~SameSecond`). With two of one second the order is by name, and
  one created later can come first, so that "the oldest that waits" changes under a pass. `OrderInv` has what
  the mapping needs: the active Migration, of the plan and of the copy, has ended or
  is older than all others that have not. Each action is a step of `MigrationLifecycle` or
  leaves its variable as it is (`StepRefines`). The attempt showed that two
  guards of `LifecycleState` overlapped for a Migration deleted after its end; they are disjoint now.
- **`FoundIsAlwaysOwn`, `SucceededAlwaysMeansMigrated`, `ReferencesTypeCorrect`**
  (`PlanReferencesProofs`), for any VMs and any list. `OwnInv`: every status is
  `Honest` - its ID is empty or its VM's, and done means migrated - and what the execution
  found is its own. The loop of `end` stops at the first failed VM, which there
  is by well-foundedness of the naturals (`LeastPosition`).

### Imports

`KubeVirtProofs` assumes that a plan's references denote different VMs as long as
the inventory answers (`PlanAssumption`, which `validateVM` checks).

- **`ImportAlwaysKeepsItsSecret`, `ImportIsAlwaysOurs`**. `WaitInv` says both of every
  status that waits, in the plan and in the copy; `PassInv` that a pass touches
  no status it has yet to come to, so that what it does to objects of one name
  concerns one VM; `CallInv` what the calls for that VM have left on the
  destination: a secret without an owner until its import is there, an import of
  this Migration. A step of the collector, a finalizer or the import operator
  takes nothing from an import that is owned (`DestinationWears`).
- **`SecretAlwaysFitsImport`**: `PlaceInv`, as long as no VM moved: the object in hand,
  the secret and the import are all of the one place that `Place` gives for the
  VM with the pass's `hosts`, and IDs are given only of it (`CanTranslate`).
- **`AlwaysMappedAsPlanned`**, where each entry of the map denotes one object
  (`EntriesAreExact`; an ambiguous one is refused by the validation). `mapping` goes
  through the entries and stops at the first that fails: an import that has
  items has come through all of them (`MapInv`).

### The vSphere mirror

Assumed is only that VMs, groups, cluster and host are different objects and that
the bounds are naturals (`InventoryMirrorProofs`).

- **`MirrorTypeCorrect`, `MirrorAlwaysAgrees`**. The strengthening is `ToldInv`: an object
  that is not reported has no data. Without it an object of an update set need
  not enter, leave or be modified, and `Applied` would be undefined. `Receive`
  is the step that matters (`AppliedRow`); analyses change nothing of a row that
  the property speaks of (`SameRow`).
- **`LoadedBeforeConsistent`**: `Spec => []LoadedWhenConsistent`. The flag is set
  by a set that is not truncated; it reports all that was there at the connect
  because (`LoadInv`) what is still unreported is still there and not told of,
  hence changed.
- **`AnalysisIsAlwaysDue`**: `Spec => []AnalysisIsDue`. The property is about
  consistent mirrors, but the watches start from the rows written before: so
  (`RevisionsCount`) at all times a row's analyzed revision is at most its
  revision, and when they are equal the analysis judged the row as it is.

### The provider and what refers to it

The theorems of `ReadinessProofs` assume that a provider's specs are of the three
kinds and that the bound is a natural.

- **`ContainerIsAlwaysCurrent`, `FileIsAlwaysTheContainers`,
  `ReadyIsAlwaysBacked`**. The properties speak of a provider
  at rest, so the invariant (`ProviderInv`) says what each step of a pass may
  rely on: a copy that is not stale is the CR (`CopyInv`); a container found in
  a pass is of the copy and, before the pass builds one, of a provider that has
  reconciled (`ContainerInv`), so that `UpdateContainer` never replaces one and
  never purges the file it has opened; and what the pass saw loaded is so still
  (`LoadedInv`). The case that matters is `WriteInv`: only a current copy is
  written, and then its container is the CR's.
- **`ProviderKeepsItsPromises`, `DependentTyped`, `ReadyIsAlwaysShared`**, for every
  kind of CR, references and inventory. A step of
  the composition is one of the provider or leaves all of it but the bound
  (`ComposedStep`). `ReadyIsShared` is strengthened to `SharedInv`: from the read
  of the provider on, a pass without a fault found is right about the provider
  or is told of a change (`ProviderVerdict`, `ProviderStepInv`); conditions are only added
  (`SetGrows`), so a favourable end means a favourable beginning.
- **`ReadyIsAlwaysEarned`**, for every inventory of objects with IDs (`InventoryOK`)
  and lists of references (`IsList`, `RefsAreLists`: what a user can write).
  `EarnedInv`: each answer that the pass has collected without finding a fault
  promises no more of its reference than the inventory has (`AnswersInv`); when
  all are in, the conditions made of them are a blocker or the references
  are earned (`JudgedInv`). The cases are the lookups by ID and by name, the
  finder's errors and the validation of each kind.

### Lookups

`LookupsProofs`, for any changes of a cluster, for any VMs and folders whose
names are not those of the fixed objects (`TreeAssumption`), and for any finite
networking of a host (`HostAssumption`).

- **`OcpTypeCorrect`, `RowsNeverGoBackwards`**. A row may be as new as the threshold
  while the library delivers events older than it, and newer ones may wait
  behind older ones of another collection. `EventsInv`: what waits for one collection
  is in the order of versions. `RowsInv`: a row is at most the threshold, or all
  that waits for its collection is newer. `Deliver` keeps it because the events
  that are dropped are exactly those up to the threshold.
- **`TreeTypeCorrect`, `AnswerIsAlwaysRegular`**. The property speaks of the answer; while
  the request reads, the invariant (`RequestInv`) says what is yet to be done.
  `HistoryInv`: the links of the rows as they are now are between those that
  were there all the time and those that ever were. `FramesInv`: each path on the stack
  and each object still to be visited were linked at some moment. `TreeInv`: what
  is not shown of a steady link is to be visited by a frame with its path, so
  that an empty stack leaves nothing out. `PathInv`: a path has gone along the
  steady parents and is about to read the next. A walk that skips a reference
  (`Valid`) and one that returns from a frame are the cases where the stack shrinks
  (`AmongOpened`, `AmongStack`).

- **`HostTypeCorrect`, `AdaptersAlwaysComplete`**. The invariant (`ReportedInv`)
  relates the row to the host: a property that is not to be reported has in its list all
  that the host has, and exactly that, each once, unless it was reported again
  in the session. A report is appended and the list sorted. `SortedRearranges`
  says of a sorted list that it has what the list had, in the order of the ranks: positions
  by the number of those ahead are a permutation, as better is a strict order
  (`BetterOrders`). Nothing else about the sort is used, so what is proved holds
  whichever way equals are put. The speed of a distributed port group is the
  first of the row because the list stays sorted (`FastestFirst`); that of an
  uplink is the first found because any set of positions has a least
  (`LeastIsIn`).

### Only model-checked

- *Liveness* (`EveryMigrationEnds`, `SourceIsMirrored`, `ReadyIsReached`,
  `ReadyInTheEnd`, `ImportsEnd`, `RequestsEnd`, `OcpConverges`): fairness needs
  `ENABLED`, which the proof system does not reach.
- *The claims that are violated*, by nature.

## 7. Not modelled

- *The other web handlers* (datacenters, clusters, folders, OpenShift resources):
  each reads one list; and the tree's options that no handler sets.
- *Progress*: percentages of imports and tasks.
- *References by name* in `PlanController`: they are in `PlanReferences`, which
  has no faults.
- *A destination that is the host cluster*, which is read through the manager's
  cache: `KubeVirt` has a remote one.
- *Settings, start-up, webhooks and generated code*: no behaviour beyond
  configuration; a restart is the action `Crash`, `Restart` or `PassLost`.
