# Forge: a TLA+ development beside the control plane and its node daemon

Forge is a hosting panel. `forge/api` is the control plane: an HTTP API, a
PostgreSQL store and a set of background services, run as one or more identical
processes. `beacon` is the daemon on every node: it runs the servers'
containers, owns their data directories and executes the transfer protocol.
`forge/web` and `packages/` are clients and data. This directory models the
parts in which several actors write the same state: the two durable work queues
of the control plane, the migration of a server between two nodes with the
transfer engines that carry it, the recovery of the servers of an offline node
on placement reservations, the evacuation of a node, and the daemon's command
queue and server manager.

    tlc -workers 2 -config MCJobQueue_safety.cfg MCJobQueue      # one run
    tlapm JobQueueProofs.tla                                     # one proof module

## Inventory

Paths are below `forge/api/internal/services` unless they say otherwise.
`PROJECT.json` lists every component with its files.

### Modelled

| component | state it keeps | operations | interacts with | what is hard | what makes it correct |
|---|---|---|---|---|---|
| job queue (`queue`) | `job_queue` rows, mirrored in `operations`; per process a map `active` of cancel functions | DispatchIdempotent, Dequeue, keepLease, Acknowledge, Fail, Retry, Cancel, Stop | handlers of power, compose, install, backup and transfer jobs | leases expire under a running handler; decisions from a dequeued copy; multi-statement writes stop half way | one executor per leased job, bounded retries, final outcomes, every job settles |
| operation service (`operation`) | `operations`, `operation_steps`, `operation_attempts` | Create, Dequeue, UpdateStatus, Cancel, Stop | shares the `operations` table with the queue | no lease at all; two inserts; unguarded outcome writes | one holder, final outcomes, queued work settles |
| process wiring (`cmd/api/main.go`), partly | which services share a process and a table | start of both services | both of the above | each service claims or writes the other's rows | the mirror never promises more than the job; jobs settle all the same |
| migration service (`migration`, `store/store_migrations.go`) | `migrations`, `migration_runs`, `servers.node_id`, allocations; per process `active` | PrepareMigration, ExecuteMigration, run, finalize, fail, reclaim, cleanup, CancelMigration | two daemons; power requests | crashes between a remote effect and its record; lost replies; a rollback that shares thirty seconds between its calls and statements; stale targets; a lease shorter than the stages it covers | the files survive, ownership moves only to a complete copy, the run ends, the source is cleaned and nothing else |
| transfer engine (`beacon/internal/transfer`) | metadata, archive, upload, staging, previous and server directory per migration; `active` | Register, PrepareSource, AppendDestination, RestoreDestination, FinalizeDestination, Cancel, CleanupSource | called by the migration service; the daemons push to each other | the lock is released for the long part and a stale copy is saved after it; a swap is two renames; saves, syncs and renames fail, mostly unheeded; the daemon may die anywhere | only whole archives are announced, resumed, extracted and put in place; the old files are kept until finalize |
| recovery (`recovery`, `store/store_recovery.go`) | `recovery_plans`, `recovery_items`, `servers.node_id`, allocations | CreatePlan, ExecutePlan, CancelPlan, reconciliation behind GetPlan and ListPlans | reservations, backups, the target's daemon; called by administrators and failover | plans for one server made and executed together; half-done moves; reads that write | a server always has an allocation where it is recorded; an item that waits has moved its server for good |
| placement reservations (`store/store_reservations.go`), partly | `placement_reservations` | create under the node's row lock, confirm, cancel, expire | recovery; migrations and evacuation | check and insert; a clock that frees room at any moment | a node is never promised beyond its capacity; one reservation of a server per node |
| evacuation planner (`evacuationplanner`, `store/store_evacuation.go`) | `evacuation_plans`, `evacuation_items`; per process a map of observers | CreatePlan, ExecutePlan, observePlan, reconcileItems, startAvailableItems, completePlan, CancelPlan | starts and watches migrations | request and observers work from copies and write by id; a migration is created by several statements; drivers end half way | completed means moved; one migration of a server at a time; the plan ends |
| daemon command queue (`beacon/internal/server/queue.go`) | operations in memory, a SQLite journal, a channel | EnqueueCommand, processOp, SetOperationError, loadJournal, Start, Shutdown | HTTP handlers, the panel's reports, the server manager | memory and journal diverge; a journal that cannot be loaded; handlers that block; duplicates; a full channel; restarts | accepted commands are kept and settle; refused ones never run; verdicts stand |
| daemon server manager (`beacon/internal/server/manager.go`), partly | `PowerState`, `RunningAction`, `ExpectedStop`, `CrashCount`, install and restore flags | HandlePower, Begin/EndInstall, Begin/EndRestore, HandleContainerEvent, Reconcile | the container runtime and its event stream; command queue workers | late, doubled, foreign and dropped events; claims freed by others; commands replayed before Reconcile | one operation at a time; no claim left behind; bounded automatic restarts |

### Not modelled, with state other actors race for

| component | state | operations | what is hard | what would make it correct |
|---|---|---|---|---|
| heartbeat monitor, failover, fencing | node classification, incidents, `servers.generation` | EvaluateNode, HandleNodeOffline, FenceNode | classification from ages, incidents in memory only; a generation is read, incremented and written back, but nothing compares it | one incident per node; a node that is back is not recovered |
| cluster membership and drain | node status, drain ledger | BeginDrain, EndDrain, StartDrain, CancelDrain | unguarded upserts; work left in a request's context | a cancelled drain stays cancelled; a drained node has no servers |
| webhooks and event outbox | deliveries, events | claim, deliver, retry, dead-letter | at-least-once delivery | nothing is lost, retries are bounded |
| cluster manager, reconciler, replica manager, deployments, schedules | rows of their own | see `PROJECT.json` | compensation after a half-done create; resumed step machines; a lease row per schedule | later modules |

### Left out

Scoring and placement (pure arithmetic), autoscalers, traffic and load-balancer
rendering, builds and pipelines, backups, the sliding windows of the crash
detectors, HTTP, sessions and permissions, the Docker and daemon clients, SFTP,
tokens, rate limits, the unused package `forge/api/queue`, the web client,
infrastructure: each is I/O, a sequential computation, or a client of the parts
above. `PROJECT.json` gives the reason per component.

## Modules

### JobQueue

One SQL statement is one step; two workers, a cancelling request, the clock and
a crash interleave between any two statements.

| state | code |
|---|---|
| `status`, `retryCount`, `lockedBy` | the columns of `job_queue` |
| `leased`, `backoff` | `locked_until` and `available_at` lie in the future |
| `op` | `operations.status` of the row with the job's id |
| `pc`, `held`, `snap` | a worker goroutine in `process`, the `Job` it dequeued, its `RetryCount` |
| `ctxDone`, `deferred`, `active` | the handler's context, the deferred `delete`, `Service.active` |
| `lost`, `cancelled` | history: the lease ran out once, Cancel was called |

`Enqueue` is DispatchIdempotent with its transaction, `Dequeue` the claim,
`Begin` the head of `process` with the missing-handler exit, `Heartbeat`
keepLease, `HandlerReturns` and `HandlerPanics` the end of the handler,
`WriteJob` and `WriteOp` the first and the later statements of Acknowledge, Fail
and Retry, `WriteError` a statement that fails and whose error the code ignores.
`Cancel`/`CancelOp`, `Stop`, `Crash`, `Restart` are the rest of the service.
`Key` is what `idx_job_queue_unique` compares (migration 137): the insert of a job
whose key another pending or running job has is dropped by ON CONFLICT DO NOTHING
like a repeated id, while its `operations` row is inserted. Abstracted: payloads,
error texts, the length of a backoff, the step and attempt rows (written by the same
functions with the same outcome).

### OperationService

`ost` is `operations.status` of the service's own rows, `op` that of the queue's
rows in the same table; `steps` and `attempts` are the two other tables;
`dispatching` is a Create between its two inserts, `stranded` the rows a worker
let go of without writing an outcome. Claiming looks at the status only, as the
SQL does. The attempt insert of a row whose step is missing (a Create half done)
or belongs to the queue fails on the foreign key, and the worker returns.

### DurableWork

The conjunction that `main.go` builds: JobQueue and OperationService side by
side on the shared variable `op`. Either takes a step; the other's own variables
stay.

### Migration

One migration of one server between `src` and `dst`. One SQL transaction or one
daemon call is one step. A daemon call succeeds, fails without effect, or takes
effect and loses its reply; with `Hangs`, one of `fail` may use up the thirty seconds
that all its calls and statements share, after which none of them is made. Creating
the destination's container starts it, in the create call or already in the
configuration call before it.

| state | code |
|---|---|
| `status`, `phase`, `leaseOwner`, `leased`, `cleanupPending` | `migrations` and `migration_runs` |
| `node`, `alloc` | `servers.node_id`, the allocation on the target |
| `container`, `data` | what each daemon holds: container, data directory |
| `smeta`, `scred`, `dmeta`, `dcred` | transfer metadata per node and direction; a credential is the actor that registered last, as every registration rotates the hash |
| `pc`, `snap`, `src`, `made`, `reclaimed`, `ctxDone`, `spent` | the run goroutine of a process: its stage, the phase it read when it claimed, the resolved source, the argument of `fail`, who started it, its context, the context of its rollback |
| `cpc`, `csrc` | the cleanup task of the reconcile loop |
| `ppc`, `kpc`, `ksrc` | the requests PrepareMigration and CancelMigration |
| `undone` | history: a rollback has deleted the destination, and the run is not closed |

`RunForward` has one disjunct per stage of `run`, `RunFinalize` is `finalize`,
`RunFail` is `fail`, `Cleanup` is `cleanupMigration`, `CancelMigration` the
cancelling request; `Execute` and `Reclaim` start a run; `LeaseExpires`,
`AllocationTaken` and `PowerOn` are the clock and other users of the tables. A
push is one step: its chunks matter inside the engine only. One prepare and one
cancel request are in flight at a time. Reservation calls, events and metrics
are left out: no state of this module depends on them.

### TransferEngine

The same calls from inside: both daemons of one migration. One critical section
of the engine's mutex, one rename or one removal is one step; the long part of a
request runs outside the mutex and ends by saving the copy of the metadata that
it took at its start. A save may fail before its own rename, and leave the metadata as
they were, or after it, in the sync of the directory, and leave them changed with an
error; the code goes on or returns as it does there. Renames fail too, also those that
put a directory back.

| state | code |
|---|---|
| `files` | the version of the source's server directory; the server may write while it runs |
| `smeta`, `archive`, `tmp`, `sactive` | source: metadata file (phase, checksum, credential used), `source.tar.gz`, its temporary file, `e.active` |
| `dmeta`, `incoming`, `dactive` | destination: metadata (phase, checksum, offset), the pieces in `incoming.tar.gz`, `e.active` |
| `staging`, `previous`, `discarded`, `canonical` | the directories `restored`, `previous` and `cancelled-current` of the transfer, and the server's own |
| `pc`, `copy` | where a request is, and its copy of the metadata |
| `cut`, `linked` | requests that Cancel has cut off, and those whose open file is still the one at its path |
| `overtaken`, `lost` | history: Cancel and another request met; the end of an upload, or the exchange of the directories, that was made and not recorded |

An archive is the version of the files it holds, which is also its checksum, sent
in `Chunks` pieces; an upload breaks off anywhere and is resumed at the offset.
Removals are taken to succeed. Left out: the expiry of credentials, file modes, path
checks, status calls.

### TransferContract

What the destination promises its callers: a phase (absent, authorized, verified,
restored, activated, cancelled), the archive that was verified, the server
directory and the one it replaced. The directory changes in one step, to the
verified archive; a transfer is forgotten only when what it replaced is back,
unless the exchange of the two was not recorded (`torn`: a crash, a save, sync or
rename that failed); nothing is promised once Cancel and another request have met
(`void`). TransferEngine implements it
(`KeepsContract`): `uploading` and `failed` are seen as authorized, `restoring` as
verified, and between the two renames the old directory counts as in place. These are
the calls RegisterDest, Push, Restore, FinalizeDest and CancelTransfer of Migration,
which keeps of the directory only whether the files are there.

### Recovery

Plans for the servers of offline nodes. One statement or transaction, or one call
of a daemon, is one step.

| state | code |
|---|---|
| `plan`, `item` | `recovery_plans.status`, `recovery_items.status` |
| `live`, `target` | the placement reservations that hold capacity (pending or active, not expired) and their node, which is also the item's target |
| `home`, `bound` | `servers.node_id`; whether the server still has its allocation on the offline node |
| `lock` | whose transaction holds the target's row in CreatePlacementReservation |
| `planner`, `exec`, `closing` | calls of CreatePlan, ExecutePlan, and of failPlan and CancelPlan that have still to write |
| `backed`, `contended` | history: moved while its reservation held; owned by two executions at a time |

Abstracted: failPlan's and CancelPlan's statements are one step; a lapsed
reservation and one the sweep has marked are not told apart; completed, failed and
cancelled plans are "closed", skipped and cancelled items "dropped"; restoring the
backup, BeginRecoveryOwnership and the daemon's answer are one step; capacity is
counted in servers. Left out: generations, which only the timeline view reads;
RecoverFromUnavailable, ConfirmDestructiveRecovery and
ReconcileRecoveryAcknowledgment, which no code calls. Because of the last, an item
that has moved stays `awaiting_beacon` and its plan `executing`.

### Evacuation

One plan of the evacuation planner. One statement or one call of the migration
service is one step; a plan is read with its items.

| state | code |
|---|---|
| `plan`, `item`, `link` | `evacuation_plans.status`, `evacuation_items.status` and `.migration_id` |
| `mig` | the migrations of each server as the planner sees them: planned, planned with their reservation, with a run, completed, failed or cancelled |
| `pc`, `todo`, `active`, `own` | a driver (the request in ExecutePlan, or the observer of a process): its place, what is left of the copy it works from, the slots it counts, the migration it is starting |
| `cancelling`, `ctodo` | a call of CancelPlan and the migrations it has still to cancel |
| `moved`, `lapsed` | history: servers that a migration moved; migrations that went on without their reservation |

`ReadPlan`, `ReconcileItem`, `RereadPlan`, `CompletePlan` are one pass of
observePlan; `CreateMigration` to `RejectItem` one item of startAvailableItems, with
the statements of the migration service on their own: the row is inserted as planned,
the target reserved (`ReserveTarget`), and where that fails the row is marked failed or
stays planned, as the error of the mark is ignored (`DiscardMigration`);
`DriverEnds` is the end of a process or of the request's context. Which servers
have a target (evaluateNode) is free. CancelMigration is one step here: its race
with the run is the subject of Migration.

### CommandQueue

The journaled queue of power commands of one daemon. One critical section of
`q.mu` or one use of the channel is one step.

| state | code |
|---|---|
| `mem`, `row` | a command in `q.operations` and in the journal |
| `ch`, `feed` | the channel, and what Start's goroutine has still to put into it |
| `sending`, `told` | Enqueue between row and channel, and what its callers were told |
| `held`, `busy` | what each worker took, and whether its handler runs |
| `daemon`, `boots` | running, cancelled by Shutdown, closed for commands, down |
| `journal` | the process has a journal; one that could not load it has none |
| `gap` | history: a journal statement on the command failed, or it came to a process without a journal |

### ServerManager

One server of the manager. One critical section of `state.mu` or one runtime call
is one step.

| state | code |
|---|---|
| `power`, `action`, `installing`, `restoring`, `expectedStop`, `crashCount` | the fields of the server's state |
| `running`, `events` | the container, and the events of the stream that the watcher has not seen |
| `at`, `sig` | where each caller and the watcher are in their operation, and which it is |
| `boot`, `passes`, `started` | where the start of the daemon is: Reconcile by critical section, how often it was called, whether `LastStartedAt` is set by the time autoRestartCrashed reads it |
| `taken`, `restarts` | history: a claim cleared by somebody else; automatic restarts since a deliberate stop |

Events may be repeated, late, dropped when the buffer is full, or those of the
installer's container, which carries the same label. Power state files are not
modelled: no daemon sets the directory they would go to. A daemon that starts watches
events and executes the commands of its journal from the first (`Boot`); meanwhile it
reconciles each server up to `MaxPasses` times, from the panel and after an error from
its disk (`ReconcileResets` to `RecordCrashed`), and only then serves installs and
restores (`Reconciled`, `BootEnds`). The container exists throughout: manager.Delete under a running
operation (`server.go:1612`) is left out.

### Proof and MC modules

Eight modules, each named after its component with `Proofs`, extend the module of
the component and hold its theorems: JobQueue (with DurableWork), OperationService,
Migration, TransferEngine (with TransferContract), Recovery, Evacuation, CommandQueue,
ServerManager. The MC modules define constants (workers of processes, handlers, priorities, who is where), symmetries, and
the view and the constraint that are explained under the runs.

## Runs

| run | instance | checks | distinct states |
|---|---|---|---|
| `queue_safety` | 1 process, 2 workers, 1 job, 3 tries, 1 crash or stop, 1 cancel | RetryBound, SingleExecutor, FirstAttemptCancellable, TerminalStable, Settles | 340 000 |
| `durable_work` | 2 jobs of different priority, one of which only one process can handle, 2 processes of one queue worker, 1 operation worker | SucceededMeansCompleted, Settles | 259 000 |
| `operation` | 2 operations, 2 processes, statements may fail, 1 crash or stop, 1 cancel | OneHolder, OutcomeFinal, CancelHolds, QueuedSettles | 116 000 |
| `migration_cancel` | 1 process, 1 shutdown, 1 cancel, lost replies | TypeOK, DataSurvives, CommitNeedsDestination | 1 135 000 |
| `migration_faults` | 1 process, failing statements, a COMMIT whose reply is lost, rollbacks that run out of time, 1 crash | SourceSurvives, DataSurvives, CommitNeedsDestination | 1 007 000 |
| `migration_live` | 1 process, rollbacks that run out of time, 1 crash | RunSettles | 70 000 |
| `migration_sweep` | 1 process, no faults but lost replies | OwnerKeepsServer: violated | |
| `transfer` | 2 requests at a time, archives of 2 pieces, 2 versions of the files, any save, sync or rename may fail, 1 crash, 2 cancels | ArchiveMatches, VerifiedIsWhole, OffsetBacked, Resumable, CanonicalWhole, OldFilesKept, KeepsContract | 1 844 000 |
| `recovery` | 2 offline nodes with a server each, 1 target with room for one, 3 plans, 2 executions, 1 call that is cancelled or ends early | CapacityKept, ReservedOnce, NeverHomeless, AwaitingMeansMoved | 1 124 000 |
| `evacuation` | 2 servers, 1 slot, the request and an observer, 2 migrations per server, 1 of: cancel, failed statement, driver that ends, reservation that runs out, late status write | CompletedMeansMoved, OneMigration, PlanSettles | 973 000 |
| `commands` | 2 commands, 2 workers, a channel of one place, failing journal statements, a journal that cannot be loaded, 2 further starts | AcceptedKept, RefusedNeverRuns, NotReplayed, FailureStands, CommandSettles | 157 000 |
| `power` | 2 callers and the watcher, a breaker of 1, a buffer of 2 events, one pass of Reconcile per start | Exclusive, ClaimOwned, RestartBound | 1 343 000 |

Why the bounds are enough. Two workers give every race of the queue between a
stolen job's executors, and RetryBound, whose bound depends on the number of
workers, is proved for any number. Three tries exercise first, middle and last
attempt. One crash puts the interruption at every place; a second one that
interrupts the recovery itself is explored only where the table says so (the
theorems allow any number). Two processes on one migration with all faults exceed
TLC (more than 7 million states); that part, two runs that drive the same transfer
together, is covered by the proof of SourceSurvives for any set of processes. The
bounds on crashes, shutdowns and cancels of the migration runs, and all of
`transfer`, are lifted by the theorems. `transfer` has CONSTRAINT NotOvertaken: a
state in which Cancel and another request have met is reached and checked, and not
continued, for every property and the contract are void from there on (`overtaken`
is never reset).

Two pieces are the least with an upload that breaks off inside; two versions let
an archive be made again under an upload; two cancels let a transfer be registered
and cancelled again.

With room for one server, every second reservation on the target must be refused;
three plans give two for one server and one for another. One slot for two servers
makes the evacuation wait for the first. A channel of one place is full at once,
and two starts let a replay be interrupted. A breaker of one and two buffered
events give every order of a stop, an exit and a restart; one pass of Reconcile is
the least that can come upon a command of the journal, and with Boot at any moment
a start with none and with one of them are both there. `power` has VIEW Seen,
which leaves out the reported state `power`: many steps write it, no step and no
property reads it. That a call has failed is left out too where it can show only
in `power`.

The keys of the jobs differ in the runs; the theorems hold for any keys. The
bounds of `recovery`, `commands`, `power` and the safety part of `evacuation` are
lifted by the theorems. CHECK_DEADLOCK is off in the runs of Migration, Recovery
and Evacuation, where everything may have ended.

### What the passing runs show

* A job whose lease never ran out has one executor; a job is retried at most
  `MaxRetries + workers - 2` times even when its lease was stolen again and
  again, because a stale copy decides but every executor adds at most one; a
  final outcome is overwritten only by a cancel or after a lost lease.
* Cancel reaches the handler of a first attempt. It may miss a later one: the
  deferred delete of the previous attempt can remove the new entry. This is the
  reason the property says *first*.
* The operation service needs no lease to keep an operation with one worker.
  The price is that a row whose worker is gone stays `running`: QueuedSettles
  excludes exactly those rows (`stranded`).
* The operation service does claim the queue's rows. It cannot execute them, for
  their step row has another id, but it leaves them `running`, a status the
  queue's next write corrects if it comes. What the row never does is claim a
  success the job did not have.
* Whatever reply is lost and whichever statement fails, also that of the COMMIT,
  the source keeps the files while it owns the server. The files exist somewhere and
  ownership moves only to a complete copy, also when the process crashes and is
  reclaimed, unless a rollback has deleted the destination and could not close the run
  (`undone`). A run ends unless its rollbacks run out of time again and again.
* The engine never announces, verifies, extracts or puts in place anything but a
  whole archive, also when the source has archived again meanwhile or the daemon
  died, and whichever saves fail. Where a broken upload resumes and the old directory
  is kept, the exceptions are the histories `overtaken` and `lost` below. Seen from
  its callers it takes the steps of TransferContract and no others.
* The row lock of CreatePlacementReservation does what it is for: recovery plans
  never promise a node beyond its room. A server that one execution at a time
  works on always has an allocation where it is recorded, wherever a call ends.
* The evacuation's unguarded writes by id never let a plan say completed too
  early: what makes that so is that an item reads completed only from its
  migration, and that a refused second start writes failed, never pending. Two
  migrations of a server run together only if one has lost its reservation, although
  the row, the reservation and the run are separate statements and drivers end between
  them. If its migrations end, the plan does, although the observer of ExecutePlan dies
  with its request.
* The command queue keeps what it accepted and runs nothing it refused, as long as
  the journal's statements succeed. An accepted command settles, also one that a
  process without a journal passed by, if the journal loads in the end and no handler
  blocks for good.
* The action slot of a server is exclusive until an exit event, a second EndRestore or,
  over a command of the journal, Reconcile frees a claim that is still in use; even
  then no claim is left behind.

### Disagreements found

One is a run that TLC ends with a counterexample; `PROJECT.json` quotes the line it
contradicts.

* **migration_sweep.** The cleanup retry resolves the source of a completed
  migration from `servers.node_id`, which is the target by then, and removes the
  migrated server.

The others come out when a property is stated without its exception, or were read
off while modelling; the properties above except them by a history variable or
leave them aside.

* Job queue. The insert of a job whose queue, type, server and node another live job
  has is dropped by `idx_job_queue_unique` (migration 137) and ON CONFLICT DO NOTHING
  (`queue/store.go:29`): its `operations` row stays `queued` and the dispatch succeeds,
  but no job is there to run. Settles is about the rows that were inserted.
* Operation service. A worker claims an operation between the two inserts of Create
  (`operation/store.go:20`, `:29`); its attempt violates the foreign key, it
  returns, and the row is `running` for ever although the caller holds its id and
  `operation/service.go:296` says "Dispatch refuses rather than accepting work that
  will never happen."
* Migration, `undone`. `fail` deletes the destination before it records the failure
  (`service.go:655`), and gives four daemon calls and both statements one context of
  thirty seconds (`service.go:649`), as long as one call of the daemon client may take.
  A process that ends in between, a statement that fails, or a call that hangs leaves a
  phase that says the files are restored; the reclaimed run creates an empty container,
  commits, and removes the source's files. While a node hangs this rollback fails each
  time and the run is claimed again for ever, which is what RunSettles excepts. When
  the reply of COMMIT is lost, or the context ends during it (`service.go:618`), the
  destination that now owns the server is deleted in the same way. All of these are steps of Migration.
* Migration, others. The daemon starts a container when it creates it (`docker.go:255`
  and 289), so the destination runs before the commit while the source still owns the
  server. The configuration call may create and start it too, if the archive brought a
  runtime.json (`mounts.go:107`), but its failure is rolled back as if it had not
  (`service.go:537`): the container stays and runs. CancelMigration writes `cancelled`
  over a migration that completed after its check (`service.go:701`, check at 674).
  FinalizeDestination refuses a second call (`protocol.go:777`), so a cleanup that was
  interrupted after it never finishes (`service.go:315`).
* Transfer engine, `overtaken`. Cancel comes upon a request at work, or Register
  renews what is being removed: the request saves its stale copy and the transfer
  can read archived or restored with its files gone.
* Transfer engine, `lost`. A daemon that dies inside an upload, or whose save after it
  fails (`protocol.go:534`, 538, 544, 553, errors ignored), keeps an offset shorter than
  the file, and every append is refused. A restore that has exchanged the directories
  and is not recorded as restored, by a crash between the renames or after them, the
  save at 613, the sync at 738 after the rename, or a put-back that fails (733), reads
  restoring or failed: a Cancel then removes the old files with the transfer directory.
  A Cancel whose own record fails (819) leaves a transfer that reads restored with the
  old directory back. A temporary file left inside an archive blocks PrepareSource
  until Cancel.
* Recovery. StartRecoveryPlan accepts a plan that is executing
  (`store_recovery.go:192`), so two executions work on its servers, and a rollback
  of one with a completion of the other leaves a server on the offline node without
  an allocation. Reading an executing plan fails its items and cancels their
  reservations. BeginRecoveryOwnership does not look at the reservation, so a plan
  executed late overfills its target. Two plans can hold reservations for one
  server on different nodes. failPlan skips the reservations of failed items. A
  cancel during planning is overwritten by `planned`.
* Evacuation. CancelPlan "prevents further items from starting" (`service.go:216`),
  but startAvailableItems goes on from its copy without a look at the plan, and
  completePlan and failPlan overwrite `cancelled`. The ticker's observer overlaps
  ExecutePlan's own loop in the same process: the refused second start marks the
  item failed and drops its link while the first migration goes on. A driver that
  ends between create and prepare leaves the item preparing and the migration
  planned for ever (`Stranded`); one that ends between the insert of the row and its
  reservation, or whose failure mark fails (`migration/service.go:152`-175), leaves a
  planned row behind that no item names. A pass from an old copy can migrate a server that
  has already moved: ValidateMigration does not compare the server's node with the
  given source.
* Drain, not modelled. completeDrain runs when ExecutePlan has started the
  migrations, not when the servers have moved; StartDrain's goroutine uses the
  request's context, which ends when the request does.
* Command queue. A duplicate is answered while the first call may still withdraw
  the command (`queue.go:445`); a failure that the panel reported is overwritten by
  `pending` at shutdown (`queue.go:292`) and the command replayed; a DELETE that
  fails revives a refused command at the next start. A daemon that cannot load its
  journal goes on in memory (`server.go:318`): what it accepts is lost with it, what the
  journal holds waits for a later start. Kill, Signal and ContainerStop have no deadline
  (`docker.go:613`, 633, 651), so a handler may keep its worker for good.
* Server manager. Reconcile clears RunningAction (`manager.go:139`) under a command that
  the queue replays from its journal, which it starts before the daemon reconciles
  (`server.go:323`, `main.go:363`): the next operation is admitted beside it. A server
  that this command started and that is down when Reconcile looks is started by
  autoRestartCrashed without the slot, although `server.go:643` says "without creating,
  starting, stopping, or deleting its container". An exit event, also that of the installer's container, clears
  RunningAction under the operation that claimed it; a successful restore ends its
  claim twice (`server.go:1938` and 1987), although `manager.go:345` says "so a
  restore can never race with a power operation or an install", and is recorded as
  failed. A start event seen after a stop was requested clears ExpectedStop, and the
  stop is answered with an automatic restart. A failed start or stop leaves the
  power state starting or stopping. One end of a container arrives as up to two exit
  events. The breaker lets one restart more pass than its limit: one that was
  decided before a stop reset the count.

## Fairness

Each liveness property names what it assumes.

* Queue: weak fairness of every worker (goroutines run, handlers return because
  their context times out), of the clock (leases, backoffs) and of the restart of
  a stopped process; strong fairness of the outcome write, which says that the
  database does not fail it for ever. Nothing is assumed of dispatches, cancels
  and crashes.
* Operation service: weak fairness of workers, of the second insert of a Create
  that runs, and of restarts.
* Migration: weak fairness of the run (a run step may fail or hang, but it ends), of
  the reconcile loop's reclaim and cleanup (a ticker every 30 seconds) and of the
  clock. No node is assumed to answer: a rollback that runs out of time again and again
  is the exception that RunSettles names. The run has a database that answers, for one
  that fails every statement ends no run.
* Command queue: weak fairness of every worker's taking and beginning a command, of
  Start's goroutine, of a shutdown that has begun (it ends within its grace) and of the
  start of a daemon that is down. Nothing is assumed of the handlers, whose runtime
  calls may block: that they return, and that the journal loads in the end, are
  hypotheses of CommandSettles.
* Evacuation: weak fairness of every driver and of the ticker that starts an
  observer again every 30 seconds. Nothing is assumed of cancels, faults and
  migrations: that each migration with a run ends is a hypothesis of PlanSettles,
  which Migration does not discharge for a node that hangs.

The other modules state safety only.

## Proofs

All theorems hold for every value of the constants that satisfies the named
assumptions `JobQueueAssumption`, `OperationAssumption`, `WorkAssumption`,
`MigrationAssumption`, `TransferAssumption`, `RecoveryAssumption`,
`EvacuationAssumption`, `CommandAssumption` and `ManagerAssumption` (types, finite sets
where something is counted, at least one worker where a bound needs it, the null
values outside the sets). Every proof has the same shape: an inductive invariant, a
lemma per group of actions that preserves it, and the properties as its consequences.

JobQueueProofs:

* **TypeCorrect**: `TypeOK` is inductive, because it says that a worker holds a
  job exactly while it is not idle.
* **LeaseCovers**, **SingleExecutorHolds**, **TerminalIsStable**. SingleExecutor
  is not inductive. `LeaseInv` is: a running job whose lease never ran out is
  leased, so `Dequeue` cannot take it, and whoever executes it does so while the
  row is running or after a cancel. TerminalStable follows from it: an executor's
  write finds the row running.
* **RetryIsBounded**. `RetryInv` counts the *retriers*, executors whose copy still
  allows a retry. Once the row's count has reached `MaxRetries - 1` no new
  retrier appears, and each increment uses one up; so the count plus the number
  of retriers is bounded. The proof takes cardinalities of finite sets from
  `FiniteSetTheorems`.
* **RegistrationHolds**, **FirstAttemptsAreCancellable**. The danger is the deferred
  delete of a worker that has written its outcome and not returned (`Late`).
  `RegisterInv` says of a job whose lease never ran out that its executor's copy of
  `retry_count` is the row's, and that a late worker has left a count above zero or a
  terminal row without executor; so a late worker and a first attempt never meet.
* **WorkInvariant**, **SuccessMeansCompletion**, **QueuePromisesKept**, for DurableWork. The invariants of the queue survive the
  operation service because all that the service writes of a queue row is
  `op = "running"` (`ClaimInv`: it holds such a row only as claimed, as the attempt
  insert fails), and none of them reads `op`. `OutcomeInv` adds that a worker about to
  write `succeeded` has completed the job.

OperationServiceProofs: **TypeCorrect**, **OneHolderHolds**, **OutcomesAreFinal**,
**CancelsHold**. OneHolder is not inductive: `HeldIsTaken` says that a row some
worker holds is running or cancelled, so it is not claimable; `AttemptsLeft` that
whoever may start an attempt has one left, which bounds the attempts. The two action
properties follow from which rows a step may rewrite.

MigrationProofs:

* **OwnershipHolds**, **SourceSurvivesHolds**. `OwnershipInv` adds to
  SourceSurvives that whoever may call CleanupTransferSource knows of the commit:
  a run by its place after `finalize`, the cleanup task because it starts from
  phase `completed`, which only FinalizeMigration writes. Each action is reduced
  to one of four lemmas about what it may do to the owner, the phase and the
  source's files.

* **TypeCorrect**, for any processes and with failing statements: only a goroutine
  inside `run` has a cancelled or reclaimed context.
* **SoloHolds**, **FilesSurvive**, **CommitsToDestination**: for one process
  (`Solo == \A p, q \in Procs : p = q`), with failing statements, hanging rollbacks, lost
  replies and any number of crashes, cancels, shutdowns and reclaims. With two processes
  one run deletes what the other has restored. `SoloInv` has a part before the commit,
  where what the phase, the transfer metadata, the run's place and the phase it read say
  of the destination is so, unless the run is failing, the row is closed or `undone`; and
  a part after it, where the run and the cleanup task, whose source target is the
  destination by then, never both get to remove files, because FinalizeDestination
  succeeds once.

TransferEngineProofs: **TypeCorrect**, **EngineInvariant** and from it **ArchivesMatch**,
**VerifiedArchivesAreWhole**, **OffsetsAreBacked**, **UploadsAreResumable**,
**CanonicalIsWhole**, **OldFilesAreKept**. The invariant holds until Cancel and another
request meet (`overtaken`). `Owners` binds each place of a request to a phase and to the
active slot, so that an upload, a restore and a cancel are never at work together;
`Copies` says that what a request will save agrees with the disk, which is what makes
saving a stale copy harmless; `Bytes`, `Trees` and `Aside` say what the upload file and
the directories hold meanwhile, each up to what is `lost`: every save of the model may
fail, and only the failures named there weaken a conjunct. **EngineKeepsContract** is the refinement: `Installed`
adds that the server directory is there whenever something is removed beside it, and a
lemma per group of requests shows which step of TransferContract its callers see.

RecoveryProofs: **TypeCorrect** (`TInv`: an item that is executed names its
target). **CapacityIsKept**,
**ReservationsAreUnique** (`CInv`): between check and insert the room found is still
there, `RoomHeld`, because only the holder of the lock adds reservations to the node
and a move turns a live reservation into a server that is counted; the counting uses
cardinalities of finite sets. **ServersKeepAHome**, **AwaitingIsFinal** (`OInv`): `Owned`
says that an execution that has moved a server finds it where it moved it and is alone
in this, `GivenUp` the same of a server whose old allocation is given up and whose
item is about to say so.

EvacuationProofs: **TypeCorrect**, **CompletedPlansMoved**, **MigrationsAreSingle**.
`InHand` says that what a driver carries on names a migration. `MInv` follows the word
completed from the migration to the item, to the driver that has read all of them, to
the plan. `OneReservation` is the inductive form of OneMigration: of the rows of a server that are
reserved or running one at most has its reservation, whatever planned rows are left
behind.

CommandQueueProofs: **TypeCorrect**, **AcceptedIsKept**, **RefusedIsNeverRun**,
**FailuresStand**, **VerdictsAreNotReplayed**. The invariant relates memory and journal
(`Synced`), the call of Enqueue and its row (`Sent`), the channel and memory (`Known`), a
worker's command and its status (`Running`) and what was withdrawn (`Withdrawn`); a
command with a failed journal statement is excepted throughout.

ServerManagerProofs: **TypeCorrect**, **OperationsAreExclusive**, **ClaimsAreOwned**,
**RestartsAreBounded**. `Kinds` ties the place of a goroutine to its operation, `Named` the
slot to the goroutine that holds it, `Breaker` the restarts to the crash count and to
a restart that was decided and not yet made. Reconcile is three critical sections and
a runtime call among the steps of the goroutines: it takes claims (`taken`) and makes
none, and the start of autoRestartCrashed is not one that the breaker counts.

Only model-checked: the liveness properties Settles, QueuedSettles, RunSettles,
PlanSettles and CommandSettles, as fairness is out of the prover's reach. Every safety
property of a passing run is a theorem; of Migration, DataSurvives and
CommitNeedsDestination for one process, as they are false for two.

## Not modelled, and the plan

The HTTP handlers, the clients and the rendering services make up most of the
repository's lines; they keep no protocol state of their own. What is left that does,
in the order of what it would add:

1. **Drain and membership** on Evacuation: the ledger's unguarded upserts, the drain
   that is reported complete before its servers have moved.
2. **Heartbeat monitor and failover** on Recovery: classification, incidents kept in
   memory, the plans they make, a node that comes back.
3. **Schedules**: the lease row per schedule, two runners and the clock.
4. **Outbox and webhooks**: at-least-once delivery across restarts, bounded retries.
5. **Cluster manager**: creation of a server with compensation and orphan records.

Theorems to come: that Migration's calls on the destination are steps of
TransferContract too, with the deletion of a server added to it; what remains of
DataSurvives with several processes (which steps may lose the files); a
contract of the job queue that JobQueue and DurableWork implement.
