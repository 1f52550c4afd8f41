# A TLA+ development of the Requests Hub and its orchestration server

The repository holds two programs. The **Requests Hub** is a small ticketing
application: a FastAPI service (`src/api`), a Temporal worker with one workflow
(`src/worker`), an audit trail in Cosmos DB, and a React page (`src/frontend`).
It runs on the **Temporal server**, whose Go source is vendored under
`src/temporal`. The application is modelled almost completely. Of the server,
this development models the parts in which durability depends on several hosts,
goroutines and store calls meeting in the right order: the task queue backlog of
the matching service, and in the history service the shard and the queues that
read its tasks.

## Parts of the system

| Part | Source | Module | State of the model |
|---|---|---|---|
| Requests API | `api/main.py` | `RequestsHub` | create, update, events, startup; attachments and list left out |
| RequestWorkflow and activities | `worker/workflows.py`, `worker/worker.py` | `RequestsHub` | complete |
| Audit writer | `worker/audit.py` | `AuditWriter`, promise in `AuditLog` | complete but for the uncalled `get_audit_events` |
| Frontend page | `frontend/src/App.tsx` | – | not modelled |
| Matching: classic backlog manager | `temporal/service/matching/{backlog_manager,task_writer,task_reader,ack_manager,task_gc,db}.go` | `TaskQueueBacklog` | control complete; counts and metrics left out |
| Task queue persistence (SQL) | `temporal/common/persistence/sql/{task_v1,task_queues}.go` | `TaskQueueBacklog` | the calls the backlog makes |
| Matching: polling and dispatch | `matching_engine.go`, `matcher.go`, `task_validation.go`, `forwarder.go` | `TaskQueueBacklog` | the outcomes of a dispatched task |
| Matching: queue and partition life cycle | `physical_task_queue_manager.go`, `task_queue_partition_manager.go` | `TaskQueueBacklog` | load, unload, shutdown of one queue |
| History: shard task keys and ownership | `temporal/service/history/shard/{context_impl,task_key_manager,task_key_generator,task_request_tracker,controller_impl}.go` | `ShardTasks` | acquiring, renewing and losing the shard, writing tasks, the read watermark, queue state |
| Shard persistence (SQL) | `temporal/common/persistence/sql/{shard,execution,execution_tasks}.go` | `ShardTasks` | the rangeID check and the range delete |
| History: queues and slices | `temporal/service/history/queues/*.go` | `QueueSlices`, `HistoryQueue` | slices, readers, the five actions, checkpoint, reload |
| Matching: priority and fairness backlogs, user data | `pri_*.go`, `fair_*.go`, `user_data_manager.go` | – | not modelled |
| History: workflow tasks, updates, replication, state machine frameworks | `history/{workflow,replication,ndc,hsm}`, `chasm` | – | not modelled |
| Frontend service, worker service, common libraries, tools | the rest | – | not modelled |

How they interact: the API inserts a row and starts a workflow; the Temporal
server keeps the workflow's position and hands its activities to the worker
through task queues, whose backlog is what `TaskQueueBacklog` models; the worker
runs the activities, one of which writes audit events through `AuditWriter`; the
API reads these events back. A task reaches its task queue from a history shard:
the transaction that changes a workflow also stores history tasks (`ShardTasks`
has their keys), and the shard's queues read them, execute them and delete them
(`HistoryQueue`).

## Modules

    AuditLog            what the audit writer promises
    AuditWriter         worker/audit.py, shown to implement AuditLog
    RequestsHub         API, workflow and audit trail; uses AuditLog by INSTANCE
    TaskQueueBacklog    the classic backlog of one task queue on several hosts
    ShardTasks          contexts of one history shard, its task keys and watermark
    QueueSlices         slices of a history queue, as pure operators
    HistoryQueue        readers, actions, checkpoint and reload of one queue
    MC*                 instances for TLC (symmetry, concrete calls)
    AuditWriterProofs, RequestsHubProofs          proofs about the two modules
    BacklogInvariants   the inductive invariants of TaskQueueBacklog
    BacklogLayers       proof of the first of them and of the parts of the second
    TaskQueueBacklogProofs   proof of the third, and the theorems about
                             TaskQueueBacklog
    ShardInvariants     the inductive invariant of ShardTasks, in layers
    ShardLayers         its operators; proof of the first layers (types, the life
                        of a context, the numbers of requests) and of the one
                        about the marks of the queues
    ShardTasksProofs    proof of the layers about ranges, task ids and requests in
                        flight, and the theorems about ShardTasks
    QueueReaders        what the operations on slices and readers keep
    HistoryQueueProofs  the inductive invariant of HistoryQueue, its proof and
                        the theorems

### TaskQueueBacklog

A task queue is a row `[rangeID, ackLevel]` and a set of task rows. A host that
loads the queue takes a *lease*: it increments `rangeID` by a conditional write.
Every later write is conditioned on the same `rangeID`, so a host that lost the
lease is fenced. A lease also hands out a block of task ids. The state is split
as the code's structs are:

* store: `row`, `stored`, and `late`, the writes whose answer was lost and that
  may still commit;
* `taskQueueDB` (`db.go`): `rangeID`, `dbAck`, `maxReadLevel`, and `op`, the one
  store call in progress under its mutex;
* `taskWriter`: `next` (start of the id block), `appendCh`, `wtasks`;
* `taskReader` and `ackManager`: `pump`, `readTo`, `batch`, `signal`,
  `ackLevel`, `readLevel`, `outstanding` with the phase of each loaded task;
* life cycle: `status` (`off`, `loading`, `on`, `stopping`, `closing`), `fatal`;
* callers: `accepted`, `done`, `expired`; and the fault counter.

A store call is two steps: the one that issues it (`takeOverTaskQueue`,
`allocTaskIDBlock`, `appendTasks`, `persistAck`, `Stop`) and its answer (granted,
refused, or an error after which the write may commit or not: `LateCommit`).
Every other step of a host, and every step of the other hosts that does not need
the mutex, interleaves between the two. The other actions are the loop bodies of
the goroutines: `assignTaskID`; `ReadBegin`, `ReadSome`, `ReadNone`, `ReadError`
and `AddTask` for `getTasksPump`; `ProcessSpooledTask`, `RecordTaskStarted`,
`RecordTaskStartedError`, `RewriteTask` and `completeTask` for dispatch; `Crash`,
`tqCtxCancel`, `Expire`, `Load` and `SpoolTask` for the environment.

Abstractions. `ApproximateBacklogCount`, metrics, the backlog age and subqueues
other than 0 are not modelled. Capturing the ack level and taking the mutex are
one step in `persistAck` and `Stop`. `getWriteBatch` and `assignTaskIDs` are one
loop. A store call's effect and its answer are one step, unless the answer is
lost. The ranges that one `getTaskBatch` reads one after the other are read in one
instant. Appends before initialisation wait and change nothing. Whether a failed
rewrite is retried or given up is decided once per batch. Pollers that hold a
task of an unloaded queue are forgotten with it: the row is still there. Tasks
that are dropped on an internal or data-loss error count as answered for good.
The persisted ack level may move back when a late write commits; only the
in-memory one of a loaded queue may not.

### AuditWriter and AuditLog

`write_audit_event` and the lazily made Cosmos client. Each call has a program
counter. `_client` and `_container` are separate variables, and each assignment
to them is a step of its own, because `_init_client_blocking` runs on executor
threads while other calls read the globals. A failing Cosmos call may have stored
the document; a crash resets the globals and lets any subset of the running
upserts reach the store. The two reads in `_ensure_client` are one step. The Key
Vault branch is unreachable (`audit.py:59` needs the empty connection string
with which line 90 returns before it) and left out.

`AuditLog` is the abstract specification: an event has at most one document, a
stored document stays, an attempt that answers ok has its document in the store.

### RequestsHub

One `create_request` is two steps, with the commit between them; a restart may
come in between. A workflow moves through the positions of
`RequestWorkflow.run`. Temporal is external: it starts a workflow id once, keeps
its position, and repeats an activity until a completion arrives. The audit
store is used through the actions of `AuditLog`, one call per event, and an
abandoned attempt may store its document later. `get_request_events` keeps the
JSON type of the two values it compares. Left out: attachments and the list (one
insert, one read), the re-select that forms the answer of a PATCH, the answer
500 without a Cosmos container.

### ShardTasks

A shard is a row with a `rangeID`; a context (`ContextImpl`) that acquires the
shard increments it, and the transactions that store history tasks check it. A
range is also a block of task ids. The model has, per context, `contextState` and
where `acquireShard` is (`state`, `acq`), the shard info in memory (`info`,
`loaded`), the task key generator (`next`, `max`, `minTime`), the tracker of
requests (`pending`, `inflight`), who holds `rwLock` during a renewal (`lock`,
`setting`), the writes and shard updates on their way (`requests`, `updates`),
and the engine with its queue reduced to three marks (`engine`, `queue`). Each
request has a number (`call`), since two callers may send requests that are alike
in everything else, for example with no task of the category followed. A write
is three steps: keys under the lock, the store's answer with the completion
function, and `handleWriteError` under the lock. A write or update whose answer
is lost may commit as long as its `rangeID` is current (`lateWriteLands`,
`lateUpdateLands`). Renewals that drain requests, refuse, fail or are lost, the
stop of a context at any step of `acquireShard`, and two contexts that take the
shard from each other, interleave with all of it.

Abstractions. A behaviour follows one category of tasks, immediate or scheduled,
chosen in `Init`; tasks of the other take ids only. The queue reads and executes
everything below its watermark in one step. Reading a clock is a choice from
`Clock`, which need not go forward. The transition to Stopped and the stop of the
engine are one step. Remote clusters, handover of namespaces, the
replication queue and the controller's choice of shards are left out.

### QueueSlices and HistoryQueue

`QueueSlices` has a slice as a record: its range and predicate, the ranges still
to be read (`iters`), the loaded executables (`pending`, of which `acked`) and
what `pendingPerKey` counts too often (`recounted`). Its operators are those of
`slice.go`: split by range and by predicate, merge, compact, shrink, clear, and
one turn of `SelectTasks`. `HistoryQueue` has the readers with their lists of
slices and `nextReadSlice`, the actions `actionMoveGroup`,
`slicePredicateAction`, `actionQueuePendingTask`, `actionReaderStuck` and
`actionSliceCount` as operators on the readers, and steps for a new range, a
loaded task, an acknowledgement, a checkpoint (with its failing deletion and its
refused state), the three alerts, the write of the shard row and a reload from
it.

Abstractions. A task is its key and a predicate is a set of groups. Delays,
throttling and thresholds that choose groups are nondeterminism. One task is
loaded per step; a batch is several. A checkpoint is one step up to its end, with
the answer of the deletion: what its readers load or see acknowledged meanwhile is
taken to come before or after it. The readers that `splitAndClearSlice` visits come
in any order, as from a Go map, and `AlertReaderStuck` moves the window of
`WatermarkPrecision` keys around the stuck one. An executable is pending or acknowledged:
its retries are not visible to the queue. New tasks come at or above the
watermark, which is what `ShardTasks` shows of the shard.

## What the runs check

| Run | Instance | Properties |
|---|---|---|
| `backlog_leases` | 2 hosts, 1 task that may expire, blocks of 1 id, 2 faults among move, store, start | `NoTaskLost`, `NoTaskSkipped`, `TaskIDsFresh`, `OneOwnerPerLease` |
| `backlog_faults` | 1 host, 2 tasks, channel of 1, every fault but a move, 2 of them | `TypeOK`, `NoTaskLost`, `NoTaskSkipped`, `AddTaskNeverFatal`, `LevelsOrdered`, `AckLevelNeverMovesBack` |
| `backlog_liveness` | 2 hosts, 1 task, 1 fault of any kind, fair | `AcceptedIsDispatched`, `StaleOwnerLeaves` |
| `audit_writer` | 3 attempts, 2 for one event, 2 faults, 1 crash, fair | `TypeOK`, `OkMeansStored`, `OneDocumentPerEvent`, `ImplementsAuditLog`, `EveryCallEnds` |
| `hub` | 1 request, 1 demo workflow, 3 faults, fair | `TypeOK`, `WorkflowHasRow`, `NoSilentGap`, `WorkflowCompletes` |
| `shard` | 2 contexts, ranges of 1 id, writes of 2 tasks, 1 fault | `TypeOK`, `NoWriteBelowWatermark`, `RowCoversTasks`, `RenewalFencesNoOwnWrite`, `DrainWaitsForStore`, `AcquiringIsAttended`, `StoppedHasNoEngine`, `TaskIDsUnique`, `DeletedWereExecuted` |
| `queue` | 2 readers, 3 tasks of 2 groups, 1 alert, failed checkpoint or reload | `TypeOK`, `EveryTaskCovered`, `SavedStateCovers`, `NoRowLeftBehind`, `SlicesInOrder`, `DeletedWereExecuted` |
| `audit_reinit` | violated: `InitialisationRepeats` | see below |
| `hub_timer` | violated: `EveryRequestHasTimer` | see below |
| `hub_timeline` | violated: `TimelineIsComplete` | see below |
| `shard_timers` | violated: `TimersDeletedWereExecuted` | see below |
| `queue_stall` | violated: `NoMoreTasksToLoad` | see below |

What the central ones say:

* `NoTaskLost`: as long as history has not answered for an accepted task, one row
  of it lies above the persisted ack level and above the ack level of every host,
  the stale ones included, since their garbage collection is not fenced.
* `NoTaskSkipped`: the lease holder has every owed task ahead of its read level
  or in hand.
* `TaskIDsFresh`: no write that can still commit reuses an id.
* `AddTaskNeverFatal`: the two fatal branches of `ackManager.addTask` cannot be
  reached.
* `AcceptedIsDispatched`, `StaleOwnerLeaves`: an accepted task is started in the
  end, after a move, a crash, an unload, a failed or late write, a failed read or a
  refused start, and a host that lost its lease notices. The buffer and the append
  channel never fill up with the one task of that run: what they do when full is
  covered for safety only (`backlog_faults`).
* `OkMeansStored`, `OneDocumentPerEvent`: an ok answer is a stored document, and
  repeated attempts make no second one.
* `WorkflowHasRow`, `NoSilentGap`: a workflow belongs to a committed row, and a
  gap in the audit trail was reported to the workflow.
* `NoWriteBelowWatermark`: what can still be stored, lost answers included, is at
  or above what the queues have read; a task below would never be executed. For
  timers this is meant of the queue of the context that holds the range only.
* `RowCoversTasks`, `SavedStateCovers`: whoever loads the shard from its row
  reads every task that was not executed.
* `RenewalFencesNoOwnWrite`, `DrainWaitsForStore`: a renewal waits for the writes
  of its own context, and only for those whose answer does not need its lock.
* `AcquiringIsAttended`, `StoppedHasNoEngine`: no context is stuck in Acquiring
  and none keeps an engine after its stop, at whatever step either comes.
* `EveryTaskCovered`: through every split, merge, compaction and clearing, an
  unexecuted task is loaded in a slice or in a range that a slice still reads.
* `DeletedWereExecuted`: rows go only after their tasks were executed.

**Bounds.** Blocks of one id make every second append cross a lease boundary;
two hosts are enough for a stale owner beside the holder, and two faults for a
move combined with a lost answer or a refused start, which is what it takes to
have a write in flight across a lease change. Two faults and two tasks on one
host cover a failure during the recovery from another. With a channel of one
place and a buffer of two both fill up. In the liveness run one fault is one
recovery: a second start of the queue, a retry or a rewrite.
Three audit attempts are two racing on one event and a third whose
initialisation overlaps theirs. Two shard contexts are a current and a stale one;
with ranges of one id a write of two tasks needs a renewal between its two keys;
one fault loses any one answer. Precision 2 and time shift 1 make truncation and
the shifted clock differ from the clock. Three tasks in two groups give a slice a
group on both sides of another, and two readers one to move from and one to move
to; critical counts of 1 and 2 raise the alerts, and a watermark precision of 2
puts a boundary of the window inside a slice. One disruption is one alert,
failed checkpoint or reload, between any number of normal checkpoints, which run
the move-group and slice-predicate actions too. `MaxFaults`, `MaxCrashes`,
`MaxCalls` and `MaxDisruptions` are the only artificial bounds; ids and leases
are bounded because requests and faults are. The deadlock check is off in the
`shard` runs, whose contexts are not created again once they are stopped.

**Fairness.** `TaskQueueBacklog!FairSpec`: each goroutine of a loaded queue
keeps running; strong fairness where it competes for the mutex of `taskQueueDB`
(Go hands a mutex to a starving waiter) or for a `select` (Go picks at random);
the store answers; a poller is always waiting; some caller loads a queue that no
host has. No fairness for faults, moves (a `Load` on a second host), late commits,
expiry or callers of `SpoolTask`. `AuditWriter!FairSpec`: the event loop and its threads run each call
that is ready; no call is forced to begin. `RequestsHub!FairSpec`: a handler that
has begun goes on, and Temporal dispatches activities and fires timers.
`ShardTasks` and `HistoryQueue` state safety only.

## What is proved

TLAPS checks the proofs for every value of the constants (any number of hosts,
tasks, calls, requests and faults; any block, batch and channel size), from the
assumptions `ConstantsAssumption`, `ShardAssumption`, `SliceAssumption`,
`QueueAssumption`, `AuditAssumption` and `HubAssumption` only.

* `TaskQueueBacklogProofs`: every safety property of `TaskQueueBacklog`. None of
  them is inductive alone. The inductive invariant has three layers, each proved
  with the help of the ones before it (module `BacklogInvariants`).
  * `LevelsInv` (`LevelsCorrect`; gives `TypeCorrect` and `LeaseCorrect`, that is
    `OneOwnerPerLease`). A lease is exclusive because every write in flight, lost
    ones included, is conditioned on a `rangeID` the row has had (`WriteOK`,
    `OpOK`, `LateOK`). Row and stored ids lie in the blocks handed out (`RowOK`);
    an owner without a lease knows nothing (`UnloadedOK`); a running owner has
    `ackLevel <= readLevel <= maxReadLevel < next` inside its block (`LoadedOK`).
  * `FreshInv` (`FreshCorrect`; gives `TaskIDsCorrect`, `AddTaskCorrect`,
    `LevelsOrderedCorrect` and the action property `AckLevelCorrect`). Stored
    rows, late rows and the rows a holder is about to write have ids of their own
    (`RowsFresh`, `WriterFresh`), a batch is above what was read before it
    (`ReaderFresh`), and an owner persists no ack level it has not had
    (`AckFresh`).
  * `OwedInv` (`OwedCorrect`; gives `NoTaskLostCorrect` and
    `NoTaskSkippedCorrect`). An owed task has a row that no ack level has passed,
    in the store, in an owner or in a write on its way, and that every owner has
    in hand or ahead of its read level (`Kept`). A new row is such a row because
    the ids of the holder are above everything that can become an ack level
    (`HolderAhead`); an old one may go because a rewrite of it was stored first
    (`RewritesOK`).

  The proof has one lemma, or one step of a lemma, per action and layer. Frame lemmas (`OwnerStep`,
  `LocalStep` and the `...Shapes` lemmas, which say what any step may do to one
  variable) reduce an action to the owner and the variables it touches.
* `ShardTasksProofs`: every property of `ShardTasks` that the run `shard` checks,
  for any number of contexts, calls and faults, any size of a range, any writes
  and any clock, one that goes back included. `ShardInvariant` is the inductive
  invariant `ShardInv`; its layers (module `ShardInvariants`) are proved in the
  order in which they need each other.
  * `BaseInv`: types; `Life`, which ties the state of a context, the position of
    `acquireShard`, the holder of `rwLock` and the engine to one another; and
    `CallInv`, requests have numbers of their own. Gives `AcquiringAttended` and
    `StoppedIsQuiet`.
  * `CountInv`: `inflightRequestCount` is the number of requests that the store
    has still to answer. Gives `DrainIsBounded`, that the count is never negative
    (`TypeCorrect`), and `DrainInv`: when `drain` is over no request is
    unanswered, which is what a renewal relies on.
  * `RangeInv`: a range is granted to one context only, a context gives ids of
    its own range only, its unanswered requests were made under the range it
    knows, and late calls that can still commit are of the row's range. Gives
    `RenewalIsSafe`.
  * `SpentInv` and `DistinctInv`: an id once given is behind the generator of
    every context or outside its block, and the tasks of different requests,
    half-made ones (`setting`) included, have different ids. Gives `IdsUnique`.
  * `MarksInv`: keys stay pending until a definite answer (`PendingInv`); a queue
    is below everything its context can still write (`QueueInv`), and, for ids,
    below everything that later owners write (`BehindInv`); every queue state that
    is in the row, or can become it through an update that is under way or late
    (`Marks`), is at or below each task that is stored or can still be
    (`CoverInv`, `BoundInv`); and what a queue deletes next was executed
    (`DeletedInv`). Gives `WatermarkIsSafe`, `RowIsSafe` and the action property
    `DeletionIsSafe`.

  `AddTasks` and its continuation compute keys over a sequence of tasks. The
  proof uses only what `KeysGiven` says of it: the ids given lie between the old
  and the new `next`, which is at most `max`, and timers are not due before
  `minTime`; the request is then sent, or waits for a new range. The lemmas
  `AddTasksGivesKeys` and `AddTasksGoesOnGivesKeys` derive that from the model of
  the loop. The numbers of requests matter here: without them two equal requests
  would be one element of a set and counted twice.
* `HistoryQueueProofs`: every property of `HistoryQueue` that the run `queue`
  checks, for any keys and groups, any number of readers, any limits and any number
  of disruptions (a critical slice count of at most 5, see below). The inductive
  invariant is `QueueInv`: the slices of each reader are in order, disjoint and
  well formed (`ReaderMaps`); a stored task that is not executed is ahead of the
  queue or held by a slice, which has it pending or a range to read it from
  (`HeldBy`); no row is below what was deleted; and the two queue states, in the
  shard's memory and in its row, are safe to start from (`Safe`): their scopes
  cover what is not executed and no row lies below their mark. `SavedStateCovers`
  alone is not inductive because `UpdateShard` copies the state in memory, and that
  one is made from readers.

  Module `QueueReaders` has, for each operation on a slice, on the list of a reader
  and on all readers, a lemma that it keeps slices in order and loses no task that
  is not executed: split by key and by predicate, the merge in up to three parts,
  compaction, shrinking, clearing, moving to the next reader. The loops of the
  code are recursive functions on numbers (`MergeSlices`, `MoveGroup`,
  `SplitAndClear`, `CompactSlices`). The lemmas `LoopInvariant` and `LoopRuns` turn
  an invariant of one turn into one of the result; they rest on the least turn at
  which it would fail (`LeastExists`), so that no induction scheme is needed.
* `AuditWriterProofs`: `WriterTypeCorrect`, `OkMeansStoredCorrect`,
  `OneDocumentCorrect`, and `WriterImplementsAuditLog`, the refinement: every
  step maps to a step of `AuditLog` or to a stutter. The invariant says that the
  documents are those of their events and that an answered call has its document.
* `RequestsHubProofs`: `HubTypeCorrect`, `WorkflowHasRowCorrect`,
  `NoSilentGapCorrect`, from an invariant that ties the position of a run to the
  answers its audit calls have had and to the state of its handler.

Only model-checked: the liveness properties, which are out of the prover's reach.

## Where the code and its documentation disagree

* `audit.py` means to initialise the client once. When a failing and a succeeding
  initialisation overlap, `_client` can stay set without a container, and no
  later event is written (`audit_reinit`).
* `docs/architecture.md:8` says that the SLA timer is set on creation. A failed
  or skipped workflow start leaves a request without one for good (`hub_timer`).
* `get_request_events` compares a string with a number and returns no events
  (`hub_timeline`).
* `context_impl.go:1828` says that for timers it is enough to start the minimal
  scheduled time of a new owner from the persisted watermark. The previous owner
  may have executed beyond what it persisted, and its range delete does not check
  the `rangeID`: it deletes a timer that the new owner stored below that mark and
  has not fired (`shard_timers`).
* `reader.go:483` stops a reader with "No more tasks to load". `ShrinkSlices`
  (`reader.go:364`) can remove the slice that `nextReadSlice` points to; the
  removed list element has no successor, and the slices behind it stay unread
  until something resets the pointer. A poll does so for the default reader; for
  another one it takes a later move of slices, an alert or a reload
  (`queue_stall`).

Seen while modelling, and not the subject of a run: an initialisation in progress
makes a concurrent call answer `no-cosmos` though Cosmos is healthy
(`audit.py:57`, `:73`); `check_status` is a placeholder, so resolved requests are
escalated too, though `docs/architecture.md:8` says "if unresolved, auto-escalate"; a PATCH writes no audit event though `docs/architecture.md:9`
lists status changes; an append answered with the shutdown error may still be
stored, which the comment at `task_writer.go:108` denies and `NoTaskLost` and
`TaskIDsFresh` allow for; with a critical slice count of 6 or more
`actionSliceCount` can ask `pickCompactCandidates` for a negative number of
candidates (`action_slice_count.go:183`), which is why `QueueAssumption` stops
at 5.

## Not modelled, and why

* `upload_attachment`, `list_requests`, `get_audit_events`: one insert, one read,
  and a function without a caller.
* The frontend page: the state of one browser page, which shows what the API
  answers.
* The priority and fairness backlogs: other implementations of the backlog, which
  dynamic configuration can put in place of the classic one. They share its lease
  and differ in reader, ack manager and ids; each is a development of its own.
* Task queue user data and versioning, workflow updates, Nexus, callbacks and the
  state machine frameworks: the application uses none of them.
* The workflow task state machine: sequential under the workflow lock, and tied
  to the event and attribute data of mutable state.
* Replication and conflict resolution: a multi-cluster protocol; the deployment
  has one cluster.
* Retry, back-off, rescheduling and the dead-letter queue of an executable; rate
  limits: delays, which the models take as nondeterminism.
* The system workflows of the worker service: programs of their own.
* Frontend service, membership, RPC, configuration, persistence plugins, tools:
  validation, input and output, generated code.

An abstract at-least-once queue that `TaskQueueBacklog` implements would say what
`NoTaskLost`, `NoTaskSkipped` and `AcceptedIsDispatched` say together; the three
are stated directly instead.
