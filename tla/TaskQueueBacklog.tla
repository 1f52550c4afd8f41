-------------------------- MODULE TaskQueueBacklog --------------------------
(***************************************************************************)
(* The classic backlog manager of the matching service: one durable task   *)
(* queue, owned by at most one host at a time through a lease (rangeID),   *)
(* written by a taskWriter, read back by a taskReader, acknowledged in an  *)
(* ackManager and cleaned up by a taskGC.  Several hosts may believe that  *)
(* they own the queue; the store fences the writes of all but the last.    *)
(*                                                                         *)
(* Sources: src/temporal/service/matching/{backlog_manager, task_writer,   *)
(* task_reader, ack_manager, task_gc, db, physical_task_queue_manager}.go, *)
(* src/temporal/common/persistence/sql/{task_v1, task_queues}.go.          *)
(***************************************************************************)
EXTENDS Integers, Sequences, FiniteSets

CONSTANTS
    Owners,             \* hosts on which the queue may be loaded
    Tasks,              \* what history asks matching to dispatch
    Expirable,          \* the tasks that carry an expiry time
    RangeSize,          \* config.RangeSize: task ids per lease
    RangesPerRead,      \* the 10 of getTaskBatch: ranges scanned per read
    GetTasksBatchSize,  \* rows per read, and room in the task buffer
    MaxTaskBatchSize,   \* append requests per write
    MaxAppends,         \* OutstandingTaskAppendsThreshold: room in appendCh
    FaultKinds,         \* what may go wrong: see AllFaults
    MaxFaults           \* bound: how often

\* A store call fails or times out, a read fails, history refuses a start, the
\* append channel stays full, a host dies, the queue is unloaded or is loaded on
\* a second host.
AllFaults == {"store", "read", "start", "full", "crash", "unload", "move"}

ASSUME ConstantsAssumption ==
    /\ FaultKinds \subseteq AllFaults
    /\ Expirable \subseteq Tasks
    /\ IsFiniteSet(Owners) /\ IsFiniteSet(Tasks)
    /\ RangeSize \in Nat \ {0}
    /\ RangesPerRead \in Nat \ {0}
    /\ GetTasksBatchSize \in Nat \ {0}
    /\ MaxTaskBatchSize \in Nat \ {0}
    /\ MaxAppends \in Nat \ {0}
    /\ MaxFaults \in Nat

VARIABLES
    \* the store
    row,            \* task_queues row: [rangeID, ackLevel]; rangeID 0: no row
    stored,         \* tasks rows: [id, data]
    late,           \* conditional writes that timed out and may still commit
    \* per owner: taskQueueDB and life cycle
    status,         \* off, loading, on, stopping, closing
    rangeID,        \* db.rangeID, 0 before the lease is taken
    dbAck,          \* db.subqueues[0].AckLevel: ack level last written
    maxReadLevel,   \* db.subqueues[0].maxReadLevel
    op,             \* the store call in progress under db's mutex
    fatal,          \* skipFinalUpdate set and unload requested
    \* per owner: taskWriter
    next,           \* taskIDBlock.start; the block ends at BlockEnd(rangeID)
    appendCh,       \* append requests that have no id yet
    wtasks,         \* requests of the batch in hand, with their ids
    \* per owner: taskReader and ackManager
    pump,           \* idle, reading, adding, persisting
    readTo,         \* maxReadLevel as getTaskBatch saw it
    batch,          \* tasks read and not yet added to the buffer
    signal,         \* notifyC holds an event
    ackLevel,
    readLevel,
    outstanding,    \* outstandingTasks, with where each task is
    \* the callers
    accepted,       \* tasks whose SpoolTask returned nil
    done,           \* tasks that history answered for good
    expired,        \* tasks whose expiry time has passed
    faults

storeVars  == <<row, stored, late>>
dbVars     == <<status, rangeID, dbAck, maxReadLevel, op, fatal>>
writerVars == <<next, appendCh, wtasks>>
readerVars == <<pump, readTo, batch, signal, ackLevel, readLevel, outstanding>>
envVars    == <<accepted, done, expired, faults>>
vars       == <<storeVars, dbVars, writerVars, readerVars, envVars>>

-----------------------------------------------------------------------------
(* Types *)

StoredTask == [id : Nat, data : Tasks]

\* src is 0 for a SpoolTask and the id of the old copy for a rewrite.
AppendRequest == [data : Tasks, src : Nat]
AssignedRequest == [id : Nat, data : Tasks, src : Nat]

\* Where a loaded task is: in the buffer, in a poller's hands, refused by
\* history, queued for rewriting, given up, finished, or marked acked.
Phases == {"buffered", "polled", "failed", "rewriting", "stuck", "finished",
           "acked"}
LoadedTask == [id : Nat, data : Tasks, ph : Phases]

NoOp == [kind |-> "none"]

\* A write conditioned on row.rangeID = prev.
Write == [kind : {"lease", "ack", "final", "tasks"}, prev : Nat, new : Nat,
          ack : Nat, tasks : SUBSET StoredTask]

-----------------------------------------------------------------------------
(* Helpers *)

\* (Mutant: blocks overlap by one id.)
BlockStartOffByOne(r) == (r - 1) * RangeSize

BlockStart(r) == (r - 1) * RangeSize + 1
BlockEnd(r) == r * RangeSize

\* (Mutants: it reads its own block too, or nothing of the earlier ones.)
ReadLevelOfOwnBlock(r) == BlockEnd(r)
ReadLevelZero(r) == 0

\* An owner that takes the queue over does not know what was written before:
\* it reads up to just before its own block.
TakeOverReadLevel(r) == BlockStart(r) - 1

Running(o) == status[o] \in {"on", "stopping", "closing"}

Fault(kind) ==
    /\ kind \in FaultKinds
    /\ faults < MaxFaults
    /\ faults' = faults + 1

LeaseWrite(r, ack) ==
    [kind |-> "lease", prev |-> r, new |-> r + 1, ack |-> ack, tasks |-> {}]
AckWrite(kind, r, ack) ==
    [kind |-> kind, prev |-> r, new |-> r, ack |-> ack, tasks |-> {}]
TasksWrite(r, ts) ==
    [kind |-> "tasks", prev |-> r, new |-> r, ack |-> 0, tasks |-> ts]

\* (Mutant: writes are not fenced.)
NoLock(w) == TRUE

\* lockTaskQueue: the condition every write is checked against.
lockTaskQueue(w) == row.rangeID = w.prev

\* What a write that passes the condition does to the store.  Once the rangeID
\* has moved, no write conditioned on an earlier one can commit any more.
Committed(w) ==
    IF w.kind = "tasks" THEN row ELSE [rangeID |-> w.new, ackLevel |-> w.ack]
Commit(w) ==
    /\ row' = Committed(w)
    /\ stored' = stored \cup w.tasks
    /\ late' = IF w.kind = "lease" THEN {} ELSE late

\* The answer to a write is lost, or is an error: it may commit later or never.
MayCommitLater(w) == IF lockTaskQueue(w) THEN late \cup {w} ELSE late

\* CompleteTasksLessThan: rows up to the level go, as many as the limit allows;
\* the thresholds, the lock and errors of taskGC may leave them all in place.
CompleteTasksLessThan(level) ==
    \E cut \in 0..level : stored' = {s \in stored : s.id > cut}

\* The append requests that have not been answered.
PendingAppends(o) ==
    {appendCh[o][i] : i \in DOMAIN appendCh[o]} \cup
    {[data |-> r.data, src |-> r.src] : r \in wtasks[o]}

Srcs(o) == {r.src : r \in wtasks[o]} \ {0}

\* (Mutant: a failed rewrite counts as done.)
RewritesFinish(o, srcs, ph) ==
    [outstanding EXCEPT ![o] =
        {IF e.ph = "rewriting" /\ e.id \in srcs THEN [e EXCEPT !.ph = "finished"]
         ELSE e : e \in @}]

\* The tasks whose rewrites the writer answers change phase.
RewritesBecome(o, srcs, ph) ==
    [outstanding EXCEPT ![o] =
        {IF e.ph = "rewriting" /\ e.id \in srcs THEN [e EXCEPT !.ph = ph]
         ELSE e : e \in @}]

\* (Mutant: the queue stays loaded.)
IgnoreFatal(o) == fatal' = fatal

\* ConditionFailed means that another owner has the lease: unload, without a
\* final update.
signalIfFatal(o) == fatal' = [fatal EXCEPT ![o] = TRUE]

\* The writer answers its batch with an error: the requests that have an id
\* and, when no id could be had for it, the one at the head of appendCh.
\* SpoolTask returns the error to its caller.  A rewrite is retried (mayRetry:
\* the error is transient and the retry policy not exhausted) or given up,
\* which unloads the queue, as ConditionFailed (~mayRetry) does in any case.
FailBatch(o, reqs, mayRetry) ==
    LET srcs == {r.src : r \in reqs} \ {0}
    IN  /\ wtasks' = [wtasks EXCEPT ![o] = {}]
        /\ \/ /\ mayRetry
              /\ outstanding' = RewritesBecome(o, srcs, "failed")
              /\ fatal' = fatal
           \/ /\ ~mayRetry \/ srcs # {}
              /\ outstanding' = RewritesBecome(o, srcs, "stuck")
              /\ signalIfFatal(o)

FailAlloc(o, mayRetry) ==
    /\ appendCh' = [appendCh EXCEPT ![o] = Tail(@)]
    /\ FailBatch(o, wtasks[o] \cup {Head(appendCh[o])}, mayRetry)

\* Everything an owner knows is gone; its lease stays in the store.
Forget(o) ==
    /\ status' = [status EXCEPT ![o] = "off"]
    /\ rangeID' = [rangeID EXCEPT ![o] = 0]
    /\ dbAck' = [dbAck EXCEPT ![o] = 0]
    /\ maxReadLevel' = [maxReadLevel EXCEPT ![o] = 0]
    /\ op' = [op EXCEPT ![o] = NoOp]
    /\ fatal' = [fatal EXCEPT ![o] = FALSE]
    /\ next' = [next EXCEPT ![o] = 1]
    /\ appendCh' = [appendCh EXCEPT ![o] = <<>>]
    /\ wtasks' = [wtasks EXCEPT ![o] = {}]
    /\ pump' = [pump EXCEPT ![o] = "idle"]
    /\ readTo' = [readTo EXCEPT ![o] = 0]
    /\ batch' = [batch EXCEPT ![o] = {}]
    /\ signal' = [signal EXCEPT ![o] = FALSE]
    /\ ackLevel' = [ackLevel EXCEPT ![o] = -1]
    /\ readLevel' = [readLevel EXCEPT ![o] = -1]
    /\ outstanding' = [outstanding EXCEPT ![o] = {}]

Init ==
    /\ row = [rangeID |-> 0, ackLevel |-> 0]
    /\ stored = {}
    /\ late = {}
    /\ status = [o \in Owners |-> "off"]
    /\ rangeID = [o \in Owners |-> 0]
    /\ dbAck = [o \in Owners |-> 0]
    /\ maxReadLevel = [o \in Owners |-> 0]
    /\ op = [o \in Owners |-> NoOp]
    /\ fatal = [o \in Owners |-> FALSE]
    /\ next = [o \in Owners |-> 1]
    /\ appendCh = [o \in Owners |-> <<>>]
    /\ wtasks = [o \in Owners |-> {}]
    /\ pump = [o \in Owners |-> "idle"]
    /\ readTo = [o \in Owners |-> 0]
    /\ batch = [o \in Owners |-> {}]
    /\ signal = [o \in Owners |-> FALSE]
    /\ ackLevel = [o \in Owners |-> -1]
    /\ readLevel = [o \in Owners |-> -1]
    /\ outstanding = [o \in Owners |-> {}]
    /\ accepted = {}
    /\ done = {}
    /\ expired = {}
    /\ faults = 0

-----------------------------------------------------------------------------
(* Loading: the writer takes the lease over before anything else happens *)

\* newBacklogManager and Start.  A host loads the queue when a call reaches it;
\* while another host has it loaded this is a move of the partition.
Load(o) ==
    /\ status[o] = "off"
    /\ \/ (\A p \in Owners : status[p] = "off") /\ UNCHANGED faults
       \/ (\E p \in Owners : status[p] # "off") /\ Fault("move")
    /\ status' = [status EXCEPT ![o] = "loading"]
    /\ UNCHANGED <<storeVars, rangeID, dbAck, maxReadLevel, op, fatal,
                   writerVars, readerVars, accepted, done, expired>>

\* takeOverTaskQueueLocked reads the row and bumps its rangeID, or creates it.
takeOverTaskQueue(o) ==
    /\ status[o] = "loading"
    /\ op[o] = NoOp
    /\ op' = [op EXCEPT ![o] = LeaseWrite(row.rangeID, row.ackLevel)]
    /\ UNCHANGED <<storeVars, status, rangeID, dbAck, maxReadLevel, fatal,
                   writerVars, readerVars, envVars>>

\* The store grants a lease.  On a takeover, initReadWriteState sets the block
\* and the ack level and getTasksPump primes itself; on a renewal, the writer
\* goes on assigning ids from the new block.
LeaseGranted(o) ==
    /\ op[o].kind = "lease"
    /\ lockTaskQueue(op[o])
    /\ Commit(op[o])
    /\ rangeID' = [rangeID EXCEPT ![o] = op[o].new]
    /\ next' = [next EXCEPT ![o] = BlockStart(op[o].new)]
    /\ op' = [op EXCEPT ![o] = NoOp]
    /\ \/ /\ status[o] = "loading"
          /\ status' = [status EXCEPT ![o] = "on"]
          /\ dbAck' = [dbAck EXCEPT ![o] = op[o].ack]
          /\ maxReadLevel' =
                [maxReadLevel EXCEPT ![o] = TakeOverReadLevel(op[o].new)]
          /\ ackLevel' = [ackLevel EXCEPT ![o] = op[o].ack]
          /\ readLevel' = [readLevel EXCEPT ![o] = op[o].ack]
          /\ signal' = [signal EXCEPT ![o] = TRUE]
       \/ /\ status[o] # "loading"
          /\ UNCHANGED <<status, dbAck, maxReadLevel, ackLevel, readLevel,
                         signal>>
    /\ UNCHANGED <<fatal, appendCh, wtasks, pump, readTo, batch,
                   outstanding, envVars>>

\* ConditionFailed: a takeover that fails unloads (SetInitializedError); a
\* renewal that fails answers the batch errShutdown and unloads.
LeaseRefused(o) ==
    /\ op[o].kind = "lease"
    /\ ~lockTaskQueue(op[o])
    /\ \/ /\ status[o] = "loading"
          /\ Forget(o)
       \/ /\ status[o] # "loading"
          /\ op' = [op EXCEPT ![o] = NoOp]
          /\ FailAlloc(o, FALSE)
          /\ UNCHANGED <<status, rangeID, dbAck, maxReadLevel, next, pump,
                         readTo, batch, signal, ackLevel, readLevel>>
    /\ UNCHANGED <<storeVars, envVars>>

\* An error or a timeout.  renewLeaseWithRetry tries again, or gives up.
LeaseError(o) ==
    /\ op[o].kind = "lease"
    /\ Fault("store")
    /\ late' = MayCommitLater(op[o])
    /\ \/ /\ op' = [op EXCEPT ![o] = NoOp]
          /\ UNCHANGED <<status, rangeID, dbAck, maxReadLevel, fatal,
                         writerVars, readerVars>>
       \/ /\ status[o] = "loading"
          /\ Forget(o)
       \/ /\ status[o] # "loading"
          /\ op' = [op EXCEPT ![o] = NoOp]
          /\ FailAlloc(o, TRUE)
          /\ UNCHANGED <<status, rangeID, dbAck, maxReadLevel, next, pump,
                         readTo, batch, signal, ackLevel, readLevel>>
    /\ UNCHANGED <<row, stored, accepted, done, expired>>

-----------------------------------------------------------------------------
(* taskWriter *)

\* SpoolTask -> appendTask, up to the send on appendCh.  History calls again
\* until a call succeeds, possibly while an earlier call is still queued.  A
\* full channel is answered ResourceExhausted and changes nothing.
SpoolTask(o, t) ==
    /\ Running(o)
    /\ t \notin accepted
    /\ [data |-> t, src |-> 0] \notin PendingAppends(o)
    /\ Len(appendCh[o]) < MaxAppends
    /\ appendCh' =
        [appendCh EXCEPT ![o] = Append(@, [data |-> t, src |-> 0])]
    /\ UNCHANGED <<storeVars, dbVars, next, wtasks, readerVars, envVars>>

\* The loops of getWriteBatch and assignTaskIDs, one request at a time: take
\* it from the channel and give it the next id of the block.  (Requests have no
\* effect before they are taken, so taking them one by one only shifts their
\* arrival.)  A batch is one more than MaxTaskBatchSize at most.
assignTaskID(o) ==
    /\ Running(o)
    /\ appendCh[o] # <<>>
    /\ op[o].kind \notin {"lease", "tasks"}
    /\ Cardinality(wtasks[o]) <= MaxTaskBatchSize
    /\ next[o] <= BlockEnd(rangeID[o])
    /\ wtasks' = [wtasks EXCEPT ![o] = @ \cup
                    {[id |-> next[o], data |-> Head(appendCh[o]).data,
                      src |-> Head(appendCh[o]).src]}]
    /\ appendCh' = [appendCh EXCEPT ![o] = Tail(@)]
    /\ next' = [next EXCEPT ![o] = @ + 1]
    /\ UNCHANGED <<storeVars, dbVars, readerVars, envVars>>

\* allocTaskIDBlock: the block is used up, renew the lease.
allocTaskIDBlock(o) ==
    /\ Running(o)
    /\ appendCh[o] # <<>>
    /\ Cardinality(wtasks[o]) <= MaxTaskBatchSize
    /\ next[o] > BlockEnd(rangeID[o])
    /\ op[o] = NoOp
    /\ op' = [op EXCEPT ![o] = LeaseWrite(rangeID[o], dbAck[o])]
    /\ UNCHANGED <<storeVars, status, rangeID, dbAck, maxReadLevel, fatal,
                   writerVars, readerVars, envVars>>

\* appendTasks -> db.CreateTasks takes the mutex and calls the store.
appendTasks(o) ==
    /\ Running(o)
    /\ wtasks[o] # {}
    /\ op[o] = NoOp
    /\ op' = [op EXCEPT ![o] =
                TasksWrite(rangeID[o],
                           {[id |-> r.id, data |-> r.data] : r \in wtasks[o]})]
    /\ UNCHANGED <<storeVars, status, rangeID, dbAck, maxReadLevel, fatal,
                   writerVars, readerVars, envVars>>

\* CreateTasks raises maxReadLevel to the last id it assigned, whatever the
\* store's answer was.
RaiseMaxReadLevel(o) ==
    maxReadLevel' = [maxReadLevel EXCEPT ![o] = next[o] - 1]

\* The tasks are stored: the writer answers nil, every caller signals the pump.
TasksCreated(o) ==
    /\ op[o].kind = "tasks"
    /\ lockTaskQueue(op[o])
    /\ Commit(op[o])
    /\ RaiseMaxReadLevel(o)
    /\ op' = [op EXCEPT ![o] = NoOp]
    /\ wtasks' = [wtasks EXCEPT ![o] = {}]
    /\ accepted' = accepted \cup {r.data : r \in {x \in wtasks[o] : x.src = 0}}
    /\ outstanding' = RewritesBecome(o, Srcs(o), "finished")
    /\ signal' = [signal EXCEPT ![o] = TRUE]
    /\ UNCHANGED <<status, rangeID, dbAck, fatal, next, appendCh, pump,
                   readTo, batch, ackLevel, readLevel, done, expired, faults>>

TasksRefused(o) ==
    /\ op[o].kind = "tasks"
    /\ ~lockTaskQueue(op[o])
    /\ RaiseMaxReadLevel(o)
    /\ op' = [op EXCEPT ![o] = NoOp]
    /\ FailBatch(o, wtasks[o], FALSE)
    /\ UNCHANGED <<storeVars, status, rangeID, dbAck, next, appendCh, pump,
                   readTo, batch, signal, ackLevel, readLevel, envVars>>

TasksError(o) ==
    /\ op[o].kind = "tasks"
    /\ Fault("store")
    /\ late' = MayCommitLater(op[o])
    /\ RaiseMaxReadLevel(o)
    /\ op' = [op EXCEPT ![o] = NoOp]
    /\ FailBatch(o, wtasks[o], TRUE)
    /\ UNCHANGED <<row, stored, status, rangeID, dbAck, next, appendCh, pump,
                   readTo, batch, signal, ackLevel, readLevel, accepted, done,
                   expired>>

-----------------------------------------------------------------------------
(* taskReader: getTasksPump *)

Buffered(o) == {e \in outstanding[o] : e.ph = "buffered"}

\* The pump waits in addSingleTaskToBuffer: its task is known to the ack manager
\* and has no room in taskBuffer or with dispatchBufferedTasks.
Sending(o) == Cardinality(Buffered(o)) > GetTasksBatchSize

\* getTaskBatch reads readLevel, and maxReadLevel under db's mutex.  With
\* nothing to read, setReadLevelAfterGap leaves the levels as they are.
ReadBegin(o) ==
    /\ Running(o)
    /\ pump[o] = "idle" /\ ~Sending(o) /\ signal[o]
    /\ op[o] = NoOp
    /\ signal' = [signal EXCEPT ![o] = FALSE]
    /\ \/ /\ readLevel[o] < maxReadLevel[o]
          /\ pump' = [pump EXCEPT ![o] = "reading"]
          /\ readTo' = [readTo EXCEPT ![o] = maxReadLevel[o]]
       \/ /\ readLevel[o] >= maxReadLevel[o]
          /\ UNCHANGED <<pump, readTo>>
    /\ UNCHANGED <<storeVars, dbVars, writerVars, batch, ackLevel, readLevel,
                   outstanding, envVars>>

\* (Mutant: the last range is not cut at readTo.)
ReadUpperUncapped(o, k) == readLevel[o] + k * RangeSize

\* The upper end of the first k ranges.
ReadUpper(o, k) ==
    IF readLevel[o] + k * RangeSize > readTo[o] THEN readTo[o]
    ELSE readLevel[o] + k * RangeSize

\* (Mutant: the lower end of the range is part of it.)
InRangesInclusive(o, k) ==
    {s \in stored : readLevel[o] <= s.id /\ s.id <= ReadUpper(o, k)}

\* The rows in the first k ranges.
InRanges(o, k) ==
    {s \in stored : readLevel[o] < s.id /\ s.id <= ReadUpper(o, k)}

\* GetTasks returns the first page of the range only.
FirstPage(S) ==
    {s \in S : Cardinality({x \in S : x.id < s.id}) < GetTasksBatchSize}

\* The first range that holds tasks is returned.
ReadSome(o) ==
    /\ pump[o] = "reading"
    /\ \E k \in 1..RangesPerRead :
        /\ InRanges(o, k) # {}
        /\ \A j \in 1..(k - 1) : InRanges(o, j) = {}
        /\ batch' = [batch EXCEPT ![o] = FirstPage(InRanges(o, k))]
    /\ pump' = [pump EXCEPT ![o] = "adding"]
    /\ readTo' = [readTo EXCEPT ![o] = 0]
    /\ UNCHANGED <<storeVars, dbVars, writerVars, signal, ackLevel, readLevel,
                   outstanding, envVars>>

\* No range holds a task: setReadLevelAfterGap, and signal if not at the end.
ReadNone(o) ==
    /\ pump[o] = "reading"
    /\ InRanges(o, RangesPerRead) = {}
    /\ LET upper == ReadUpper(o, RangesPerRead)
       IN  /\ ackLevel' = [ackLevel EXCEPT ![o] =
                              IF @ = readLevel[o] THEN upper ELSE @]
           /\ readLevel' = [readLevel EXCEPT ![o] = upper]
           /\ signal' = [signal EXCEPT ![o] = @ \/ upper # readTo[o]]
    /\ pump' = [pump EXCEPT ![o] = "idle"]
    /\ readTo' = [readTo EXCEPT ![o] = 0]
    /\ UNCHANGED <<storeVars, dbVars, writerVars, batch, outstanding, envVars>>

\* The read fails; reEnqueueAfterDelay signals the pump again.
ReadError(o) ==
    /\ pump[o] = "reading"
    /\ Fault("read")
    /\ pump' = [pump EXCEPT ![o] = "idle"]
    /\ readTo' = [readTo EXCEPT ![o] = 0]
    /\ signal' = [signal EXCEPT ![o] = TRUE]
    /\ UNCHANGED <<storeVars, dbVars, writerVars, batch, ackLevel, readLevel,
                   outstanding, accepted, done, expired>>

\* One round of addTasksToBuffer.  An expired task only moves the read level.
AddTask(o) ==
    /\ pump[o] = "adding" /\ ~Sending(o)
    /\ \E s \in batch[o] :
        /\ \A x \in batch[o] : s.id <= x.id
        /\ \/ /\ s.data \in expired
              /\ UNCHANGED outstanding
           \/ /\ s.data \notin expired
              /\ outstanding' = [outstanding EXCEPT ![o] = @ \cup
                    {[id |-> s.id, data |-> s.data, ph |-> "buffered"]}]
        /\ readLevel' = [readLevel EXCEPT ![o] = s.id]
        /\ batch' = [batch EXCEPT ![o] = @ \ {s}]
        /\ IF batch[o] = {s}
           THEN /\ pump' = [pump EXCEPT ![o] = "idle"]
                /\ signal' = [signal EXCEPT ![o] = TRUE]
           ELSE UNCHANGED <<pump, signal>>
    /\ UNCHANGED <<storeVars, dbVars, writerVars, readTo, ackLevel, envVars>>

\* updateAckTimer fires: persistAckBacklogCountLevel -> OldUpdateState.
persistAck(o) ==
    /\ Running(o)
    /\ pump[o] = "idle" /\ ~Sending(o)
    /\ op[o] = NoOp
    /\ op' = [op EXCEPT ![o] = AckWrite("ack", rangeID[o], ackLevel[o])]
    /\ pump' = [pump EXCEPT ![o] = "persisting"]
    /\ UNCHANGED <<storeVars, status, rangeID, dbAck, maxReadLevel, fatal,
                   writerVars, readTo, batch, signal, ackLevel, readLevel,
                   outstanding, envVars>>

\* OldUpdateState keeps the new ack level only if the write succeeded; the
\* pump is signalled in every case, and unloads on ConditionFailed.
AckAnswered(o) ==
    /\ op[o].kind = "ack"
    /\ pump[o] = "persisting"
    /\ \/ /\ lockTaskQueue(op[o])
          /\ Commit(op[o])
          /\ dbAck' = [dbAck EXCEPT ![o] = op[o].ack]
          /\ UNCHANGED <<fatal, faults>>
       \/ /\ ~lockTaskQueue(op[o])
          /\ signalIfFatal(o)
          /\ UNCHANGED <<storeVars, dbAck, faults>>
       \/ /\ Fault("store")
          /\ late' = MayCommitLater(op[o])
          /\ UNCHANGED <<row, stored, dbAck, fatal>>
    /\ op' = [op EXCEPT ![o] = NoOp]
    /\ pump' = [pump EXCEPT ![o] = "idle"]
    /\ signal' = [signal EXCEPT ![o] = TRUE]
    /\ UNCHANGED <<status, rangeID, maxReadLevel, writerVars, readTo, batch,
                   ackLevel, readLevel, outstanding, accepted, done, expired>>

-----------------------------------------------------------------------------
(* Dispatch: dispatchBufferedTasks, the pollers, completeTask *)

MoveTask(o, e, ph) ==
    outstanding' = [outstanding EXCEPT ![o] =
                        (@ \ {e}) \cup {[e EXCEPT !.ph = ph]}]

\* The head of the buffer goes to a poller, or is found expired and finished.
ProcessSpooledTask(o) ==
    /\ Running(o)
    /\ \E e \in Buffered(o) :
        /\ \A x \in Buffered(o) : e.id <= x.id
        /\ MoveTask(o, e, IF e.data \in expired THEN "finished" ELSE "polled")
    /\ UNCHANGED <<storeVars, dbVars, writerVars, pump, readTo, batch, signal,
                   ackLevel, readLevel, envVars>>

\* The poller finds the task expired, or reports its start to history, which
\* answers for good: started, already started, not found, obsolete.
RecordTaskStarted(o, e) ==
    /\ e \in outstanding[o] /\ e.ph = "polled"
    /\ MoveTask(o, e, "finished")
    /\ done' = IF e.data \in expired THEN done ELSE done \cup {e.data}
    /\ UNCHANGED <<storeVars, dbVars, writerVars, pump, readTo, batch, signal,
                   ackLevel, readLevel, accepted, expired, faults>>

\* Any other answer of history: task.finish(err).
RecordTaskStartedError(o, e) ==
    /\ e \in outstanding[o] /\ e.ph = "polled"
    /\ e.data \notin expired
    /\ Fault("start")
    /\ MoveTask(o, e, "failed")
    /\ UNCHANGED <<storeVars, dbVars, writerVars, pump, readTo, batch, signal,
                   ackLevel, readLevel, accepted, done, expired>>

\* completeTask with an error: append the task again under a higher id.  While
\* the channel is full the append is retried; when the retry policy is
\* exhausted the queue is unloaded.
RewriteTask(o, e) ==
    /\ e \in outstanding[o] /\ e.ph = "failed"
    /\ \/ /\ Len(appendCh[o]) < MaxAppends
          /\ appendCh' = [appendCh EXCEPT ![o] =
                            Append(@, [data |-> e.data, src |-> e.id])]
          /\ MoveTask(o, e, "rewriting")
          /\ UNCHANGED <<fatal, faults>>
       \/ /\ Len(appendCh[o]) >= MaxAppends
          /\ Fault("full")
          /\ MoveTask(o, e, "stuck")
          /\ fatal' = [fatal EXCEPT ![o] = TRUE]
          /\ UNCHANGED appendCh
    /\ UNCHANGED <<storeVars, status, rangeID, dbAck, maxReadLevel, op, next,
                   wtasks, pump, readTo, batch, signal, ackLevel,
                   readLevel, accepted, done, expired>>

\* (Mutant: acked tasks are passed over even if an earlier one is not acked.)
AnyAcked(S) == {x \in S : x.ph = "acked"}

\* ackManager.completeTask: mark the task, then move the ack level over the
\* acked tasks at the low end.
AckedPrefix(S) ==
    {x \in S : x.ph = "acked" /\ \A y \in S : y.ph # "acked" => x.id < y.id}

\* completeTask without an error, or after the rewrite: ack, then taskGC.Run.
completeTask(o, e) ==
    /\ e \in outstanding[o] /\ e.ph = "finished"
    /\ LET marked == (outstanding[o] \ {e}) \cup {[e EXCEPT !.ph = "acked"]}
           prefix == AckedPrefix(marked)
       IN  \E level \in {ackLevel[o]} \cup {x.id : x \in prefix} :
            /\ prefix # {} => level \in {x.id : x \in prefix}
            /\ \A x \in prefix : x.id <= level
            /\ ackLevel' = [ackLevel EXCEPT ![o] = level]
            /\ outstanding' = [outstanding EXCEPT ![o] = marked \ prefix]
            /\ CompleteTasksLessThan(level)
    /\ UNCHANGED <<row, late, dbVars, writerVars, pump, readTo, batch, signal,
                   readLevel, envVars>>

-----------------------------------------------------------------------------
(* Unloading, crashes, time *)

\* Stop: one last OldUpdateState, unless the queue unloads because of an error.
Stop(o) ==
    /\ status[o] = "on"
    /\ \/ /\ ~fatal[o]
          /\ Fault("unload")
          /\ op[o] = NoOp
          /\ op' = [op EXCEPT ![o] = AckWrite("final", rangeID[o], ackLevel[o])]
          /\ status' = [status EXCEPT ![o] = "stopping"]
       \/ /\ fatal[o]
          /\ status' = [status EXCEPT ![o] = "closing"]
          /\ UNCHANGED <<op, faults>>
    /\ UNCHANGED <<storeVars, rangeID, dbAck, maxReadLevel, fatal, writerVars,
                   readerVars, accepted, done, expired>>

\* Its result is ignored; taskGC.RunNow follows in every case.
FinalAnswered(o) ==
    /\ op[o].kind = "final"
    /\ \/ /\ lockTaskQueue(op[o])
          /\ row' = Committed(op[o])
          /\ dbAck' = [dbAck EXCEPT ![o] = op[o].ack]
          /\ UNCHANGED <<late, faults>>
       \/ /\ ~lockTaskQueue(op[o])
          /\ UNCHANGED <<row, late, dbAck, faults>>
       \/ /\ Fault("store")
          /\ late' = MayCommitLater(op[o])
          /\ UNCHANGED <<row, dbAck>>
    /\ CompleteTasksLessThan(op[o].ack)
    /\ op' = [op EXCEPT ![o] = NoOp]
    /\ status' = [status EXCEPT ![o] = "closing"]
    /\ UNCHANGED <<rangeID, maxReadLevel, fatal, writerVars, readerVars,
                   accepted, done, expired>>

\* tqCtxCancel: every goroutine returns; callers waiting for the writer get
\* errShutdown even when their write is already on its way to the store.
tqCtxCancel(o) ==
    /\ status[o] = "closing"
    /\ late' = IF op[o] = NoOp THEN late ELSE MayCommitLater(op[o])
    /\ Forget(o)
    /\ UNCHANGED <<row, stored, envVars>>

\* The host dies.
Crash(o) ==
    /\ status[o] # "off"
    /\ Fault("crash")
    /\ late' = IF op[o] = NoOp THEN late ELSE MayCommitLater(op[o])
    /\ Forget(o)
    /\ UNCHANGED <<row, stored, accepted, done, expired>>

\* A write that timed out commits after all.
LateCommit(w) ==
    /\ w \in late
    /\ lockTaskQueue(w)
    /\ row' = Committed(w)
    /\ stored' = stored \cup w.tasks
    /\ late' = IF w.kind = "lease" THEN {} ELSE late \ {w}
    /\ UNCHANGED <<dbVars, writerVars, readerVars, envVars>>

\* A task's expiry time passes.
Expire(t) ==
    /\ t \in Expirable \ expired
    /\ expired' = expired \cup {t}
    /\ UNCHANGED <<storeVars, dbVars, writerVars, readerVars, accepted, done,
                   faults>>

-----------------------------------------------------------------------------
Next ==
    \/ \E o \in Owners :
        \/ Load(o) \/ takeOverTaskQueue(o)
        \/ LeaseGranted(o) \/ LeaseRefused(o) \/ LeaseError(o)
        \/ \E t \in Tasks : SpoolTask(o, t)
        \/ assignTaskID(o) \/ allocTaskIDBlock(o)
        \/ appendTasks(o)
        \/ TasksCreated(o) \/ TasksRefused(o) \/ TasksError(o)
        \/ ReadBegin(o) \/ ReadSome(o) \/ ReadNone(o) \/ ReadError(o)
        \/ AddTask(o) \/ persistAck(o) \/ AckAnswered(o)
        \/ ProcessSpooledTask(o)
        \/ \E e \in outstanding[o] :
            \/ RecordTaskStarted(o, e) \/ RecordTaskStartedError(o, e)
            \/ RewriteTask(o, e) \/ completeTask(o, e)
        \/ Stop(o) \/ FinalAnswered(o) \/ tqCtxCancel(o) \/ Crash(o)
    \/ \E w \in late : LateCommit(w)
    \/ \E t \in Tasks : Expire(t)

Spec == Init /\ [][Next]_vars

\* What keeps running: the goroutines of a loaded queue, the store (which
\* answers every call), the pollers (one is always waiting, and history in the
\* end accepts a start), and a caller that loads the queue when no host has it.
\* Not faults, moves, callers of SpoolTask, late commits or expiry.  Each
\* conjunct of OwnerFairness is one goroutine, which has one step to take at a
\* time; strong fairness where it competes: for db's mutex, which Go hands to a
\* starving waiter, and between the ready cases of the pump's select, which Go
\* picks at random.
OwnerFairness(o) ==
    /\ WF_vars(takeOverTaskQueue(o))
    /\ SF_vars(\/ assignTaskID(o) \/ allocTaskIDBlock(o) \/ appendTasks(o)
               \/ LeaseGranted(o) \/ LeaseRefused(o)
               \/ TasksCreated(o) \/ TasksRefused(o))
    /\ SF_vars(ReadBegin(o) \/ ReadSome(o) \/ ReadNone(o) \/ AddTask(o))
    /\ SF_vars(persistAck(o) \/ AckAnswered(o))
    /\ WF_vars(ProcessSpooledTask(o))
    /\ WF_vars(\E e \in outstanding[o] :
                \/ RecordTaskStarted(o, e) \/ RewriteTask(o, e)
                \/ completeTask(o, e))
    /\ WF_vars((fatal[o] /\ Stop(o)) \/ FinalAnswered(o) \/ tqCtxCancel(o))

\* A Load that spends no fault is one of a queue that no host has.
FairSpec ==
    /\ Spec
    /\ WF_vars(\E o \in Owners : Load(o) /\ UNCHANGED faults)
    /\ \A o \in Owners : OwnerFairness(o)

-----------------------------------------------------------------------------
(* Properties *)

\* Every variable holds values of its kind.
TypeOK ==
    /\ row \in [rangeID : Nat, ackLevel : Nat]
    /\ stored \in SUBSET StoredTask
    /\ late \in SUBSET Write
    /\ status \in [Owners -> {"off", "loading", "on", "stopping", "closing"}]
    /\ rangeID \in [Owners -> Nat]
    /\ dbAck \in [Owners -> Nat]
    /\ maxReadLevel \in [Owners -> Nat]
    /\ op \in [Owners -> Write \cup {NoOp}]
    /\ fatal \in [Owners -> BOOLEAN]
    /\ next \in [Owners -> Nat \ {0}]
    /\ appendCh \in [Owners -> Seq(AppendRequest)]
    /\ wtasks \in [Owners -> SUBSET AssignedRequest]
    /\ pump \in [Owners -> {"idle", "reading", "adding", "persisting"}]
    /\ readTo \in [Owners -> Nat]
    /\ batch \in [Owners -> SUBSET StoredTask]
    /\ signal \in [Owners -> BOOLEAN]
    /\ ackLevel \in [Owners -> Nat \cup {-1}]
    /\ readLevel \in [Owners -> Nat \cup {-1}]
    /\ outstanding \in [Owners -> SUBSET LoadedTask]
    /\ accepted \in SUBSET Tasks
    /\ done \in SUBSET Tasks
    /\ expired \in SUBSET Tasks
    /\ faults \in 0..MaxFaults

\* What matching still owes to history: SpoolTask returned nil, history has not
\* given a final answer, and the task has not expired.
Owed == (accepted \ done) \ expired

\* A task is owed as long as one row of it is left that no ack level has
\* passed: neither the one in the store, from which the next owner starts, nor
\* that of any owner, stale ones included, whose taskGC deletes without being
\* fenced by the lease.
NoTaskLost ==
    \A t \in Owed : \E s \in stored :
        /\ s.data = t
        /\ s.id > row.ackLevel
        /\ \A o \in Owners : s.id > ackLevel[o]

\* The owner of the lease never reads past an owed task without having it in
\* hand: some row of it is still ahead of the read level, or is loaded and not
\* yet finished.  (maxReadLevel is raised only after the write, under the mutex
\* that getTaskBatch takes.)
InHand == Phases \ {"finished", "acked"}
NoTaskSkipped ==
    \A o \in Owners : Running(o) /\ rangeID[o] = row.rangeID =>
        \A t \in Owed : \E s \in stored :
            /\ s.data = t
            /\ \/ s.id > readLevel[o]
               \/ \E e \in outstanding[o] : e.id = s.id /\ e.ph \in InHand

\* No two tasks are ever written under one id: a write that can still commit
\* carries ids that no row and no other such write has, whatever happened to
\* earlier leases.  (In SQL a second insert violates the primary key.)
Ids(S) == {s.id : s \in S}
Committable == {w \in late \cup {op[o] : o \in Owners} :
                    w # NoOp /\ lockTaskQueue(w)}
TaskIDsFresh ==
    /\ \A s, u \in stored : s.id = u.id => s = u
    /\ \A w \in Committable : Ids(w.tasks) \cap Ids(stored) = {}
    /\ \A v, w \in Committable :
        v # w => Ids(v.tasks) \cap Ids(w.tasks) = {}

\* The Fatal calls of ackManager.addTask are unreachable: what the pump is
\* about to add is above the read level and not among the outstanding tasks.
AddTaskNeverFatal ==
    \A o \in Owners : \A s \in batch[o] :
        s.id > readLevel[o] /\ s.id \notin Ids(outstanding[o])

\* The ack level stays below every task that is loaded and not acked, and the
\* three levels of an owner stay in order.
LevelsOrdered ==
    \A o \in Owners : Running(o) =>
        /\ row.ackLevel <= BlockEnd(row.rangeID)
        /\ ackLevel[o] <= readLevel[o]
        /\ readLevel[o] <= maxReadLevel[o]
        /\ maxReadLevel[o] < next[o]
        /\ \A e \in outstanding[o] : e.ph # "acked" => ackLevel[o] < e.id

\* A lease is never held twice, and the one in the store is the highest.
OneOwnerPerLease ==
    /\ \A o \in Owners : rangeID[o] <= row.rangeID
    /\ \A o, p \in Owners :
        o # p /\ rangeID[o] # 0 => rangeID[o] # rangeID[p]

\* As long as an owner has the queue loaded, its ack level never moves back:
\* taskGC may have deleted everything up to it.
AckLevelNeverMovesBack ==
    [][\A o \in Owners : status[o] # "off" /\ status'[o] # "off"
            => ackLevel'[o] >= ackLevel[o]]_vars

\* Once SpoolTask has returned nil, the task is in the end started or expires,
\* though the partition moves, its host crashes or unloads the queue, a read or
\* a write fails or is answered too late, or history refuses a start; whoever
\* has the queue then signals its pump and reads on.
AcceptedIsDispatched ==
    \A t \in Tasks : t \in accepted ~> t \in done \cup expired

\* An owner whose lease was taken over notices and unloads.
StaleOwnerLeaves ==
    \A o \in Owners :
        (rangeID[o] # 0 /\ rangeID[o] < row.rangeID) ~>
            (rangeID[o] = 0 \/ rangeID[o] = row.rangeID)

=============================================================================
