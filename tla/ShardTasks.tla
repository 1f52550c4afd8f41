----------------------------- MODULE ShardTasks -----------------------------
(***************************************************************************)
(* One history shard: the contexts that hosts create for it, the rangeID   *)
(* lease that fences their writes, the keys they give to history tasks and *)
(* the watermark below which a context's task queues read.  A queue never  *)
(* goes back, so a task that reaches the store below its watermark is a    *)
(* task nobody ever executes.                                              *)
(*                                                                         *)
(* A behaviour follows the tasks and the queue of one category; tasks of   *)
(* the others only take ids.  The queue is reduced to what it takes from   *)
(* the shard and gives back: a low and a high mark.  HistoryQueue has the  *)
(* rest.                                                                   *)
(*                                                                         *)
(* Sources: src/temporal/service/history/shard/{context_impl,              *)
(* task_key_manager, task_key_generator, task_request_tracker,             *)
(* controller_impl}.go, src/temporal/service/history/queues/queue_base.go, *)
(* src/temporal/common/persistence/sql/{shard, execution,                  *)
(* execution_tasks}.go.                                                    *)
(***************************************************************************)
EXTENDS Integers, Sequences, FiniteSets

CONSTANTS
    Contexts,       \* shard contexts, each created once, on whichever host
    Writes,         \* per category: what callers write, sequences of [cat, due]
    Clock,          \* what timeSource.Now() may answer
    BlockSize,      \* 1 << config.RangeSizeBits: task ids per range
    Precision,      \* persistence.ScheduledTaskMinPrecision
    TimeShift,      \* config.TimerProcessorMaxTimeShift
    IOConcurrency,  \* room in ioSemaphore
    MaxCalls,       \* bound, per category: writes and ids that callers ask for
    MaxFaults       \* bound: store calls that fail

Categories == {"immediate", "scheduled"}

\* A task as its caller wants it: its category and when it is due.
Wanted == [cat : Categories, due : Nat]

ASSUME ShardAssumption ==
    /\ Writes \in [Categories -> SUBSET Seq(Wanted)]
    /\ Clock \subseteq Nat
    /\ BlockSize \in Nat \ {0}
    /\ Precision \in Nat \ {0}
    /\ TimeShift \in Nat
    /\ IOConcurrency \in Nat \ {0}
    /\ MaxCalls \in [Categories -> Nat] /\ MaxFaults \in Nat

VARIABLES
    category,   \* the task category followed; never changes
    \* the store
    row,        \* the shards row: [rangeID, done, high]
    stored,     \* the rows of the task tables
    lateWrites, \* task writes that timed out and may still commit
    lateUpdates,\* UpdateShard calls that timed out and may still commit
    \* per context
    state,      \* contextState
    acq,        \* where acquireShard is: none, load, renew, engine, retry
    info,       \* shardInfo: [rangeID, done, high]
    loaded,     \* shardInfo # nil
    next,       \* nextTaskID
    max,        \* exclusiveMaxTaskID
    minTime,    \* taskMinScheduledTime
    pending,    \* pendingTaskKeys: the least task of each request
    inflight,   \* inflightRequestCount
    lock,       \* who holds rwLock for a renewal: none, acquire, write, id
    setting,    \* the write whose keys wait for the renewal: [call, todo, tasks]
    requests,   \* writes sent: [call, range, tasks, answer]
    updates,    \* queue state updates on their way: [prev, info]
    engine,     \* none, started, set (in engineFuture), stopped
    queue,      \* [done, high, deleted]
    \* history
    executed,   \* tasks that some context's queue has executed
    calls,
    faults

storeVars == <<category, row, stored, lateWrites, lateUpdates>>
lifeVars  == <<state, acq, engine>>
keyVars   == <<next, max, minTime, pending, inflight>>
lockVars  == <<lock, setting>>
infoVars  == <<info, loaded>>
callVars  == <<requests, updates>>
envVars   == <<executed, calls, faults>>
vars == <<storeVars, lifeVars, infoVars, keyVars, lockVars, callVars, queue,
          envVars>>

-----------------------------------------------------------------------------
(* Types *)

States == {"initialized", "acquiring", "acquired", "stopping", "stopped"}

\* The queue has executed everything below done and reads below high.
ShardInfo == [rangeID : Nat, done : Nat, high : Nat]

\* fire is the visibility time that setTaskKeys left in the task.
Task == [fire : Nat, id : Nat]

Answers == {"none", "ok", "failed", "ownershipLost", "unknown"}

\* call tells requests apart: two callers may write no task of the category.
Request == [call : Nat, range : Nat, tasks : SUBSET Task, answer : Answers]

\* UpdateShard: the row becomes info if its rangeID is still prev.
ShardUpdate == [prev : Nat, info : ShardInfo]

NotSetting == [call |-> 0, todo |-> <<>>, tasks |-> {}]
NoQueue == [done |-> 0, high |-> 0, deleted |-> 0]

\* newQueueBase on a shard without queue state: an immediate queue starts above
\* task id 0.
NewShard(cat) ==
    LET ack == IF cat = "immediate" THEN 1 ELSE 0
    IN [rangeID |-> 0, done |-> ack, high |-> ack]

-----------------------------------------------------------------------------
(* Task keys *)

Least(S) == CHOOSE x \in S : \A y \in S : x <= y
Greater(a, b) == IF a < b THEN b ELSE a
Truncate(t) == t - (t % Precision)

\* Where a task stands in its queue.  A mark of the scheduled queue has task id
\* 0, so that fire times alone decide which tasks are below it.
Position(t) == IF category = "immediate" THEN t.id ELSE t.fire

KeyLeq(t, u) ==
    \/ Position(t) < Position(u)
    \/ Position(t) = Position(u) /\ t.id <= u.id

\* track: the least key of a request.
LeastKeys(ts) == {t \in ts : \A u \in ts : KeyLeq(t, u)}

\* setTaskMinScheduledTime, which matters to scheduled tasks only.
MinScheduledTime(c, t) ==
    IF category = "scheduled" THEN Greater(minTime[c], Truncate(t)) ELSE 0

\* A timer never fires before taskMinScheduledTime.
FireTime(due, least) ==
    LET t == Truncate(due + Precision)
    IN IF t < least THEN least + Precision ELSE t

\* setTaskKeys, for tasks that get the ids from first on: those of the category
\* followed, with their keys.
Keyed(tasks, first, least) ==
    {[fire |-> IF category = "scheduled" THEN FireTime(tasks[i].due, least)
               ELSE 0,
      id |-> first + i - 1]
        : i \in {j \in 1..Len(tasks) : tasks[j].cat = category}}

-----------------------------------------------------------------------------
(* The life of a context *)

Valid(c) == state[c] \in {"initialized", "acquiring", "acquired"}
Running(c) == engine[c] \in {"started", "set"}
Free(c) == lock[c] = "none"

Fault ==
    /\ faults < MaxFaults
    /\ faults' = faults + 1

\* Unknown outcomes make the context acquire the shard again, a lost lease
\* stops it; an answer about an older range changes nothing.  a is where
\* acquireShard goes on when it is the caller.
handleWriteErrorLocked(c, range, answer, a) ==
    LET heed == range = info[c].rangeID /\ Valid(c)
        lost == heed /\ answer = "unknown" /\ state[c] = "acquired"
        stop == heed /\ answer = "ownershipLost"
    IN /\ state' = [state EXCEPT ![c] = IF stop THEN "stopping"
                                        ELSE IF lost THEN "acquiring" ELSE @]
       /\ acq' = [acq EXCEPT ![c] = IF lost THEN "load" ELSE a]

\* engine.Stop(), for an engine that its caller knows of.
StopEngine(c, known) ==
    IF engine[c] = known
    THEN /\ engine' = [engine EXCEPT ![c] = "stopped"]
         /\ queue' = [queue EXCEPT ![c] = NoQueue]
    ELSE UNCHANGED <<engine, queue>>

\* The controller creates the context and calls start().
start(c) ==
    /\ state[c] = "initialized"
    /\ state' = [state EXCEPT ![c] = "acquiring"]
    /\ acq' = [acq EXCEPT ![c] = "load"]
    /\ UNCHANGED <<storeVars, engine, infoVars, keyVars, lockVars, callVars,
                   queue, envVars>>

\* An attempt of acquireShard: metadata is loaded once, then the write lock is
\* taken for renewRangeLocked.
loadShardMetadata(c) ==
    /\ acq[c] \in {"load", "retry"}
    /\ Valid(c)
    /\ Free(c)
    /\ acq' = [acq EXCEPT ![c] = "renew"]
    /\ lock' = [lock EXCEPT ![c] = "acquire"]
    /\ IF loaded[c] THEN UNCHANGED <<infoVars, minTime>>
       ELSE /\ loaded' = [loaded EXCEPT ![c] = TRUE]
            /\ info' = [info EXCEPT ![c] = row]
            /\ minTime' = [minTime EXCEPT ![c] =
                   MinScheduledTime(c, row.high + Precision)]
    /\ UNCHANGED <<storeVars, state, engine, next, max, pending, inflight,
                   setting, callVars, queue, envVars>>

loadShardMetadataFails(c) ==
    /\ acq[c] \in {"load", "retry"}
    /\ Valid(c) /\ ~loaded[c]
    /\ Fault
    /\ acq' = [acq EXCEPT ![c] = "retry"]
    /\ UNCHANGED <<storeVars, state, engine, infoVars, keyVars, lockVars,
                   callVars, queue, executed, calls>>

\* (Mutant: the context stays as it is when acquireShard gives up.)
acquireShardEndsQuietly(c) ==
    /\ \/ acq[c] = "retry"
       \/ acq[c] = "load" /\ ~Valid(c)
    /\ acq' = [acq EXCEPT ![c] = "none"]
    /\ UNCHANGED <<storeVars, state, engine, infoVars, keyVars, lockVars,
                   callVars, queue, envVars>>

\* acquireShard ends without the shard: the context is closed, or five minutes
\* of errors are over.
acquireShardGivesUp(c) ==
    /\ \/ acq[c] = "retry"
       \/ acq[c] = "load" /\ ~Valid(c)
    /\ acq' = [acq EXCEPT ![c] = "none"]
    /\ state' = [state EXCEPT ![c] = IF Valid(c) THEN "stopping" ELSE @]
    /\ UNCHANGED <<storeVars, engine, infoVars, keyVars, lockVars, callVars,
                   queue, envVars>>

\* (Mutant: the engine of a context that was stopped meanwhile keeps running.)
transitionAcquiredLeaksEngine(c) ==
    /\ acq[c] = "engine"
    /\ acq' = [acq EXCEPT ![c] = "none"]
    /\ IF state[c] = "acquiring"
       THEN /\ state' = [state EXCEPT ![c] = "acquired"]
            /\ engine' = [engine EXCEPT ![c] = "set"]
       ELSE UNCHANGED <<state, engine>>
    /\ UNCHANGED <<storeVars, infoVars, keyVars, lockVars, callVars, queue,
                   envVars>>

\* The last step of acquireShard.  When the context was stopped meanwhile,
\* FinishStop has not seen a new engine and acquireShard stops it itself.
transitionAcquired(c) ==
    /\ acq[c] = "engine"
    /\ acq' = [acq EXCEPT ![c] = "none"]
    /\ IF state[c] = "acquiring"
       THEN /\ state' = [state EXCEPT ![c] = "acquired"]
            /\ engine' = [engine EXCEPT ![c] = "set"]
            /\ UNCHANGED queue
       ELSE StopEngine(c, "started") /\ UNCHANGED state
    /\ UNCHANGED <<storeVars, infoVars, keyVars, lockVars, callVars, envVars>>

\* The controller, after the close callback or because the ring moved the shard.
FinishStop(c) ==
    /\ state[c] \in {"acquiring", "acquired", "stopping"}
    /\ state' = [state EXCEPT ![c] = "stopped"]
    /\ StopEngine(c, "set")
    /\ UNCHANGED <<storeVars, acq, infoVars, keyVars, lockVars, callVars,
                   envVars>>

-----------------------------------------------------------------------------
(* Renewing the range *)

\* (Mutant: requests in flight are not waited for.)
NothingToDrain(c) == TRUE

\* drainTaskRequests lets renewRangeLocked go on.
Drained(c) == inflight[c] = 0

\* (Mutant: the row is updated whoever holds the lease.)
LeaseNotChecked(range) == TRUE

\* lockShard and readLockShard: the row still has the rangeID of the caller.
LeaseHeld(range) == row.rangeID = range

\* A new rangeID in the row refuses the late calls that were made under an
\* earlier one.
FenceLateCalls(range) ==
    /\ lateWrites' = {w \in lateWrites : w.range = range}
    /\ lateUpdates' = {u \in lateUpdates : u.prev = range}

\* An UpdateShard call whose outcome its caller does not learn.
TimesOut(u) ==
    lateUpdates' = lateUpdates \cup {v \in {u} : LeaseHeld(v.prev)}

\* renewRangeLocked has been called.
Renewing(c) ==
    \/ lock[c] = "acquire"
    \/ lock[c] \in {"write", "id"} /\ next[c] = max[c]

setRangeID(c, range) ==
    /\ next' = [next EXCEPT ![c] = range * BlockSize]
    /\ max' = [max EXCEPT ![c] = (range + 1) * BlockSize]
    /\ pending' = [pending EXCEPT ![c] = {}]
    /\ inflight' = [inflight EXCEPT ![c] = 0]
    /\ UNCHANGED minTime

\* createEngine: the engine and its queue start before the shard is acquired.
createEngine(c, shard) ==
    /\ engine' = [engine EXCEPT ![c] = "started"]
    /\ queue' = [queue EXCEPT ![c] = [done |-> shard.done, high |-> shard.high,
                                      deleted |-> shard.done]]

\* renewRangeLocked gets the next range.  acquireShard lets the lock go and, the
\* first time, creates the engine; a caller that waits for task ids goes on with
\* the new ones.
renewRangeGranted(c) ==
    LET new == [info[c] EXCEPT !.rangeID = @ + 1]
    IN /\ Renewing(c) /\ Drained(c)
       /\ LeaseHeld(info[c].rangeID)
       /\ row' = new
       /\ FenceLateCalls(new.rangeID)
       /\ info' = [info EXCEPT ![c] = new]
       /\ setRangeID(c, new.rangeID)
       /\ lock' = [lock EXCEPT ![c] = IF @ = "acquire" THEN "none" ELSE @]
       /\ acq' = [acq EXCEPT ![c] = IF lock[c] = "acquire" THEN "engine" ELSE @]
       /\ IF lock[c] = "acquire" /\ engine[c] = "none" THEN createEngine(c, new)
          ELSE UNCHANGED <<engine, queue>>
       /\ UNCHANGED <<category, stored, state, loaded, setting, callVars,
                      envVars>>

\* An error of UpdateShard ends the call under whose lock it was made.
renewRangeRefused(c, answer) ==
    /\ Renewing(c) /\ Drained(c)
    /\ \/ answer = "ownershipLost" /\ ~LeaseHeld(info[c].rangeID)
          /\ UNCHANGED <<faults, lateUpdates>>
       \/ answer = "failed" /\ Fault /\ UNCHANGED lateUpdates
       \/ answer = "unknown" /\ Fault
          /\ TimesOut([prev |-> info[c].rangeID,
                       info |-> [info[c] EXCEPT !.rangeID = @ + 1]])
    /\ handleWriteErrorLocked(c, info[c].rangeID, answer,
                              IF lock[c] = "acquire" THEN "retry" ELSE acq[c])
    /\ lock' = [lock EXCEPT ![c] = "none"]
    /\ setting' = [setting EXCEPT ![c] = NotSetting]
    /\ UNCHANGED <<category, row, stored, lateWrites, engine, infoVars, keyVars,
                   callVars, queue, executed, calls>>

-----------------------------------------------------------------------------
(* Writing tasks *)

\* setAndTrackTaskKeys: keys for as many tasks as the range has ids for; then
\* either the request is tracked and sent, with the range it will be checked
\* against, or the range is renewed first, under the lock.
SetTaskKeys(c, call, todo, done, least) ==
    LET n == Least({Len(todo), max[c] - next[c]})
        tasks == done \cup Keyed(SubSeq(todo, 1, n), next[c], least)
    IN /\ next' = [next EXCEPT ![c] = @ + n]
       /\ \/ /\ n = Len(todo)
             /\ pending' = [pending EXCEPT ![c] = @ \cup LeastKeys(tasks)]
             /\ inflight' = [inflight EXCEPT ![c] = @ + 1]
             /\ requests' = [requests EXCEPT ![c] = @ \cup
                    {[call |-> call, range |-> info[c].rangeID, tasks |-> tasks,
                      answer |-> "none"]}]
             /\ lock' = [lock EXCEPT ![c] = "none"]
             /\ setting' = [setting EXCEPT ![c] = NotSetting]
          \/ /\ n < Len(todo)
             /\ setting' = [setting EXCEPT ![c] =
                    [call |-> call, todo |-> SubSeq(todo, n + 1, Len(todo)),
                     tasks |-> tasks]]
             /\ lock' = [lock EXCEPT ![c] = "write"]
             /\ UNCHANGED <<pending, inflight, requests>>

\* AddTasks and the writes of a workflow execution.
AddTasks(c, tasks, now) ==
    /\ state[c] = "acquired"
    /\ Free(c)
    /\ Cardinality(requests[c]) < IOConcurrency
    /\ calls < MaxCalls[category]
    /\ calls' = calls + 1
    /\ minTime' = [minTime EXCEPT ![c] = MinScheduledTime(c, now)]
    /\ SetTaskKeys(c, calls, tasks, {}, minTime'[c])
    /\ UNCHANGED <<storeVars, lifeVars, infoVars, max, updates, queue, executed,
                   faults>>

\* setTaskKeys goes on after a renewal.
AddTasksGoesOn(c) ==
    /\ lock[c] = "write"
    /\ next[c] < max[c]
    /\ SetTaskKeys(c, setting[c].call, setting[c].todo, setting[c].tasks,
                   minTime[c])
    /\ UNCHANGED <<storeVars, lifeVars, infoVars, max, minTime, updates, queue,
                   envVars>>

\* generateTaskID for a caller that wants no task, which is refused in no state.
GenerateTaskID(c) ==
    /\ \/ /\ engine[c] = "set" /\ Free(c)
          /\ calls < MaxCalls[category]
          /\ calls' = calls + 1
       \/ lock[c] = "id" /\ next[c] < max[c] /\ UNCHANGED calls
    /\ IF next[c] < max[c]
       THEN /\ next' = [next EXCEPT ![c] = @ + 1]
            /\ lock' = [lock EXCEPT ![c] = "none"]
       ELSE /\ lock' = [lock EXCEPT ![c] = "id"]
            /\ UNCHANGED next
    /\ UNCHANGED <<storeVars, lifeVars, infoVars, max, minTime, pending,
                   inflight, setting, callVars, queue, executed, faults>>

\* (Mutant: a write that timed out is taken for one that failed.)
NeverSucceeds(answer) == FALSE

\* OperationPossiblySucceeded, for an error.
OperationPossiblySucceeded(answer) == answer = "unknown"

\* (Mutant: the count is given back only when the key is.)
CompletedIfKnown(n, answer) ==
    IF OperationPossiblySucceeded(answer) THEN n ELSE n - 1

\* "While task key might still be pending, the request is completed and no
\* longer inflight."
Completed(n, answer) == n - 1

\* The store answers a write and the completion function runs, outside rwLock.
\* Only a lost lease and an unknown outcome are left to handleWriteError.
writeAnswered(c, r, answer) ==
    /\ r.answer = "none"
    /\ \/ answer = "ok" /\ LeaseHeld(r.range)
          /\ stored' = stored \cup r.tasks
          /\ UNCHANGED <<lateWrites, faults>>
       \/ answer = "ownershipLost" /\ ~LeaseHeld(r.range)
          /\ UNCHANGED <<stored, lateWrites, faults>>
       \/ answer = "failed" /\ Fault /\ UNCHANGED <<stored, lateWrites>>
       \/ answer = "unknown" /\ Fault /\ UNCHANGED stored
          /\ lateWrites' = lateWrites \cup
                 {w \in {[range |-> r.range, tasks |-> r.tasks]} :
                      LeaseHeld(w.range)}
    /\ pending' = [pending EXCEPT ![c] =
           IF OperationPossiblySucceeded(answer) THEN @
           ELSE @ \ LeastKeys(r.tasks)]
    /\ inflight' = [inflight EXCEPT ![c] = Completed(@, answer)]
    /\ requests' = [requests EXCEPT ![c] =
           (@ \ {r}) \cup {[r EXCEPT !.answer = a]
                                : a \in {answer} \ {"ok", "failed"}}]
    /\ UNCHANGED <<category, row, lateUpdates, lifeVars, infoVars, next, max,
                   minTime, lockVars, updates, queue, executed, calls>>

\* handleWriteError, which waits for rwLock.
writeReturns(c, r) ==
    /\ r.answer # "none"
    /\ Free(c)
    /\ handleWriteErrorLocked(c, r.range, r.answer, acq[c])
    /\ requests' = [requests EXCEPT ![c] = @ \ {r}]
    /\ UNCHANGED <<storeVars, engine, infoVars, keyVars, lockVars, updates,
                   queue, envVars>>

\* Writes whose caller has given up reach the store after all.
lateWriteLands(w) ==
    /\ LeaseHeld(w.range)
    /\ stored' = stored \cup w.tasks
    /\ lateWrites' = lateWrites \ {w}
    /\ UNCHANGED <<category, row, lateUpdates, lifeVars, infoVars, keyVars,
                   lockVars, callVars, queue, envVars>>

lateUpdateLands(u) ==
    /\ LeaseHeld(u.prev)
    /\ row' = u.info
    /\ IF u.info.rangeID = u.prev
       THEN lateUpdates' = lateUpdates \ {u} /\ UNCHANGED lateWrites
       ELSE FenceLateCalls(u.info.rangeID)
    /\ UNCHANGED <<category, stored, lifeVars, infoVars, keyVars, lockVars,
                   callVars, queue, envVars>>

-----------------------------------------------------------------------------
(* The queues *)

\* (Mutant: keys that are not in the store yet are not waited for.)
WatermarkIgnoresPending(c, least) ==
    IF category = "immediate" THEN next[c] ELSE Truncate(least)

\* getExclusiveReaderHighWatermark: nothing that can still be written may be
\* below it.
Watermark(c, least) ==
    LET peek == IF category = "immediate" THEN next[c] ELSE least
        mark == Least({Position(t) : t \in pending[c]} \cup {peek})
    IN IF category = "immediate" THEN mark ELSE Truncate(mark)

\* The queue takes over the range up to the watermark and, when the shard is
\* acquired, reads and executes everything below it.  Asking for the watermark
\* raises taskMinScheduledTime, whatever the category.
processNewRange(c, now) ==
    LET least == MinScheduledTime(c, now + TimeShift)
        high == Greater(queue[c].high, Watermark(c, least))
        reads == state[c] = "acquired"
    IN /\ Running(c) /\ updates[c] = {}
       /\ Free(c)
       /\ minTime' = [minTime EXCEPT ![c] = least]
       /\ queue' = [queue EXCEPT ![c].high = high,
                                 ![c].done = IF reads THEN high ELSE @]
       /\ executed' = executed \cup {t \in stored :
              reads /\ Position(t) \in queue[c].done..high - 1}
       /\ UNCHANGED <<storeVars, lifeVars, infoVars, next, max, pending,
                      inflight, lockVars, callVars, calls, faults>>

\* SetQueueState, when the shard is acquired: shardInfo changes in memory, and a
\* copy is sent to the store unless the last one was too recent.
SetQueueState(c) ==
    LET new == [info[c] EXCEPT !.done = queue[c].done, !.high = queue[c].high]
    IN IF state[c] # "acquired" THEN UNCHANGED <<info, updates>>
       ELSE /\ info' = [info EXCEPT ![c] = new]
            /\ \/ UNCHANGED updates
               \/ updates' = [updates EXCEPT ![c] =
                      {[prev |-> new.rangeID, info |-> new]}]

\* (Mutant: the queue state is saved though the deletion failed.)
checkpointIgnoresError(c) ==
    /\ Running(c) /\ updates[c] = {}
    /\ Free(c)
    /\ \/ /\ stored' = {t \in stored :
                  Position(t) \notin queue[c].deleted..queue[c].done - 1}
          /\ UNCHANGED faults
       \/ Fault /\ UNCHANGED stored
    /\ queue' = [queue EXCEPT ![c].deleted = queue[c].done]
    /\ SetQueueState(c)
    /\ UNCHANGED <<category, row, lateWrites, lateUpdates, lifeVars, loaded,
                   keyVars, lockVars, requests, executed, calls>>

\* checkpoint: the rows of executed tasks are deleted, by a call that nothing
\* fences, and then the queue state is saved.  An error of the call, which may
\* have deleted them all the same, leaves the rest to the next checkpoint.
checkpoint(c) ==
    /\ Running(c) /\ updates[c] = {}
    /\ Free(c)
    /\ stored' = {t \in stored :
                      Position(t) \notin queue[c].deleted..queue[c].done - 1}
    /\ \/ /\ queue' = [queue EXCEPT ![c].deleted = queue[c].done]
          /\ SetQueueState(c)
          /\ UNCHANGED faults
       \/ /\ Fault
          /\ UNCHANGED <<queue, info, updates>>
    /\ UNCHANGED <<category, row, lateWrites, lateUpdates, lifeVars, loaded,
                   keyVars, lockVars, requests, executed, calls>>

UpdateShardCommits(c, u) ==
    /\ LeaseHeld(u.prev)
    /\ row' = u.info
    /\ updates' = [updates EXCEPT ![c] = @ \ {u}]
    /\ UNCHANGED <<category, stored, lateWrites, lateUpdates, lifeVars,
                   infoVars, keyVars, lockVars, requests, queue, envVars>>

\* The error branch of updateShardInfo, which takes rwLock again.
UpdateShardFails(c, u, answer) ==
    /\ Free(c)
    /\ \/ answer = "ownershipLost" /\ ~LeaseHeld(u.prev)
          /\ UNCHANGED <<faults, lateUpdates>>
       \/ answer = "failed" /\ Fault /\ UNCHANGED lateUpdates
       \/ answer = "unknown" /\ Fault /\ TimesOut(u)
    /\ handleWriteErrorLocked(c, u.prev, answer, acq[c])
    /\ updates' = [updates EXCEPT ![c] = @ \ {u}]
    /\ UNCHANGED <<category, row, stored, lateWrites, engine, infoVars, keyVars,
                   lockVars, requests, queue, executed, calls>>

-----------------------------------------------------------------------------
Init ==
    /\ category \in Categories
    /\ row = NewShard(category)
    /\ stored = {} /\ lateWrites = {} /\ lateUpdates = {}
    /\ state = [c \in Contexts |-> "initialized"]
    /\ acq = [c \in Contexts |-> "none"]
    /\ info = [c \in Contexts |-> NewShard(category)]
    /\ loaded = [c \in Contexts |-> FALSE]
    /\ next = [c \in Contexts |-> 0]
    /\ max = [c \in Contexts |-> 0]
    /\ minTime = [c \in Contexts |-> 0]
    /\ pending = [c \in Contexts |-> {}]
    /\ inflight = [c \in Contexts |-> 0]
    /\ lock = [c \in Contexts |-> "none"]
    /\ setting = [c \in Contexts |-> NotSetting]
    /\ requests = [c \in Contexts |-> {}]
    /\ updates = [c \in Contexts |-> {}]
    /\ engine = [c \in Contexts |-> "none"]
    /\ queue = [c \in Contexts |-> NoQueue]
    /\ executed = {}
    /\ calls = 0 /\ faults = 0

ContextStep(c) ==
    \/ start(c) \/ loadShardMetadata(c) \/ loadShardMetadataFails(c)
    \/ acquireShardGivesUp(c) \/ transitionAcquired(c) \/ FinishStop(c)
    \/ renewRangeGranted(c)
    \/ \E answer \in Answers : renewRangeRefused(c, answer)
    \/ \E tasks \in Writes[category], now \in Clock : AddTasks(c, tasks, now)
    \/ AddTasksGoesOn(c) \/ GenerateTaskID(c)
    \/ \E r \in requests[c] :
           \/ \E answer \in Answers : writeAnswered(c, r, answer)
           \/ writeReturns(c, r)
    \/ \E now \in Clock : processNewRange(c, now)
    \/ checkpoint(c)
    \/ \E u \in updates[c] :
           \/ UpdateShardCommits(c, u)
           \/ \E answer \in Answers : UpdateShardFails(c, u, answer)

Next ==
    \/ \E c \in Contexts : ContextStep(c)
    \/ \E w \in lateWrites : lateWriteLands(w)
    \/ \E u \in lateUpdates : lateUpdateLands(u)

Spec == Init /\ [][Next]_vars

-----------------------------------------------------------------------------
\* Every variable holds values of its kind; in particular no request is counted
\* as completed twice, so that inflightRequestCount never falls below zero.
TypeOK ==
    /\ category \in Categories
    /\ row \in ShardInfo
    /\ stored \subseteq Task
    /\ lateWrites \subseteq [range : Nat, tasks : SUBSET Task]
    /\ lateUpdates \subseteq ShardUpdate
    /\ state \in [Contexts -> States]
    /\ acq \in [Contexts -> {"none", "load", "renew", "engine", "retry"}]
    /\ info \in [Contexts -> ShardInfo]
    /\ loaded \in [Contexts -> BOOLEAN]
    /\ next \in [Contexts -> Nat] /\ max \in [Contexts -> Nat]
    /\ minTime \in [Contexts -> Nat]
    /\ pending \in [Contexts -> SUBSET Task]
    /\ inflight \in [Contexts -> Nat]
    /\ lock \in [Contexts -> {"none", "acquire", "write", "id"}]
    /\ setting \in [Contexts -> [call : Nat, todo : Seq(Wanted),
                                 tasks : SUBSET Task]]
    /\ requests \in [Contexts -> SUBSET Request]
    /\ updates \in [Contexts -> SUBSET ShardUpdate]
    /\ engine \in [Contexts -> {"none", "started", "set", "stopped"}]
    /\ queue \in [Contexts -> [done : Nat, high : Nat, deleted : Nat]]
    /\ executed \subseteq Task
    /\ calls \in 0..MaxCalls[category] /\ faults \in 0..MaxFaults

Sent == UNION {requests[c] : c \in Contexts}

\* The tasks that can still reach the store.
Writable ==
    UNION ({r.tasks : r \in {s \in Sent : /\ s.answer = "none"
                                          /\ s.range = row.rangeID}}
           \cup {w.tasks : w \in {v \in lateWrites : v.range = row.rangeID}})

\* Nothing that can still be written is below the high mark of a queue of the
\* context that holds the range, and no immediate task below that of any
\* context, current or not: the promise of getExclusiveReaderHighWatermark.
NoWriteBelowWatermark ==
    \A c \in Contexts : Running(c) =>
        \A t \in Writable :
            \/ queue[c].high <= Position(t)
            \/ category = "scheduled" /\ info[c].rangeID # row.rangeID

\* A context that loads the shard misses no task: what is in the store, or can
\* still get there, is at or above the low mark of the shards row.
RowCoversTasks ==
    \A t \in stored \cup Writable : row.done <= Position(t)

\* A write in flight is never fenced off by a renewal of its own context: what
\* drain is for.
RenewalFencesNoOwnWrite ==
    \A c \in Contexts : \A r \in requests[c] :
        r.answer = "none" => r.range = info[c].rangeID

\* A renewal, which holds rwLock while it drains, waits only for writes that the
\* store has still to answer, never for one whose caller waits for rwLock.
DrainWaitsForStore ==
    \A c \in Contexts :
        inflight[c] = Cardinality({r \in requests[c] : r.answer = "none"})

\* The invariants that transition() lists: while the state is Acquiring,
\* acquireShard is running, and a context that was acquired has its engine.
AcquiringIsAttended ==
    \A c \in Contexts : /\ state[c] = "acquiring" => acq[c] # "none"
                        /\ state[c] = "acquired" => engine[c] = "set"

\* "After this returns, engineFuture.Set may not be called anymore": once a
\* context is stopped and acquireShard is over, no engine of it runs.
StoppedHasNoEngine ==
    \A c \in Contexts :
        state[c] = "stopped" /\ acq[c] # "engine" => ~Running(c)

Ids(ts) == {t.id : t \in ts}

\* A write on its way shares no task id with another write, of any context, or
\* with a task that was stored before: blocks of ids are granted once.
TaskIDsUnique ==
    \A c, d \in Contexts : \A r \in requests[c], s \in requests[d] :
        /\ (c = d /\ r = s) \/ Ids(r.tasks) \cap Ids(s.tasks) = {}
        /\ r.answer = "none" => Ids(r.tasks) \cap Ids(stored \cup executed) = {}

\* A row is deleted only after its task was executed (immediate queues).
DeletedWereExecuted ==
    [][category = "immediate" => stored \ stored' \subseteq executed]_vars

\* The same for timers.
TimersDeletedWereExecuted ==
    [][category = "scheduled" => stored \ stored' \subseteq executed]_vars
=============================================================================
