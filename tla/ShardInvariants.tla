--------------------------- MODULE ShardInvariants ---------------------------
(***************************************************************************)
(* The inductive invariant of ShardTasks, in the layers its proof uses:    *)
(* the life of a context, requests, ranges, task ids, and the marks of the *)
(* queues.                                                                 *)
(***************************************************************************)
EXTENDS ShardTasks

\* TypeOK in groups of variables that change together.
TypedStore ==
    /\ category \in Categories
    /\ row \in ShardInfo
    /\ stored \subseteq Task
    /\ lateWrites \subseteq [range : Nat, tasks : SUBSET Task]
    /\ lateUpdates \subseteq ShardUpdate
    /\ executed \subseteq Task
    /\ calls \in 0..MaxCalls[category]
    /\ faults \in 0..MaxFaults

TypedLife ==
    /\ state \in [Contexts -> States]
    /\ acq \in [Contexts -> {"none", "load", "renew", "engine", "retry"}]
    /\ engine \in [Contexts -> {"none", "started", "set", "stopped"}]
    /\ lock \in [Contexts -> {"none", "acquire", "write", "id"}]
    /\ loaded \in [Contexts -> BOOLEAN]

\* inflightRequestCount is never negative: see CountInv.
TypedKeys ==
    /\ next \in [Contexts -> Nat]
    /\ max \in [Contexts -> Nat]
    /\ minTime \in [Contexts -> Nat]
    /\ pending \in [Contexts -> SUBSET Task]
    /\ inflight \in [Contexts -> Int]
    /\ \A c \in Contexts : next[c] <= max[c]

TypedCalls ==
    /\ setting \in [Contexts -> [call : Nat, todo : Seq(Wanted),
                                 tasks : SUBSET Task]]
    /\ requests \in [Contexts -> SUBSET Request]
    /\ updates \in [Contexts -> SUBSET ShardUpdate]

TypedQueue ==
    /\ info \in [Contexts -> ShardInfo]
    /\ queue \in [Contexts -> [done : Nat, high : Nat, deleted : Nat]]

Typed == TypedStore /\ TypedLife /\ TypedKeys /\ TypedCalls /\ TypedQueue

-----------------------------------------------------------------------------
(* Life of a context *)

\* Where acquireShard, the lock, the engine and the state of a context stand to
\* one another.
Life(c) ==
    /\ lock[c] = "acquire" <=> acq[c] = "renew"
    /\ state[c] = "initialized" => acq[c] = "none"
    /\ state[c] = "acquiring" => acq[c] # "none"
    /\ state[c] = "acquired" => engine[c] = "set"
    /\ state[c] = "stopped" => engine[c] # "set"
    /\ engine[c] = "started" => acq[c] = "engine"
    /\ engine[c] = "stopped" => state[c] \in {"stopping", "stopped"}
    /\ acq[c] = "engine" => engine[c] # "none"
    /\ lock[c] # "none" => loaded[c]
    /\ engine[c] # "none" => max[c] # 0
    /\ lock[c] \in {"write", "id"} => max[c] # 0
    /\ max[c] = 0 => requests[c] = {} /\ updates[c] = {} /\ next[c] = 0
    /\ max[c] # 0 => loaded[c]
    /\ lock[c] # "write" => setting[c].tasks = {}

LifeInv == \A c \in Contexts : Life(c)

\* A step leaves alone what Life says of context d.
SameLife(d) ==
    /\ state'[d] = state[d] /\ acq'[d] = acq[d] /\ engine'[d] = engine[d]
    /\ lock'[d] = lock[d] /\ loaded'[d] = loaded[d]
    /\ next'[d] = next[d] /\ max'[d] = max[d] /\ setting'[d] = setting[d]
    /\ requests'[d] = requests[d] /\ updates'[d] = updates[d]

-----------------------------------------------------------------------------
(* Requests *)

Unanswered(c) == {r \in requests[c] : r.answer = "none"}

\* Requests have numbers of their own.
CallInv ==
    \A c \in Contexts :
        /\ \A r \in requests[c] : r.call < calls
        /\ lock[c] = "write" => setting[c].call < calls
        /\ lock[c] = "write" => \A r \in requests[c] : r.call # setting[c].call

BaseInv == Typed /\ LifeInv /\ CallInv

CountInv ==
    \A c \in Contexts : /\ IsFiniteSet(Unanswered(c))
                        /\ inflight[c] = Cardinality(Unanswered(c))

\* What a renewal relies on.
DrainInv ==
    \A c \in Contexts : inflight[c] = 0 => Unanswered(c) = {}

-----------------------------------------------------------------------------
(* What AddTasks and AddTasksGoesOn do, without how keys are computed *)

\* The request with the given tasks is tracked and sent.
Tracked(c, call, tasks) ==
    /\ pending' = [pending EXCEPT ![c] = @ \cup LeastKeys(tasks)]
    /\ inflight' = [inflight EXCEPT ![c] = @ + 1]
    /\ requests' = [requests EXCEPT ![c] = @ \cup
           {[call |-> call, range |-> info[c].rangeID, tasks |-> tasks,
             answer |-> "none"]}]
    /\ lock' = [lock EXCEPT ![c] = "none"]
    /\ setting' = [setting EXCEPT ![c] = NotSetting]

\* The rest of the tasks waits for a new range.
Waits(c, call, tasks) ==
    /\ \E todo \in Seq(Wanted) : setting' = [setting EXCEPT ![c] =
           [call |-> call, todo |-> todo, tasks |-> tasks]]
    /\ lock' = [lock EXCEPT ![c] = "write"]
    /\ UNCHANGED <<pending, inflight, requests>>

\* The tasks ts get ids of the range of c, from least on when they are timers.
Assigns(c, ts, least) ==
    \E n \in 0..max[c] - next[c] :
        /\ next' = [next EXCEPT ![c] = next[c] + n]
        /\ \A t \in ts : /\ next[c] <= t.id /\ t.id < next[c] + n
                         /\ category = "scheduled" => least <= t.fire

KeysGiven(c) ==
    /\ \E call \in Nat, ts \in SUBSET Task, least \in Nat :
        /\ minTime' = [minTime EXCEPT ![c] = least]
        /\ category = "scheduled" => minTime[c] <= least
        /\ Assigns(c, ts, least)
        /\ \/ Tracked(c, call, setting[c].tasks \cup ts)
           \/ Waits(c, call, setting[c].tasks \cup ts)
    /\ max[c] # 0 /\ lock[c] # "acquire"
    /\ UNCHANGED <<storeVars, lifeVars, infoVars, max, updates, queue, executed,
                   faults>>

\* The store has answered request r: it stays, if at all, with its answer.
Answered(c, r) ==
    /\ r \in Unanswered(c)
    /\ Unanswered(c)' = Unanswered(c) \ {r}
    /\ \E s : /\ s.tasks = r.tasks /\ s.answer # "none"
              /\ requests'[c] \subseteq (requests[c] \ {r}) \cup {s}
    /\ \A d \in Contexts : d # c => requests'[d] = requests[d]

-----------------------------------------------------------------------------
(* Ranges *)

FirstId(range) == range * BlockSize

\* c was granted the range that the shards row has.
Owns(c) == max[c] # 0 /\ info[c].rangeID = row.rangeID

\* c has ids of the range it knows, if any; its calls are made under that range.
RangeOf(c) ==
    /\ info[c].rangeID <= row.rangeID
    /\ max[c] # 0 => /\ max[c] = FirstId(info[c].rangeID + 1)
                     /\ FirstId(info[c].rangeID) <= next[c]
    /\ \A r \in Unanswered(c) : r.range = info[c].rangeID
    /\ \A u \in updates[c] : u.prev <= row.rangeID /\ u.info.rangeID = u.prev

\* No range is granted twice.
OneOwner ==
    \A c, d \in Contexts :
        c # d /\ max[c] # 0 /\ max[d] # 0 => info[c].rangeID # info[d].rangeID

\* Late calls that can still commit are of the row's range.
LateCalls ==
    /\ \A w \in lateWrites : w.range = row.rangeID
    /\ \A u \in lateUpdates : /\ u.prev = row.rangeID
                              /\ u.info.rangeID \in {u.prev, u.prev + 1}

RangeInv ==
    /\ \A c \in Contexts : RangeOf(c)
    /\ OneOwner
    /\ LateCalls

-----------------------------------------------------------------------------
(* Task ids *)

Late == UNION {w.tasks : w \in lateWrites}

\* The tasks of c that have keys and still wait for the store.
Live(c) == setting[c].tasks \cup UNION {r.tasks : r \in Unanswered(c)}

\* The tasks that were written, or may have been.
Written == stored \cup executed \cup Late

\* Task t has an id that nobody will give away again.
Spent(t) ==
    /\ t.id < FirstId(row.rangeID + 1)
    /\ \A c \in Contexts : t.id < next[c] \/ max[c] <= t.id

SpentInv ==
    /\ \A t \in Written : Spent(t)
    /\ \A c \in Contexts : \A t \in setting[c].tasks : Spent(t)
    /\ \A c \in Contexts : \A r \in requests[c] : \A t \in r.tasks : Spent(t)

Apart(ts, vs) == \A t \in ts, v \in vs : t.id # v.id

RequestsApart ==
    \A c, d \in Contexts : \A r \in requests[c], s \in requests[d] :
        (c = d /\ r = s) \/ Apart(r.tasks, s.tasks)

SettingsApart ==
    \A c, d \in Contexts :
        /\ \A r \in requests[c] : Apart(r.tasks, setting[d].tasks)
        /\ c # d => Apart(setting[c].tasks, setting[d].tasks)

LiveApart == \A c \in Contexts : Apart(Live(c), Written)

\* No id is given twice.
DistinctInv == RequestsApart /\ SettingsApart /\ LiveApart

-----------------------------------------------------------------------------
(* The marks of the queues *)

\* The position below which c gives no key any more.
Horizon(c) == IF category = "immediate" THEN next[c] ELSE minTime[c]

\* Keys stay pending until the store has given a definite answer.
PendingInv ==
    \A c \in Contexts :
        /\ \A r \in Unanswered(c) : LeastKeys(r.tasks) \subseteq pending[c]
        /\ Owns(c) => \A w \in lateWrites : LeastKeys(w.tasks) \subseteq pending[c]

QueueInv ==
    \A c \in Contexts : Running(c) =>
        /\ queue[c].deleted <= queue[c].done
        /\ queue[c].done <= queue[c].high
        /\ queue[c].high <= Horizon(c)
        /\ \A t \in Live(c) : queue[c].high <= Position(t)
        /\ Owns(c) => \A t \in Late : queue[c].high <= Position(t)

\* Ids below the range of c are never written once c is not the owner.
BehindInv ==
    category = "immediate" =>
        /\ \A c, d \in Contexts : c # d /\ Owns(d) =>
              \A t \in Live(d) : max[c] <= t.id
        /\ \A c \in Contexts : ~Owns(c) => \A t \in Late : max[c] <= t.id

Sending == UNION {updates[c] : c \in Contexts}

\* The queue states that may become the one of the shards row, or are.
Marks ==
    {row} \cup {info[c] : c \in {d \in Contexts :
                    loaded[d] /\ info[d].rangeID = row.rangeID}}
          \cup {u.info : u \in {v \in Sending : v.prev = row.rangeID}}
          \cup {u.info : u \in lateUpdates}

\* Mark m covers every task that is in the store or may still get there.
Covers(m) ==
    /\ m.done <= m.high
    /\ \A t \in stored \cup Late : m.done <= Position(t)
    /\ \A c \in Contexts : Owns(c) =>
        m.done <= Horizon(c) /\ \A t \in Live(c) : m.done <= Position(t)

CoverInv == \A m \in Marks : Covers(m)

\* Marks are bounded by what the context, or the next one, gives keys above.
BoundInv ==
    /\ category = "immediate" =>
        /\ \A m \in Marks : m.high <= FirstId(row.rangeID + 1)
    /\ category = "scheduled" =>
        \A c \in Contexts : loaded[c] /\ engine[c] = "none" =>
            info[c].high <= minTime[c]

\* Everything an owner's queue deletes up to is gone; what a queue deletes next
\* was executed.
DeletedInv ==
    \A c \in Contexts : Running(c) =>
        /\ Owns(c) => \A t \in stored : queue[c].deleted <= Position(t)
        /\ category = "immediate" =>
            \A t \in stored : Position(t) \in queue[c].deleted..queue[c].done - 1
                                => t \in executed

MarksInv ==
    PendingInv /\ QueueInv /\ BehindInv /\ CoverInv /\ BoundInv /\ DeletedInv

-----------------------------------------------------------------------------
\* All layers together: the inductive invariant.
ShardInv ==
    BaseInv /\ CountInv /\ RangeInv /\ SpentInv /\ DistinctInv /\ MarksInv
=============================================================================
