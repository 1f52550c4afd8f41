---------------------------- MODULE ShardLayers -----------------------------
(***************************************************************************)
(* The first layers of the proof about ShardTasks: its operators, its      *)
(* types, the life of a context, and the marks of the queues (a queue      *)
(* never gets past a task that can still be written).                      *)
(***************************************************************************)
EXTENDS ShardInvariants, WellFoundedInduction, TLAPS

(* Zenon is the prover of a step that names no other. *)
USE Zenon

-----------------------------------------------------------------------------
(* Operators *)

\* Every set of numbers, such as the keys pending in a context, has a least one.
LEMMA LeastExists ==
    ASSUME NEW S \in SUBSET Nat, S # {}
    PROVE \E x \in S : \A y \in S : x <= y
<1> DEFINE R == OpToRel(<, Nat)
<1>1. IsWellFoundedOn(R, Nat)
  BY NatLessThanWellFounded
<1>2. \A x, y \in Nat : x < y => <<x, y>> \in R
  BY DEF OpToRel
<1> HIDE DEF R
<1>3. PICK x \in S : \A y \in S : ~ (<<y, x>> \in R)
  BY <1>1, WFMin
<1>4. \A y \in S : ~ (y < x)
  BY <1>2, <1>3
<1> QED BY <1>4, SMT

\* Least returns it.
LEMMA LeastIsLeast ==
    ASSUME NEW S \in SUBSET Nat, S # {}
    PROVE Least(S) \in S /\ \A y \in S : Least(S) <= y
BY LeastExists DEF Least

\* Rounding a time down to the precision of the store.
LEMMA TruncateRoundsDown ==
    ASSUME NEW t \in Nat
    PROVE /\ Truncate(t) \in Nat
          /\ Truncate(t) <= t
          /\ t <= Truncate(t + Precision)
<1>1. Precision \in Nat /\ Precision > 0
  BY ShardAssumption, SMT
<1>2. \A x \in Nat : x % Precision \in 0..(Precision - 1)
  BY <1>1, SMT
<1>3. \A x \in Nat : x % Precision <= x
  BY <1>1, SMT
<1> QED BY <1>1, <1>2, <1>3, SMT DEF Truncate

\* A timer fires no earlier than taskMinScheduledTime.
LEMMA FireTimeBound ==
    ASSUME NEW due \in Nat, NEW least \in Nat
    PROVE FireTime(due, least) \in Nat /\ least <= FireTime(due, least)
<1>1. Precision \in Nat
  BY ShardAssumption
<1>2. Truncate(due + Precision) \in Nat
  BY <1>1, TruncateRoundsDown, SMT
<1> QED BY <1>1, <1>2, SMT DEF FireTime

\* setTaskKeys gives the ids from first on, and fire times from least on.
LEMMA KeyedFacts ==
    ASSUME NEW todo \in Seq(Wanted), NEW n \in 0..Len(todo),
           NEW first \in Nat, NEW least \in Nat, category \in Categories
    PROVE \A t \in Keyed(SubSeq(todo, 1, n), first, least) :
            /\ t \in Task
            /\ first <= t.id /\ t.id < first + n
            /\ category = "scheduled" => least <= t.fire
<1> DEFINE s == SubSeq(todo, 1, n)
<1>1. Len(s) = n /\ \A i \in 1..n : s[i] = todo[i]
  BY SMT
<1>a. \A i \in 1..Len(todo) : todo[i] \in Wanted
  BY SMT
<1> HIDE DEF s
<1>2. \A i \in 1..n : s[i].due \in Nat
  BY <1>1, <1>a, SMT DEF Wanted
<1> SUFFICES ASSUME NEW t \in Keyed(s, first, least)
             PROVE /\ t \in Task
                   /\ first <= t.id /\ t.id < first + n
                   /\ category = "scheduled" => least <= t.fire
  BY DEF s
<1>3. PICK i \in 1..n : t = [fire |-> IF category = "scheduled"
                                      THEN FireTime(s[i].due, least) ELSE 0,
                             id |-> first + i - 1]
  BY <1>1 DEF Keyed
<1>4. FireTime(s[i].due, least) \in Nat /\ least <= FireTime(s[i].due, least)
  BY <1>2, FireTimeBound
<1> QED BY <1>3, <1>4, SMT DEF Task

\* The least key of a request is one of its tasks, and not above any of them.
LEMMA LeastKeysFacts ==
    ASSUME NEW ts \in SUBSET Task, category \in Categories
    PROVE /\ LeastKeys(ts) \subseteq ts
          /\ \A t \in ts : \E u \in LeastKeys(ts) : Position(u) <= Position(t)
<1>1. LeastKeys(ts) \subseteq ts
  BY DEF LeastKeys
<1>2. ASSUME NEW t \in ts
      PROVE \E u \in LeastKeys(ts) : Position(u) <= Position(t)
  <2>1. \A u \in ts : u.id \in Nat /\ Position(u) \in Nat
    BY DEF Task, Position
  <2> DEFINE P == {Position(u) : u \in ts}
  <2>2. PICK p \in P : \A q \in P : p <= q
    <3>1. P \in SUBSET Nat /\ P # {}
      BY <2>1
    <3> HIDE DEF P
    <3> QED BY <3>1, LeastExists
  <2> DEFINE I == {u.id : u \in {v \in ts : Position(v) = p}}
  <2>3. PICK i \in I : \A j \in I : i <= j
    <3>1. I \in SUBSET Nat /\ I # {}
      BY <2>1, <2>2
    <3> HIDE DEF I
    <3> QED BY <3>1, LeastExists
  <2>4. PICK u \in ts : Position(u) = p /\ u.id = i
    BY <2>3
  <2>5. \A v \in ts : Position(v) \in P
    OBVIOUS
  <2>6. \A v \in ts : Position(v) = p => v.id \in I
    OBVIOUS
  <2> HIDE DEF P, I
  <2>7. ASSUME NEW v \in ts PROVE KeyLeq(u, v)
    <3>1. p <= Position(v) /\ (Position(v) = p => i <= v.id)
      BY <2>2, <2>3, <2>5, <2>6
    <3> QED BY <3>1, <2>1, <2>4, SMT DEF KeyLeq
  <2>8. u \in LeastKeys(ts)
    BY <2>7 DEF LeastKeys
  <2> QED BY <2>8, <2>4, <2>2, <2>5
<1> QED BY <1>1, <1>2

\* What MinScheduledTime does to taskMinScheduledTime: it never goes back.
LEMMA MinScheduledTimeFacts ==
    ASSUME Typed, NEW c \in Contexts, NEW t \in Nat
    PROVE /\ MinScheduledTime(c, t) \in Nat
          /\ category = "scheduled" => /\ minTime[c] <= MinScheduledTime(c, t)
                                       /\ Truncate(t) <= MinScheduledTime(c, t)
<1>1. Truncate(t) \in Nat
  BY TruncateRoundsDown
<1>2. minTime[c] \in Nat
  BY DEF Typed, TypedKeys
<1> QED BY <1>1, <1>2, SMT DEF MinScheduledTime, Greater

\* SetTaskKeys gives as many keys as the range has ids for, to the tasks of the
\* category followed, and sends the request or waits for the next range.
LEMMA SetTaskKeysFacts ==
    ASSUME Typed, NEW c \in Contexts, NEW call \in Nat,
           NEW todo \in Seq(Wanted), NEW done \in SUBSET Task,
           NEW least \in Nat, SetTaskKeys(c, call, todo, done, least)
    PROVE \E ts \in SUBSET Task :
            /\ Assigns(c, ts, least)
            /\ \/ Tracked(c, call, done \cup ts)
               \/ Waits(c, call, done \cup ts)
<1>1. max[c] - next[c] \in Nat /\ next[c] \in Nat /\ Len(todo) \in Nat
  BY SMT DEF Typed, TypedKeys
<1> DEFINE n == Least({Len(todo), max[c] - next[c]})
           ts == Keyed(SubSeq(todo, 1, n), next[c], least)
<1>2. n \in 0..Len(todo) /\ n \in 0..max[c] - next[c]
  <2> DEFINE S == {Len(todo), max[c] - next[c]}
  <2>1. S \in SUBSET Nat /\ S # {} /\ Len(todo) \in S /\ max[c] - next[c] \in S
    BY <1>1
  <2> HIDE DEF S
  <2>2. Least(S) \in S /\ Least(S) <= Len(todo) /\ Least(S) <= max[c] - next[c]
    BY <2>1, LeastIsLeast
  <2>3. Least(S) \in Nat
    BY <2>1, <2>2
  <2> QED BY <1>1, <2>2, <2>3, SMT DEF S
<1>3. /\ next' = [next EXCEPT ![c] = next[c] + n]
      /\ \/ Tracked(c, call, done \cup ts)
         \/ /\ setting' = [setting EXCEPT ![c] =
                    [call |-> call, todo |-> SubSeq(todo, n + 1, Len(todo)),
                     tasks |-> done \cup ts]]
            /\ lock' = [lock EXCEPT ![c] = "write"]
            /\ UNCHANGED <<pending, inflight, requests>>
  BY DEF SetTaskKeys, Tracked
<1>4. category \in Categories
  BY DEF Typed, TypedStore
<1> HIDE DEF n
<1>5. \A t \in ts :
        /\ t \in Task
        /\ next[c] <= t.id /\ t.id < next[c] + n
        /\ category = "scheduled" => least <= t.fire
  BY <1>1, <1>2, <1>4, KeyedFacts
<1> HIDE DEF ts
<1>6. SubSeq(todo, n + 1, Len(todo)) \in Seq(Wanted)
  BY <1>1, <1>2, SMT
<1>7. Assigns(c, ts, least)
  BY <1>2, <1>3, <1>5 DEF Assigns
<1>8. Tracked(c, call, done \cup ts) \/ Waits(c, call, done \cup ts)
  BY <1>3, <1>6 DEF Waits
<1>9. ts \in SUBSET Task
  BY <1>5
<1> QED BY <1>7, <1>8, <1>9

\* AddTasks and AddTasksGoesOn give keys.
LEMMA AddTasksGivesKeys ==
    ASSUME Typed, LifeInv, NEW c \in Contexts, NEW tasks \in Writes[category],
           NEW now \in Clock, AddTasks(c, tasks, now)
    PROVE KeysGiven(c)
<1> DEFINE least == MinScheduledTime(c, now)
<1>1. /\ category \in Categories /\ calls \in Nat /\ minTime \in [Contexts -> Nat]
  BY ShardAssumption, SMT DEF Typed, TypedStore, TypedKeys
<1>2. tasks \in Seq(Wanted) /\ now \in Nat
  BY <1>1, ShardAssumption
<1>3. /\ minTime' = [minTime EXCEPT ![c] = least]
      /\ SetTaskKeys(c, calls, tasks, {}, minTime'[c])
      /\ lock[c] = "none" /\ state[c] = "acquired"
      /\ UNCHANGED <<storeVars, lifeVars, infoVars, max, updates, queue, executed,
                     faults>>
  BY DEF AddTasks, Free
<1>4. least \in Nat /\ (category = "scheduled" => minTime[c] <= least)
  BY <1>2, MinScheduledTimeFacts
<1> HIDE DEF least
<1>5. minTime'[c] = least
  BY <1>1, <1>3
<1>6. setting[c].tasks = {} /\ max[c] # 0
  BY <1>3 DEF LifeInv, Life
<1>7. PICK ts \in SUBSET Task :
            /\ Assigns(c, ts, least)
            /\ \/ Tracked(c, calls, {} \cup ts)
               \/ Waits(c, calls, {} \cup ts)
  BY <1>1, <1>2, <1>3, <1>4, <1>5, SetTaskKeysFacts
<1>8. lock[c] # "acquire"
  BY <1>3
<1> QED BY <1>1, <1>3, <1>4, <1>6, <1>7, <1>8 DEF KeysGiven

\* So does AddTasksGoesOn, after a renewal in the middle of setTaskKeys.
LEMMA AddTasksGoesOnGivesKeys ==
    ASSUME Typed, LifeInv, NEW c \in Contexts, AddTasksGoesOn(c)
    PROVE KeysGiven(c)
<1> DEFINE least == minTime[c]
<1>1. /\ minTime \in [Contexts -> Nat]
      /\ setting[c] \in [call : Nat, todo : Seq(Wanted), tasks : SUBSET Task]
  BY DEF Typed, TypedKeys, TypedCalls
<1>2. /\ setting[c].call \in Nat /\ setting[c].todo \in Seq(Wanted)
      /\ setting[c].tasks \in SUBSET Task
  BY <1>1
<1>3. /\ minTime' = minTime /\ lock[c] = "write"
      /\ SetTaskKeys(c, setting[c].call, setting[c].todo, setting[c].tasks, least)
      /\ UNCHANGED <<storeVars, lifeVars, infoVars, max, updates, queue, executed,
                     faults>>
  BY DEF AddTasksGoesOn, envVars
<1>4. /\ least \in Nat /\ (category = "scheduled" => minTime[c] <= least)
      /\ minTime' = [minTime EXCEPT ![c] = least]
  BY <1>1, <1>3, SMT
<1>6. max[c] # 0
  BY <1>3 DEF LifeInv, Life
<1>7. PICK ts \in SUBSET Task :
            /\ Assigns(c, ts, least)
            /\ \/ Tracked(c, setting[c].call, setting[c].tasks \cup ts)
               \/ Waits(c, setting[c].call, setting[c].tasks \cup ts)
  BY <1>2, <1>3, <1>4, SetTaskKeysFacts
<1>8. lock[c] # "acquire"
  BY <1>3
<1> HIDE DEF least
<1> QED BY <1>2, <1>3, <1>4, <1>6, <1>7, <1>8 DEF KeysGiven

\* Ranges are blocks of ids, one after the other.
LEMMA FirstIdFacts ==
    /\ \A r \in Nat : /\ FirstId(r) \in Nat /\ FirstId(r) < FirstId(r + 1)
                      /\ FirstId(r + 1) # 0
    /\ \A r, s \in Nat : r < s => FirstId(r + 1) <= FirstId(s)
<1>1. BlockSize \in Nat /\ BlockSize > 0
  BY ShardAssumption, SMT
<1>2. \A r \in Nat : r * BlockSize \in Nat
  BY <1>1, SMT
<1>3. \A r \in Nat : (r + 1) * BlockSize = r * BlockSize + BlockSize
  BY <1>1, SMT
<1>4. ASSUME NEW r \in Nat, NEW s \in Nat, r < s
      PROVE (r + 1) * BlockSize <= s * BlockSize
  <2>1. PICK k \in Nat : s = r + 1 + k
    <3>1. s - r - 1 \in Nat /\ s = r + 1 + (s - r - 1)
      BY <1>4, SMT
    <3> QED BY <3>1
  <2>2. s * BlockSize = (r + 1) * BlockSize + k * BlockSize
    BY <1>1, <2>1, SMT
  <2>3. (r + 1) * BlockSize \in Nat /\ k * BlockSize \in Nat
    BY <1>2, SMT
  <2> QED BY <2>2, <2>3, SMT
<1>5. \A r \in Nat : /\ FirstId(r) \in Nat /\ FirstId(r) < FirstId(r + 1)
                     /\ FirstId(r + 1) # 0
  BY <1>1, <1>2, <1>3, SMT DEF FirstId
<1> QED BY <1>4, <1>5 DEF FirstId

\* The watermark is above no key that is pending and not above where new keys
\* begin.
LEMMA WatermarkFacts ==
    ASSUME Typed, NEW c \in Contexts, NEW least \in Nat
    PROVE /\ Watermark(c, least) \in Nat
          /\ category = "immediate" => Watermark(c, least) <= next[c]
          /\ category = "scheduled" => Watermark(c, least) <= least
          /\ \A t \in pending[c] : Watermark(c, least) <= Position(t)
<1> DEFINE peek == IF category = "immediate" THEN next[c] ELSE least
           P == {Position(t) : t \in pending[c]}
           mark == Least(P \cup {peek})
<1>1. /\ next[c] \in Nat /\ peek \in Nat /\ category \in Categories
      /\ pending[c] \subseteq Task
  BY DEF Typed, TypedKeys, TypedStore
<1>2. \A t \in pending[c] : Position(t) \in Nat /\ Position(t) \in P
  BY <1>1 DEF Task, Position
<1>3. P \cup {peek} \in SUBSET Nat /\ P \cup {peek} # {}
  BY <1>1, <1>2
<1>4. Watermark(c, least) = IF category = "immediate" THEN mark ELSE Truncate(mark)
  BY DEF Watermark
<1>5. \/ category = "immediate" /\ peek = next[c]
      \/ category = "scheduled" /\ peek = least /\ category # "immediate"
  BY <1>1 DEF Categories
<1> HIDE DEF peek, P
<1>6. mark \in P \cup {peek} /\ \A p \in P \cup {peek} : mark <= p
  BY <1>3, LeastIsLeast
<1>7. mark \in Nat
  BY <1>3, <1>6
<1>8. mark <= peek /\ \A t \in pending[c] : mark <= Position(t)
  BY <1>2, <1>6
<1> HIDE DEF mark
<1>9. Truncate(mark) \in Nat /\ Truncate(mark) <= mark
  BY <1>7, TruncateRoundsDown
<1> QED BY <1>1, <1>2, <1>4, <1>5, <1>7, <1>8, <1>9, SMT

\* Everything that is written, or waits to be, is a set of tasks.
LEMMA TaskSets ==
    ASSUME Typed
    PROVE /\ Written \subseteq Task
          /\ \A c \in Contexts : /\ setting[c].tasks \subseteq Task
                                 /\ \A r \in requests[c] : r.tasks \subseteq Task
                                 /\ Live(c) \subseteq Task
<1>1. Late \subseteq Task
  BY DEF Late, Typed, TypedStore
<1>2. Written \subseteq Task
  BY <1>1 DEF Written, Typed, TypedStore
<1>3. \A c \in Contexts : setting[c].tasks \subseteq Task
  BY DEF Typed, TypedCalls
<1>4. \A c \in Contexts : \A r \in requests[c] : r.tasks \subseteq Task
  BY SMT DEF Typed, TypedCalls, Request
<1>5. \A c \in Contexts : Live(c) \subseteq Task
  BY <1>3, <1>4 DEF Live, Unanswered
<1> QED BY <1>2, <1>3, <1>4, <1>5

\* What writeAnswered does to the requests.
LEMMA WriteAnsweredFacts ==
    ASSUME Typed, NEW c \in Contexts, NEW r \in requests[c],
           NEW answer \in Answers, writeAnswered(c, r, answer)
    PROVE Answered(c, r)
<1> DEFINE s == [r EXCEPT !.answer = answer]
<1>1. /\ r.answer = "none" /\ answer # "none"
      /\ requests' = [requests EXCEPT ![c] = (requests[c] \ {r}) \cup
           {[r EXCEPT !.answer = a] : a \in {answer} \ {"ok", "failed"}}]
  BY DEF writeAnswered
<1>2. r \in Request /\ requests \in [Contexts -> SUBSET Request]
  BY DEF Typed, TypedCalls
<1>3. s.answer = answer /\ s.tasks = r.tasks
  BY <1>2 DEF Request
<1>4. {[r EXCEPT !.answer = a] : a \in {answer} \ {"ok", "failed"}} \in {{}, {s}}
  OBVIOUS
<1> HIDE DEF s
<1>5. \/ requests'[c] = requests[c] \ {r}
      \/ requests'[c] = (requests[c] \ {r}) \cup {s}
  BY <1>1, <1>2, <1>4
<1>6. \A d \in Contexts : d # c => requests'[d] = requests[d]
  BY <1>1, <1>2
<1>7. Unanswered(c)' = Unanswered(c) \ {r} /\ r \in Unanswered(c)
  BY <1>1, <1>3, <1>5 DEF Unanswered
<1>8. requests'[c] \subseteq (requests[c] \ {r}) \cup {s}
  BY <1>5
<1> QED BY <1>1, <1>3, <1>6, <1>7, <1>8 DEF Answered

\* What a request that is sent, or waits for more ids, does to the tasks.
LEMMA KeysGivenSets ==
    ASSUME Typed, NEW c \in Contexts, NEW call, NEW S,
           Tracked(c, call, S) \/ Waits(c, call, S)
    PROVE /\ \A d \in Contexts : d # c => /\ requests'[d] = requests[d]
                                          /\ setting'[d] = setting[d]
          /\ \/ /\ setting'[c].tasks = {}
                /\ \E s : /\ s.tasks = S /\ s.answer = "none"
                          /\ requests'[c] = requests[c] \cup {s}
                /\ pending' = [pending EXCEPT ![c] = @ \cup LeastKeys(S)]
             \/ /\ setting'[c].tasks = S
                /\ requests'[c] = requests[c] /\ pending' = pending
<1>1. /\ requests \in [Contexts -> SUBSET Request]
      /\ setting \in [Contexts -> [call : Nat, todo : Seq(Wanted),
                                   tasks : SUBSET Task]]
  BY DEF Typed, TypedCalls
<1>2. CASE Tracked(c, call, S)
  <2> DEFINE s == [call |-> call, range |-> info[c].rangeID, tasks |-> S,
                   answer |-> "none"]
  <2>1. /\ requests' = [requests EXCEPT ![c] = requests[c] \cup {s}]
        /\ setting' = [setting EXCEPT ![c] = NotSetting]
        /\ pending' = [pending EXCEPT ![c] = @ \cup LeastKeys(S)]
    BY <1>2 DEF Tracked
  <2>2. s.tasks = S /\ s.answer = "none"
    OBVIOUS
  <2> HIDE DEF s
  <2>3. setting'[c].tasks = {} /\ requests'[c] = requests[c] \cup {s}
    BY <1>1, <2>1 DEF NotSetting
  <2>4. \A d \in Contexts : d # c => /\ requests'[d] = requests[d]
                                     /\ setting'[d] = setting[d]
    BY <1>1, <2>1
  <2> QED BY <2>1, <2>2, <2>3, <2>4
<1>3. CASE Waits(c, call, S)
  <2>1. PICK todo \in Seq(Wanted) : setting' = [setting EXCEPT ![c] =
           [call |-> call, todo |-> todo, tasks |-> S]]
    BY <1>3 DEF Waits
  <2>2. requests' = requests /\ pending' = pending
    BY <1>3 DEF Waits
  <2> QED BY <1>1, <2>1, <2>2
<1> QED BY <1>2, <1>3

-----------------------------------------------------------------------------
(* The numbers of requests *)

\* Steps that send no request keep the numbers: requests go or get an answer,
\* and a lock that is taken for a write is let go.
LEMMA CallsKept ==
    ASSUME Typed, CallInv, calls' \in Nat, calls <= calls',
           \A c \in Contexts : \A r \in requests'[c] :
               \E s \in requests[c] : r.call = s.call,
           \A c \in Contexts : lock'[c] = "write" =>
               lock[c] = "write" /\ setting'[c] = setting[c]
    PROVE CallInv'
<1>1. calls \in Nat
  BY ShardAssumption, SMT DEF Typed, TypedStore
<1>2. \A c \in Contexts : /\ \A r \in requests[c] : r.call \in Nat
                          /\ setting[c].call \in Nat
  BY SMT DEF Typed, TypedCalls, Request
<1> SUFFICES ASSUME NEW c \in Contexts
             PROVE /\ \A r \in requests'[c] : r.call < calls'
                   /\ lock'[c] = "write" => setting'[c].call < calls'
                   /\ lock'[c] = "write" =>
                        \A r \in requests'[c] : r.call # setting'[c].call
  BY DEF CallInv
<1>3. \A r \in requests[c] : r.call < calls'
  BY <1>1, <1>2, SMT DEF CallInv
<1>4. \A r \in requests'[c] : r.call < calls'
  BY <1>3
<1>5. lock'[c] = "write" => setting'[c].call < calls'
  BY <1>1, <1>2, SMT DEF CallInv
<1>6. ASSUME lock'[c] = "write", NEW r \in requests'[c]
      PROVE r.call # setting'[c].call
  <2>1. PICK s \in requests[c] : r.call = s.call
    OBVIOUS
  <2> QED BY <1>6, <2>1 DEF CallInv
<1> QED BY <1>4, <1>5, <1>6

\* A request that is sent, or waits to be, has a number of its own.
LEMMA CallsGiven ==
    ASSUME Typed, CallInv, NEW c \in Contexts, NEW call \in Nat, NEW tasks,
           calls' \in Nat, calls <= calls', call < calls',
           \A r \in requests[c] : r.call # call,
           Tracked(c, call, tasks) \/ Waits(c, call, tasks)
    PROVE CallInv'
<1>1. calls \in Nat
  BY ShardAssumption, SMT DEF Typed, TypedStore
<1>2. \A d \in Contexts : /\ \A r \in requests[d] : r.call \in Nat
                          /\ setting[d].call \in Nat
  BY SMT DEF Typed, TypedCalls, Request
<1> SUFFICES ASSUME NEW d \in Contexts
             PROVE /\ \A r \in requests'[d] : r.call < calls'
                   /\ lock'[d] = "write" => setting'[d].call < calls'
                   /\ lock'[d] = "write" =>
                        \A r \in requests'[d] : r.call # setting'[d].call
  BY DEF CallInv
<1>3. \A r \in requests[d] : r.call < calls'
  BY <1>1, <1>2, SMT DEF CallInv
<1>4. lock[d] = "write" => setting[d].call < calls'
  BY <1>1, <1>2, SMT DEF CallInv
<1>5. lock[d] = "write" => \A r \in requests[d] : r.call # setting[d].call
  BY DEF CallInv
<1>6. CASE Tracked(c, call, tasks)
  <2> DEFINE new == [call |-> call, range |-> info[c].rangeID, tasks |-> tasks,
                     answer |-> "none"]
  <2>1. /\ requests' = [requests EXCEPT ![c] = requests[c] \cup {new}]
        /\ lock' = [lock EXCEPT ![c] = "none"]
        /\ setting' = [setting EXCEPT ![c] = NotSetting]
    BY <1>6 DEF Tracked
  <2>2. new.call = call
    OBVIOUS
  <2> HIDE DEF new
  <2> QED BY <1>3, <1>4, <1>5, <2>1, <2>2 DEF Typed, TypedCalls, TypedLife
<1>7. CASE Waits(c, call, tasks)
  <2>1. PICK todo \in Seq(Wanted) : setting' = [setting EXCEPT ![c] =
                    [call |-> call, todo |-> todo, tasks |-> tasks]]
    BY <1>7 DEF Waits
  <2> DEFINE new == [call |-> call, todo |-> todo, tasks |-> tasks]
  <2>2. setting' = [setting EXCEPT ![c] = new] /\ new.call = call
    BY <2>1
  <2> HIDE DEF new
  <2>3. requests' = requests /\ lock' = [lock EXCEPT ![c] = "write"]
    BY <1>7 DEF Waits
  <2> QED BY <1>3, <1>4, <1>5, <2>2, <2>3 DEF Typed, TypedCalls, TypedLife
<1> QED BY <1>6, <1>7

\* Steps that leave requests, locks and the number of calls alone.
LEMMA CallFrame ==
    ASSUME CallInv, UNCHANGED <<requests, calls, lock, setting>>
    PROVE CallInv'
BY DEF CallInv

\* AddTasks gives its request the number of the call.
LEMMA CallAddTasks ==
    ASSUME BaseInv, NEW c \in Contexts, NEW tasks \in Writes[category],
           NEW now \in Clock, AddTasks(c, tasks, now)
    PROVE CallInv' /\ calls' \in 0..MaxCalls[category]
<1> USE DEF BaseInv
<1>1. /\ category \in Categories /\ calls \in Nat /\ MaxCalls[category] \in Nat
      /\ minTime \in [Contexts -> Nat]
  BY ShardAssumption, SMT DEF Typed, TypedStore, TypedKeys
<1>2. tasks \in Seq(Wanted) /\ now \in Nat
  BY <1>1, ShardAssumption
<1> DEFINE least == MinScheduledTime(c, now)
<1>3. /\ minTime' = [minTime EXCEPT ![c] = least]
      /\ SetTaskKeys(c, calls, tasks, {}, minTime'[c])
      /\ calls < MaxCalls[category] /\ calls' = calls + 1
  BY DEF AddTasks
<1>4. least \in Nat
  BY <1>2, MinScheduledTimeFacts
<1> HIDE DEF least
<1>5. minTime'[c] = least
  BY <1>1, <1>3
<1>6. PICK ts \in SUBSET Task : \/ Tracked(c, calls, {} \cup ts)
                              \/ Waits(c, calls, {} \cup ts)
  BY <1>1, <1>2, <1>3, <1>4, <1>5, SetTaskKeysFacts
<1>7. \A r \in requests[c] : r.call # calls
  BY <1>1, SMT DEF CallInv
<1>8. calls' \in Nat /\ calls <= calls' /\ calls < calls'
      /\ calls' \in 0..MaxCalls[category]
  BY <1>1, <1>3, SMT
<1> QED BY <1>1, <1>6, <1>7, <1>8, CallsGiven

\* A write that waited for the range keeps its number.
LEMMA CallAddTasksGoesOn ==
    ASSUME BaseInv, NEW c \in Contexts, AddTasksGoesOn(c)
    PROVE CallInv' /\ calls' \in 0..MaxCalls[category]
<1> USE DEF BaseInv
<1>1. /\ minTime[c] \in Nat
      /\ setting[c] \in [call : Nat, todo : Seq(Wanted), tasks : SUBSET Task]
  BY DEF Typed, TypedKeys, TypedCalls
<1>2. /\ setting[c].call \in Nat /\ setting[c].todo \in Seq(Wanted)
      /\ setting[c].tasks \in SUBSET Task
  BY <1>1
<1>3. /\ lock[c] = "write" /\ calls' = calls
      /\ SetTaskKeys(c, setting[c].call, setting[c].todo, setting[c].tasks,
                     minTime[c])
  BY DEF AddTasksGoesOn, envVars
<1>4. PICK ts \in SUBSET Task :
            \/ Tracked(c, setting[c].call, setting[c].tasks \cup ts)
            \/ Waits(c, setting[c].call, setting[c].tasks \cup ts)
  BY <1>1, <1>2, <1>3, SetTaskKeysFacts
<1>5. setting[c].call < calls /\ \A r \in requests[c] : r.call # setting[c].call
  BY <1>3 DEF CallInv
<1>6. calls' \in Nat /\ calls <= calls' /\ calls' \in 0..MaxCalls[category]
  BY <1>3, ShardAssumption, SMT DEF Typed, TypedStore
<1> QED BY <1>2, <1>3, <1>4, <1>5, <1>6, CallsGiven

\* Every step keeps the numbers of requests apart.
LEMMA CallNext ==
    ASSUME BaseInv, [Next]_vars
    PROVE CallInv'
<1> USE DEF BaseInv
<1>a. calls \in Nat
  BY ShardAssumption, SMT DEF Typed, TypedStore
<1> DEFINE Same == UNCHANGED <<requests, calls, lock, setting>>
<1>1. CASE \/ UNCHANGED vars
           \/ \E w \in lateWrites : lateWriteLands(w)
           \/ \E u \in lateUpdates : lateUpdateLands(u)
  <2>1. Same
    BY <1>1 DEF vars, lateWriteLands, lateUpdateLands, lockVars, callVars,
       envVars
  <2> QED BY <2>1, CallFrame
<1>2. ASSUME NEW c \in Contexts,
             \/ start(c) \/ loadShardMetadataFails(c) \/ acquireShardGivesUp(c)
             \/ transitionAcquired(c) \/ FinishStop(c)
      PROVE CallInv'
  <2>1. Same
    BY <1>2 DEF start, loadShardMetadataFails, acquireShardGivesUp,
       transitionAcquired, FinishStop, lockVars, callVars, envVars
  <2> QED BY <2>1, CallFrame
<1>3. ASSUME NEW c \in Contexts,
             \/ \E now \in Clock : processNewRange(c, now)
             \/ checkpoint(c)
             \/ \E u \in updates[c] :
                    \/ UpdateShardCommits(c, u)
                    \/ \E answer \in Answers : UpdateShardFails(c, u, answer)
      PROVE CallInv'
  <2>1. Same
    BY <1>3 DEF processNewRange, checkpoint, UpdateShardCommits,
       UpdateShardFails, lockVars, callVars, envVars
  <2> QED BY <2>1, CallFrame
<1>4. ASSUME NEW c \in Contexts,
             \/ \E tasks \in Writes[category], now \in Clock : AddTasks(c, tasks, now)
             \/ AddTasksGoesOn(c)
      PROVE CallInv'
  BY <1>4, CallAddTasks, CallAddTasksGoesOn
<1>5. ASSUME NEW c \in Contexts, loadShardMetadata(c)
      PROVE CallInv'
  <2>1. calls' \in Nat /\ calls <= calls'
    BY <1>5, <1>a, SMT DEF loadShardMetadata, envVars
  <2>2. \A d \in Contexts : \A q \in requests'[d] :
          \E s \in requests[d] : q.call = s.call
    BY <1>5 DEF Typed, TypedCalls, loadShardMetadata, callVars
  <2>3. \A d \in Contexts : lock'[d] = "write" =>
          lock[d] = "write" /\ setting'[d] = setting[d]
    BY <1>5 DEF Typed, TypedLife, TypedCalls, loadShardMetadata, lockVars
  <2> QED BY <2>1, <2>2, <2>3, CallsKept
<1>6. ASSUME NEW c \in Contexts, renewRangeGranted(c)
      PROVE CallInv'
  <2>1. calls' \in Nat /\ calls <= calls'
    BY <1>6, <1>a, SMT DEF renewRangeGranted, envVars
  <2>2. \A d \in Contexts : \A q \in requests'[d] :
          \E s \in requests[d] : q.call = s.call
    BY <1>6 DEF Typed, TypedCalls, renewRangeGranted, callVars
  <2>3. \A d \in Contexts : lock'[d] = "write" =>
          lock[d] = "write" /\ setting'[d] = setting[d]
    BY <1>6 DEF Typed, TypedLife, TypedCalls, renewRangeGranted, lockVars
  <2> QED BY <2>1, <2>2, <2>3, CallsKept
<1>7. ASSUME NEW c \in Contexts, NEW answer \in Answers, renewRangeRefused(c, answer)
      PROVE CallInv'
  <2>1. calls' \in Nat /\ calls <= calls'
    BY <1>7, <1>a, SMT DEF renewRangeRefused, envVars
  <2>2. \A d \in Contexts : \A q \in requests'[d] :
          \E s \in requests[d] : q.call = s.call
    BY <1>7 DEF Typed, TypedCalls, renewRangeRefused, callVars
  <2>3. \A d \in Contexts : lock'[d] = "write" =>
          lock[d] = "write" /\ setting'[d] = setting[d]
    BY <1>7 DEF Typed, TypedLife, TypedCalls, renewRangeRefused, lockVars
  <2> QED BY <2>1, <2>2, <2>3, CallsKept
<1>8. ASSUME NEW c \in Contexts, GenerateTaskID(c)
      PROVE CallInv'
  <2>1. calls' \in Nat /\ calls <= calls'
    BY <1>8, <1>a, SMT DEF GenerateTaskID, envVars
  <2>2. \A d \in Contexts : \A q \in requests'[d] :
          \E s \in requests[d] : q.call = s.call
    BY <1>8 DEF Typed, TypedCalls, GenerateTaskID, callVars
  <2>3. \A d \in Contexts : lock'[d] = "write" =>
          lock[d] = "write" /\ setting'[d] = setting[d]
    BY <1>8 DEF Typed, TypedLife, TypedCalls, GenerateTaskID
  <2> QED BY <2>1, <2>2, <2>3, CallsKept
<1>9. ASSUME NEW c \in Contexts, NEW r \in requests[c], NEW answer \in Answers,
             writeAnswered(c, r, answer)
      PROVE CallInv'
  <2>1. calls' \in Nat /\ calls <= calls'
    BY <1>9, <1>a, SMT DEF writeAnswered, envVars
  <2>2. \A d \in Contexts : \A q \in requests'[d] :
          \E s \in requests[d] : q.call = s.call
    <3>1. requests' = [requests EXCEPT ![c] = (requests[c] \ {r}) \cup
             {[r EXCEPT !.answer = a] : a \in {answer} \ {"ok", "failed"}}]
      BY <1>9 DEF writeAnswered
    <3>2. \A a : [r EXCEPT !.answer = a].call = r.call
      BY <1>9, SMT DEF Typed, TypedCalls, Request
    <3> QED BY <1>9, <3>1, <3>2 DEF Typed, TypedCalls
  <2>3. \A d \in Contexts : lock'[d] = "write" =>
          lock[d] = "write" /\ setting'[d] = setting[d]
    BY <1>9 DEF Typed, TypedLife, TypedCalls, writeAnswered, lockVars
  <2> QED BY <2>1, <2>2, <2>3, CallsKept
<1>10. ASSUME NEW c \in Contexts, NEW r \in requests[c], writeReturns(c, r)
      PROVE CallInv'
  <2>1. calls' \in Nat /\ calls <= calls'
    BY <1>10, <1>a, SMT DEF writeReturns, envVars
  <2>2. \A d \in Contexts : \A q \in requests'[d] :
          \E s \in requests[d] : q.call = s.call
    BY <1>10 DEF Typed, TypedCalls, writeReturns
  <2>3. \A d \in Contexts : lock'[d] = "write" =>
          lock[d] = "write" /\ setting'[d] = setting[d]
    BY <1>10 DEF Typed, TypedLife, TypedCalls, writeReturns, lockVars
  <2> QED BY <2>1, <2>2, <2>3, CallsKept
<1> HIDE DEF BaseInv, Same
<1> QED BY <1>1, <1>2, <1>3, <1>4, <1>5, <1>6, <1>7, <1>8, <1>9, <1>10
        DEF Next, ContextStep

-----------------------------------------------------------------------------
(* Types *)

\* Initially every variable has its type.
LEMMA TypedInit == Init => Typed
<1> SUFFICES ASSUME Init PROVE Typed
  OBVIOUS
<1>1. TypedStore
  BY ShardAssumption, SMT DEF Init, TypedStore, NewShard, ShardInfo, Categories
<1>2. TypedLife
  BY DEF Init, TypedLife, States
<1>3. TypedKeys
  BY SMT DEF Init, TypedKeys
<1>4. TypedCalls
  BY SMT DEF Init, TypedCalls, NotSetting
<1>5. TypedQueue
  BY DEF Init, TypedQueue, NewShard, ShardInfo, NoQueue
<1> QED BY <1>1, <1>2, <1>3, <1>4, <1>5 DEF Typed

\* A step that leaves every variable alone.
LEMMA TypedFrame ==
    ASSUME Typed, UNCHANGED <<storeVars, lifeVars, infoVars, keyVars, lockVars,
                              callVars, queue, envVars>>
    PROVE Typed'
<1>1. TypedStore'
  BY DEF Typed, TypedStore, storeVars, envVars
<1>2. TypedLife'
  BY DEF Typed, TypedLife, lifeVars, infoVars, lockVars
<1>3. TypedKeys'
  BY DEF Typed, TypedKeys, keyVars
<1>4. TypedCalls'
  BY DEF Typed, TypedCalls, callVars, lockVars
<1>5. TypedQueue'
  BY DEF Typed, TypedQueue, infoVars
<1> QED BY <1>1, <1>2, <1>3, <1>4, <1>5 DEF Typed

\* Every step keeps the types.
LEMMA TypedNext ==
    ASSUME Typed, LifeInv, CallInv, [Next]_vars
    PROVE Typed'
<1>1. ASSUME NEW c \in Contexts,
             \/ start(c) \/ loadShardMetadata(c) \/ loadShardMetadataFails(c)
             \/ acquireShardGivesUp(c) \/ transitionAcquired(c) \/ FinishStop(c)
     PROVE Typed'
  <2>1. CASE start(c)
    <3> USE <2>1
    <3>1. TypedStore'
      BY DEF Typed, TypedStore, start, storeVars, envVars
    <3>2. TypedLife'
      BY DEF Typed, TypedLife, start, States, lifeVars, lockVars, infoVars
    <3>3. TypedKeys'
      BY DEF Typed, TypedKeys, start, keyVars
    <3>4. TypedCalls'
      BY DEF Typed, TypedCalls, start, lockVars, callVars
    <3>5. TypedQueue'
      BY DEF Typed, TypedQueue, start, infoVars
    <3> QED BY <3>1, <3>2, <3>3, <3>4, <3>5 DEF Typed
  <2>2. CASE loadShardMetadata(c)
    <3> USE <2>2
    <3>1. TypedStore'
      BY DEF Typed, TypedStore, loadShardMetadata, storeVars, envVars
    <3>2. TypedLife'
      BY DEF Typed, TypedLife, loadShardMetadata, lifeVars, lockVars, infoVars
    <3>3. TypedKeys'
      <4> DEFINE t == row.high + Precision
      <4>1. t \in Nat
        BY ShardAssumption, SMT DEF Typed, TypedStore, ShardInfo
      <4>2. MinScheduledTime(c, t) \in Nat
        BY <4>1, MinScheduledTimeFacts
      <4>3. \/ minTime' = minTime
            \/ minTime' = [minTime EXCEPT ![c] = MinScheduledTime(c, t)]
        BY DEF loadShardMetadata
      <4>4. UNCHANGED <<next, max, pending, inflight>>
        BY DEF loadShardMetadata
      <4> QED BY <4>2, <4>3, <4>4 DEF Typed, TypedKeys
    <3>4. TypedCalls'
      BY DEF Typed, TypedCalls, loadShardMetadata, lockVars, callVars
    <3>5. TypedQueue'
      BY DEF Typed, TypedQueue, loadShardMetadata, TypedStore, infoVars
    <3> QED BY <3>1, <3>2, <3>3, <3>4, <3>5 DEF Typed
  <2>3. CASE loadShardMetadataFails(c)
    <3> USE <2>3
    <3>1. TypedStore'
      BY ShardAssumption, SMT
         DEF Typed, TypedStore, loadShardMetadataFails, Fault,
         storeVars, envVars
    <3>2. TypedLife'
      BY DEF Typed, TypedLife, loadShardMetadataFails, lifeVars, lockVars,
         infoVars
    <3>3. TypedKeys'
      BY DEF Typed, TypedKeys, loadShardMetadataFails, keyVars
    <3>4. TypedCalls'
      BY DEF Typed, TypedCalls, loadShardMetadataFails, lockVars, callVars
    <3>5. TypedQueue'
      BY DEF Typed, TypedQueue, loadShardMetadataFails, infoVars
    <3> QED BY <3>1, <3>2, <3>3, <3>4, <3>5 DEF Typed
  <2>4. CASE acquireShardGivesUp(c)
    <3> USE <2>4
    <3>1. TypedStore'
      BY DEF Typed, TypedStore, acquireShardGivesUp, storeVars, envVars
    <3>2. TypedLife'
      BY DEF Typed, TypedLife, acquireShardGivesUp, States, lifeVars, lockVars,
         infoVars
    <3>3. TypedKeys'
      BY DEF Typed, TypedKeys, acquireShardGivesUp, keyVars
    <3>4. TypedCalls'
      BY DEF Typed, TypedCalls, acquireShardGivesUp, lockVars, callVars
    <3>5. TypedQueue'
      BY DEF Typed, TypedQueue, acquireShardGivesUp, infoVars
    <3> QED BY <3>1, <3>2, <3>3, <3>4, <3>5 DEF Typed
  <2>5. CASE transitionAcquired(c)
    <3> USE <2>5
    <3>1. TypedStore'
      BY DEF Typed, TypedStore, transitionAcquired, storeVars, envVars
    <3>2. TypedLife'
      BY DEF Typed, TypedLife, transitionAcquired, States, StopEngine, lifeVars,
         lockVars, infoVars
    <3>3. TypedKeys'
      BY DEF Typed, TypedKeys, transitionAcquired, keyVars
    <3>4. TypedCalls'
      BY DEF Typed, TypedCalls, transitionAcquired, lockVars, callVars
    <3>5. TypedQueue'
      BY SMT DEF Typed, TypedQueue, transitionAcquired, StopEngine, NoQueue, infoVars
    <3> QED BY <3>1, <3>2, <3>3, <3>4, <3>5 DEF Typed
  <2>6. CASE FinishStop(c)
    <3> USE <2>6
    <3>1. TypedStore'
      BY DEF Typed, TypedStore, FinishStop, storeVars, envVars
    <3>2. TypedLife'
      BY DEF Typed, TypedLife, FinishStop, States, StopEngine, lifeVars, lockVars,
         infoVars
    <3>3. TypedKeys'
      BY DEF Typed, TypedKeys, FinishStop, keyVars
    <3>4. TypedCalls'
      BY DEF Typed, TypedCalls, FinishStop, lockVars, callVars
    <3>5. TypedQueue'
      BY SMT DEF Typed, TypedQueue, FinishStop, StopEngine, NoQueue, infoVars
    <3> QED BY <3>1, <3>2, <3>3, <3>4, <3>5 DEF Typed
  <2> QED BY <1>1, <2>1, <2>2, <2>3, <2>4, <2>5, <2>6
<1>2. ASSUME NEW c \in Contexts,
             \/ renewRangeGranted(c)
             \/ \E answer \in Answers : renewRangeRefused(c, answer)
     PROVE Typed'
  <2>1. CASE renewRangeGranted(c)
    <3> USE <2>1
    <3> DEFINE new == [info[c] EXCEPT !.rangeID = @ + 1]
    <3>a. /\ row' = new /\ new \in ShardInfo
          /\ info[c].rangeID \in Nat /\ new.rangeID = info[c].rangeID + 1
      BY SMT DEF renewRangeGranted, Typed, TypedQueue, ShardInfo
    <3>1. TypedStore'
      <4>1. UNCHANGED <<category, stored, executed, calls, faults>>
        BY DEF renewRangeGranted, envVars
      <4>2. lateWrites' \subseteq lateWrites /\ lateUpdates' \subseteq lateUpdates
        BY DEF renewRangeGranted, FenceLateCalls
      <4> QED BY <3>a, <4>1, <4>2 DEF Typed, TypedStore
    <3>2. TypedLife'
      BY DEF Typed, TypedLife, renewRangeGranted, createEngine, lifeVars,
         lockVars, infoVars
    <3>3. TypedKeys'
      <4> DEFINE n == FirstId(new.rangeID)
                 m == FirstId(new.rangeID + 1)
      <4>1. n \in Nat /\ m \in Nat /\ n <= m
        BY <3>a, FirstIdFacts, SMT DEF ShardInfo
      <4>2. /\ next' = [next EXCEPT ![c] = n]
            /\ max' = [max EXCEPT ![c] = m]
            /\ pending' = [pending EXCEPT ![c] = {}]
            /\ inflight' = [inflight EXCEPT ![c] = 0]
            /\ minTime' = minTime
        BY DEF renewRangeGranted, setRangeID, FirstId
      <4> HIDE DEF n, m, new
      <4> QED BY <4>1, <4>2, SMT DEF Typed, TypedKeys
    <3>4. TypedCalls'
      BY DEF Typed, TypedCalls, renewRangeGranted, lockVars, callVars
    <3>5. TypedQueue'
      <4>1. info' = [info EXCEPT ![c] = new]
        BY DEF renewRangeGranted
      <4>2. \/ queue' = queue
            \/ queue' = [queue EXCEPT ![c] = [done |-> new.done, high |-> new.high,
                                             deleted |-> new.done]]
        BY DEF renewRangeGranted, createEngine
      <4> HIDE DEF new
      <4> QED BY <3>a, <4>1, <4>2, SMT DEF Typed, TypedQueue, ShardInfo
    <3> QED BY <3>1, <3>2, <3>3, <3>4, <3>5 DEF Typed
  <2>2. ASSUME NEW answer \in Answers, renewRangeRefused(c, answer)
        PROVE Typed'
    <3> USE <2>2
    <3>1. TypedStore'
      <4> DEFINE u == [prev |-> info[c].rangeID,
                       info |-> [info[c] EXCEPT !.rangeID = @ + 1]]
      <4>1. u \in ShardUpdate
        BY SMT DEF Typed, TypedQueue, ShardInfo, ShardUpdate
      <4>2. lateUpdates' \subseteq lateUpdates \cup {u}
        BY DEF renewRangeRefused, TimesOut
      <4>3. faults' = faults \/ (faults < MaxFaults /\ faults' = faults + 1)
        BY DEF renewRangeRefused, Fault
      <4>4. UNCHANGED <<category, row, stored, lateWrites, executed, calls>>
        BY DEF renewRangeRefused
      <4> HIDE DEF u
      <4> QED BY <4>1, <4>2, <4>3, <4>4, ShardAssumption, SMT
                 DEF Typed, TypedStore
    <3>2. TypedLife'
      BY DEF Typed, TypedLife, renewRangeRefused, States, handleWriteErrorLocked,
         lifeVars, lockVars, infoVars
    <3>3. TypedKeys'
      BY DEF Typed, TypedKeys, renewRangeRefused, keyVars
    <3>4. TypedCalls'
      BY SMT DEF Typed, TypedCalls, renewRangeRefused, NotSetting, lockVars, callVars
    <3>5. TypedQueue'
      BY DEF Typed, TypedQueue, renewRangeRefused, infoVars
    <3> QED BY <3>1, <3>2, <3>3, <3>4, <3>5 DEF Typed
  <2> QED BY <1>2, <2>1, <2>2
<1>3. ASSUME NEW c \in Contexts,
             \/ \E tasks \in Writes[category], now \in Clock : AddTasks(c, tasks, now)
             \/ AddTasksGoesOn(c) \/ GenerateTaskID(c)
     PROVE Typed'
  <2>1. ASSUME KeysGiven(c), calls' \in 0..MaxCalls[category] PROVE Typed'
    <3> USE <2>1
    <3>1. PICK call \in Nat, ts \in SUBSET Task, least \in Nat :
            /\ minTime' = [minTime EXCEPT ![c] = least]
            /\ Assigns(c, ts, least)
            /\ \/ Tracked(c, call, setting[c].tasks \cup ts)
               \/ Waits(c, call, setting[c].tasks \cup ts)
      BY DEF KeysGiven
    <3>2. PICK n \in 0..max[c] - next[c] : next' = [next EXCEPT ![c] = next[c] + n]
      BY <3>1 DEF Assigns
    <3> DEFINE tasks == setting[c].tasks \cup ts
               new == [call |-> call, range |-> info[c].rangeID, tasks |-> tasks,
                       answer |-> "none"]
    <3>3. category \in Categories /\ tasks \subseteq Task /\ info[c].rangeID \in Nat
      <4>1. category \in Categories
        BY DEF Typed, TypedStore
      <4>2. setting[c] \in [call : Nat, todo : Seq(Wanted), tasks : SUBSET Task]
        BY DEF Typed, TypedCalls
      <4>3. info[c] \in ShardInfo
        BY DEF Typed, TypedQueue
      <4>4. setting[c].tasks \subseteq Task
        BY <4>2
      <4>5. info[c].rangeID \in Nat
        BY <4>3 DEF ShardInfo
      <4> QED BY <4>1, <4>4, <4>5
    <3>4. LeastKeys(tasks) \subseteq Task
      BY <3>3, LeastKeysFacts
    <3>5. new \in Request
      BY <3>3 DEF Request, Answers
    <3>6. UNCHANGED <<category, row, stored, lateWrites, lateUpdates, executed, faults>>
      BY DEF KeysGiven, storeVars
    <3>7. UNCHANGED <<state, acq, engine, loaded, info, max, updates, queue>>
      BY DEF KeysGiven, lifeVars, infoVars
    <3>8. \/ /\ pending' = [pending EXCEPT ![c] = @ \cup LeastKeys(tasks)]
             /\ inflight' = [inflight EXCEPT ![c] = @ + 1]
             /\ requests' = [requests EXCEPT ![c] = @ \cup {new}]
             /\ lock' = [lock EXCEPT ![c] = "none"]
             /\ setting' = [setting EXCEPT ![c] = NotSetting]
          \/ /\ \E todo \in Seq(Wanted) : setting' = [setting EXCEPT ![c] =
                  [call |-> call, todo |-> todo, tasks |-> tasks]]
             /\ lock' = [lock EXCEPT ![c] = "write"]
             /\ UNCHANGED <<pending, inflight, requests>>
      BY <3>1 DEF Tracked, Waits
    <3> HIDE DEF new, tasks
    <3>9. TypedStore'
      BY <3>6 DEF Typed, TypedStore
    <3>10. TypedLife'
      BY <3>7, <3>8 DEF Typed, TypedLife
    <3>11. TypedKeys'
      <4>1. next' \in [Contexts -> Nat] /\ \A d \in Contexts : next'[d] <= max'[d]
        BY <3>2, <3>7, SMT DEF Typed, TypedKeys
      <4>2. minTime' \in [Contexts -> Nat] /\ max' \in [Contexts -> Nat]
        BY <3>1, <3>7 DEF Typed, TypedKeys
      <4>3. pending[c] \cup LeastKeys(tasks) \in SUBSET Task
        BY <3>4 DEF Typed, TypedKeys
      <4>4. pending' \in [Contexts -> SUBSET Task]
        BY <3>8, <4>3 DEF Typed, TypedKeys
      <4>5. inflight' \in [Contexts -> Int]
        BY <3>8, SMT DEF Typed, TypedKeys
      <4> QED BY <4>1, <4>2, <4>4, <4>5 DEF TypedKeys
    <3>12. TypedCalls'
      <4>1. requests' \in [Contexts -> SUBSET Request]
        <5>1. requests[c] \cup {new} \in SUBSET Request
          BY <3>5 DEF Typed, TypedCalls
        <5> QED BY <3>8, <5>1 DEF Typed, TypedCalls
      <4>2. NotSetting \in [call : Nat, todo : Seq(Wanted), tasks : SUBSET Task]
        BY SMT DEF NotSetting
      <4>3. \A todo \in Seq(Wanted) : [call |-> call, todo |-> todo, tasks |-> tasks]
               \in [call : Nat, todo : Seq(Wanted), tasks : SUBSET Task]
        BY <3>3
      <4>4. PICK s \in [call : Nat, todo : Seq(Wanted), tasks : SUBSET Task] :
                setting' = [setting EXCEPT ![c] = s]
        BY <3>8, <4>2, <4>3
      <4>5. setting' \in [Contexts -> [call : Nat, todo : Seq(Wanted),
                                       tasks : SUBSET Task]]
        BY <4>4 DEF Typed, TypedCalls
      <4> QED BY <3>7, <4>1, <4>5 DEF Typed, TypedCalls
    <3>13. TypedQueue'
      BY <3>7 DEF Typed, TypedQueue
    <3> QED BY <3>9, <3>10, <3>11, <3>12, <3>13 DEF Typed
  <2>2. CASE GenerateTaskID(c)
    <3> USE <2>2
    <3>1. TypedStore'
      BY ShardAssumption, SMT
         DEF Typed, TypedStore, GenerateTaskID, storeVars, envVars
    <3>2. TypedLife'
      BY DEF Typed, TypedLife, GenerateTaskID, lifeVars, lockVars, infoVars
    <3>3. TypedKeys'
      BY SMT DEF Typed, TypedKeys, GenerateTaskID, keyVars
    <3>4. TypedCalls'
      BY DEF Typed, TypedCalls, GenerateTaskID, lockVars, callVars
    <3>5. TypedQueue'
      BY DEF Typed, TypedQueue, GenerateTaskID, infoVars
    <3> QED BY <3>1, <3>2, <3>3, <3>4, <3>5 DEF Typed
  <2>3. CASE \/ \E tasks \in Writes[category], now \in Clock : AddTasks(c, tasks, now)
             \/ AddTasksGoesOn(c)
    <3>1. KeysGiven(c)
      BY <2>3, AddTasksGivesKeys, AddTasksGoesOnGivesKeys
    <3>2. calls' \in 0..MaxCalls[category]
      BY <2>3, CallAddTasks, CallAddTasksGoesOn DEF BaseInv
    <3> QED BY <2>1, <3>1, <3>2
  <2> QED BY <1>3, <2>2, <2>3
<1>4. ASSUME NEW c \in Contexts, NEW r \in requests[c],
             \/ \E answer \in Answers : writeAnswered(c, r, answer)
             \/ writeReturns(c, r)
     PROVE Typed'
  <2>1. ASSUME NEW answer \in Answers, writeAnswered(c, r, answer)
        PROVE Typed'
    <3> USE <2>1
    <3>a. r \in Request
      BY DEF Typed, TypedCalls
    <3>1. TypedStore'
      <4>1. stored' \subseteq stored \cup r.tasks
        BY DEF writeAnswered
      <4> DEFINE w == [range |-> r.range, tasks |-> r.tasks]
      <4>2. lateWrites' \subseteq lateWrites \cup {w}
        BY DEF writeAnswered
      <4>3. faults' = faults \/ (faults < MaxFaults /\ faults' = faults + 1)
        BY DEF writeAnswered, Fault
      <4>4. UNCHANGED <<category, row, lateUpdates, executed, calls>>
        BY DEF writeAnswered
      <4>5. w \in [range : Nat, tasks : SUBSET Task] /\ r.tasks \subseteq Task
        BY <3>a DEF Request
      <4> HIDE DEF w
      <4> QED BY <4>1, <4>2, <4>3, <4>4, <4>5, ShardAssumption, SMT
                 DEF Typed, TypedStore
    <3>2. TypedLife'
      BY DEF Typed, TypedLife, writeAnswered, lifeVars, lockVars, infoVars
    <3>3. TypedKeys'
      BY SMT DEF Typed, TypedKeys, writeAnswered, Completed, keyVars
    <3>4. TypedCalls'
      <4>1. \A a \in Answers : [r EXCEPT !.answer = a] \in Request
        BY <3>a DEF Request
      <4>2. requests' = [requests EXCEPT ![c] = (requests[c] \ {r}) \cup
               {[r EXCEPT !.answer = a] : a \in {answer} \ {"ok", "failed"}}]
        BY DEF writeAnswered
      <4>3. UNCHANGED <<setting, updates>>
        BY DEF writeAnswered, lockVars
      <4>4. requests[c] \subseteq Request
        BY DEF Typed, TypedCalls
      <4> DEFINE R == (requests[c] \ {r}) \cup
               {[r EXCEPT !.answer = a] : a \in {answer} \ {"ok", "failed"}}
      <4>5. R \subseteq Request
        BY <4>1, <4>4
      <4> HIDE DEF R
      <4>6. requests' = [requests EXCEPT ![c] = R]
        BY <4>2 DEF R
      <4> QED BY <4>3, <4>5, <4>6 DEF Typed, TypedCalls
    <3>5. TypedQueue'
      BY DEF Typed, TypedQueue, writeAnswered, infoVars
    <3> QED BY <3>1, <3>2, <3>3, <3>4, <3>5 DEF Typed
  <2>2. CASE writeReturns(c, r)
    <3> USE <2>2
    <3>1. TypedStore'
      BY DEF Typed, TypedStore, writeReturns, storeVars, envVars
    <3>2. TypedLife'
      BY DEF Typed, TypedLife, writeReturns, States, handleWriteErrorLocked,
         lifeVars, lockVars, infoVars
    <3>3. TypedKeys'
      BY DEF Typed, TypedKeys, writeReturns, keyVars
    <3>4. TypedCalls'
      BY DEF Typed, TypedCalls, writeReturns, lockVars, callVars
    <3>5. TypedQueue'
      BY DEF Typed, TypedQueue, writeReturns, infoVars
    <3> QED BY <3>1, <3>2, <3>3, <3>4, <3>5 DEF Typed
  <2> QED BY <1>4, <2>1, <2>2
<1>5. ASSUME NEW c \in Contexts,
             (\E now \in Clock : processNewRange(c, now)) \/ checkpoint(c)
     PROVE Typed'
  <2>1. ASSUME NEW now \in Clock, processNewRange(c, now)
        PROVE Typed'
    <3> USE <2>1
    <3> DEFINE least == MinScheduledTime(c, now + TimeShift)
    <3>a. least \in Nat
      <4>1. now + TimeShift \in Nat
        BY ShardAssumption, SMT
      <4> QED BY <4>1, MinScheduledTimeFacts
    <3>1. TypedStore'
      BY DEF Typed, TypedStore, processNewRange, storeVars
    <3>2. TypedLife'
      BY DEF Typed, TypedLife, processNewRange, lifeVars, lockVars, infoVars
    <3>3. TypedKeys'
      <4>1. minTime' = [minTime EXCEPT ![c] = least]
        BY DEF processNewRange
      <4>2. UNCHANGED <<next, max, pending, inflight>>
        BY DEF processNewRange
      <4> HIDE DEF least
      <4> QED BY <3>a, <4>1, <4>2 DEF Typed, TypedKeys
    <3>4. TypedCalls'
      BY DEF Typed, TypedCalls, processNewRange, lockVars, callVars
    <3>5. TypedQueue'
      <4> DEFINE high == Greater(queue[c].high, Watermark(c, least))
      <4>1. high \in Nat
        <5>1. Watermark(c, least) \in Nat
          BY <3>a, WatermarkFacts
        <5>2. queue[c].high \in Nat
          BY DEF Typed, TypedQueue
        <5> QED BY <5>1, <5>2 DEF Greater
      <4>2. /\ queue' = [queue EXCEPT ![c].high = high,
                         ![c].done = IF state[c] = "acquired" THEN high ELSE @]
            /\ UNCHANGED info
        BY DEF processNewRange, infoVars
      <4> HIDE DEF high
      <4> QED BY <4>1, <4>2 DEF Typed, TypedQueue
    <3> QED BY <3>1, <3>2, <3>3, <3>4, <3>5 DEF Typed
  <2>2. CASE checkpoint(c)
    <3> USE <2>2
    <3> DEFINE new == [info[c] EXCEPT !.done = queue[c].done, !.high = queue[c].high]
    <3>a. new \in ShardInfo
      <4>1. info[c] \in ShardInfo /\ queue[c] \in [done : Nat, high : Nat, deleted : Nat]
        BY DEF Typed, TypedQueue
      <4>2. queue[c].done \in Nat /\ queue[c].high \in Nat
        BY <4>1
      <4> QED BY <4>1, <4>2 DEF ShardInfo
    <3>1. TypedStore'
      BY ShardAssumption, SMT
         DEF Typed, TypedStore, checkpoint, Fault, storeVars,
         envVars
    <3>2. TypedLife'
      BY DEF Typed, TypedLife, checkpoint, lifeVars, lockVars, infoVars
    <3>3. TypedKeys'
      BY DEF Typed, TypedKeys, checkpoint, keyVars
    <3>4. TypedCalls'
      <4>1. \/ updates' = updates
            \/ updates' = [updates EXCEPT ![c] = {[prev |-> new.rangeID, info |-> new]}]
        BY DEF checkpoint, SetQueueState
      <4>2. UNCHANGED <<setting, requests>>
        BY DEF checkpoint, lockVars
      <4>3. [prev |-> new.rangeID, info |-> new] \in ShardUpdate
        BY <3>a DEF ShardUpdate, ShardInfo
      <4> HIDE DEF new
      <4> QED BY <4>1, <4>2, <4>3 DEF Typed, TypedCalls
    <3>5. TypedQueue'
      <4>1. info' = info \/ info' = [info EXCEPT ![c] = new]
        BY DEF checkpoint, SetQueueState
      <4>2. queue' = queue \/ queue' = [queue EXCEPT ![c].deleted = queue[c].done]
        BY DEF checkpoint
      <4> HIDE DEF new
      <4> QED BY <3>a, <4>1, <4>2 DEF Typed, TypedQueue
    <3> QED BY <3>1, <3>2, <3>3, <3>4, <3>5 DEF Typed
  <2> QED BY <1>5, <2>1, <2>2
<1>6. ASSUME NEW c \in Contexts, NEW u \in updates[c],
             \/ UpdateShardCommits(c, u)
             \/ \E answer \in Answers : UpdateShardFails(c, u, answer)
     PROVE Typed'
  <2>1. CASE UpdateShardCommits(c, u)
    <3> USE <2>1
    <3>1. TypedStore'
      <4>1. row' = u.info
        BY DEF UpdateShardCommits
      <4>2. UNCHANGED <<category, stored, lateWrites, lateUpdates, executed, calls,
                        faults>>
        BY DEF UpdateShardCommits, envVars
      <4>3. u.info \in ShardInfo
        BY SMT DEF Typed, TypedCalls, ShardUpdate
      <4> QED BY <4>1, <4>2, <4>3 DEF Typed, TypedStore
    <3>2. TypedLife'
      BY DEF Typed, TypedLife, UpdateShardCommits, lifeVars, lockVars,
         infoVars
    <3>3. TypedKeys'
      BY DEF Typed, TypedKeys, UpdateShardCommits, keyVars
    <3>4. TypedCalls'
      BY DEF Typed, TypedCalls, UpdateShardCommits, lockVars, callVars
    <3>5. TypedQueue'
      BY DEF Typed, TypedQueue, UpdateShardCommits, infoVars
    <3> QED BY <3>1, <3>2, <3>3, <3>4, <3>5 DEF Typed
  <2>2. ASSUME NEW answer \in Answers, UpdateShardFails(c, u, answer)
        PROVE Typed'
    <3> USE <2>2
    <3>1. TypedStore'
      <4>1. lateUpdates' \subseteq lateUpdates \cup {u}
        BY DEF UpdateShardFails, TimesOut
      <4>2. faults' = faults \/ (faults < MaxFaults /\ faults' = faults + 1)
        BY DEF UpdateShardFails, Fault
      <4>3. UNCHANGED <<category, row, stored, lateWrites, executed, calls>>
        BY DEF UpdateShardFails
      <4>4. u \in ShardUpdate
        BY DEF Typed, TypedCalls
      <4> QED BY <4>1, <4>2, <4>3, <4>4, ShardAssumption, SMT
                 DEF Typed, TypedStore
    <3>2. TypedLife'
      BY DEF Typed, TypedLife, UpdateShardFails, States, handleWriteErrorLocked,
         lifeVars, lockVars, infoVars
    <3>3. TypedKeys'
      BY DEF Typed, TypedKeys, UpdateShardFails, keyVars
    <3>4. TypedCalls'
      BY DEF Typed, TypedCalls, UpdateShardFails, lockVars, callVars
    <3>5. TypedQueue'
      BY DEF Typed, TypedQueue, UpdateShardFails, infoVars
    <3> QED BY <3>1, <3>2, <3>3, <3>4, <3>5 DEF Typed
  <2> QED BY <1>6, <2>1, <2>2
<1>7. ASSUME NEW w \in lateWrites, lateWriteLands(w) PROVE Typed'
  <2> USE <1>7
  <2>1. TypedStore'
    BY DEF Typed, TypedStore, lateWriteLands, storeVars, envVars
  <2>2. TypedLife'
    BY DEF Typed, TypedLife, lateWriteLands, lifeVars, lockVars, infoVars
  <2>3. TypedKeys'
    BY DEF Typed, TypedKeys, lateWriteLands, keyVars
  <2>4. TypedCalls'
    BY DEF Typed, TypedCalls, lateWriteLands, lockVars, callVars
  <2>5. TypedQueue'
    BY DEF Typed, TypedQueue, lateWriteLands, infoVars
  <2> QED BY <2>1, <2>2, <2>3, <2>4, <2>5 DEF Typed
<1>8. ASSUME NEW u \in lateUpdates, lateUpdateLands(u) PROVE Typed'
  <2> USE <1>8
  <2>1. TypedStore'
    <3>1. row' = u.info
      BY DEF lateUpdateLands
    <3>2. UNCHANGED <<category, stored, executed, calls, faults>>
      BY DEF lateUpdateLands, envVars
    <3>3. u.info \in ShardInfo
      BY DEF Typed, TypedStore, ShardUpdate
    <3>4. lateWrites' \subseteq lateWrites /\ lateUpdates' \subseteq lateUpdates
      BY DEF lateUpdateLands, FenceLateCalls
    <3> QED BY <3>1, <3>2, <3>3, <3>4 DEF Typed, TypedStore
  <2>2. TypedLife'
    BY DEF Typed, TypedLife, lateUpdateLands, lifeVars, lockVars, infoVars
  <2>3. TypedKeys'
    BY DEF Typed, TypedKeys, lateUpdateLands, keyVars
  <2>4. TypedCalls'
    BY DEF Typed, TypedCalls, lateUpdateLands, lockVars, callVars
  <2>5. TypedQueue'
    BY DEF Typed, TypedQueue, lateUpdateLands, infoVars
  <2> QED BY <2>1, <2>2, <2>3, <2>4, <2>5 DEF Typed
<1>9. CASE UNCHANGED vars
  BY <1>9, TypedFrame DEF vars
<1> QED BY <1>1, <1>2, <1>3, <1>4, <1>5, <1>6, <1>7, <1>8, <1>9
        DEF Next, ContextStep

-----------------------------------------------------------------------------
(* The life of a context *)

\* Initially no context has been started.
LEMMA LifeInit == Init => LifeInv
<1> SUFFICES ASSUME Init, NEW c \in Contexts PROVE Life(c)
  BY DEF LifeInv
<1>1. /\ state[c] = "initialized" /\ acq[c] = "none" /\ engine[c] = "none"
      /\ lock[c] = "none"
  BY DEF Init
<1>2. max[c] = 0 /\ next[c] = 0
  BY DEF Init
<1>3. requests[c] = {} /\ updates[c] = {}
  BY DEF Init
<1>4. setting[c].tasks = {}
  BY DEF Init, NotSetting
<1> QED BY <1>1, <1>2, <1>3, <1>4 DEF Life

\* A context that a step leaves alone.
LEMMA LifeSame ==
    ASSUME NEW d, Life(d), SameLife(d)
    PROVE Life(d)'
BY DEF Life, SameLife

\* A step of context c leaves the other contexts alone.
LEMMA LifeStep ==
    ASSUME NEW c \in Contexts, LifeInv, Life(c)',
           \A d \in Contexts : d # c => SameLife(d)
    PROVE LifeInv'
BY LifeSame DEF LifeInv

\* A step that leaves all of it alone.
LEMMA LifeFrame ==
    ASSUME LifeInv, UNCHANGED <<lifeVars, loaded, next, max, lockVars, callVars>>
    PROVE LifeInv'
<1>1. UNCHANGED <<state, acq, engine, loaded, next, max, lock, setting, requests,
                  updates>>
  BY DEF lifeVars, lockVars, callVars
<1>2. \A d \in Contexts : SameLife(d)
  BY <1>1 DEF SameLife
<1> QED BY <1>2, LifeSame DEF LifeInv

\* start, acquireShard and FinishStop keep acquireShard, the lock, the engine and
\* the state of a context in line.
LEMMA LifeAcquire ==
    ASSUME Typed, LifeInv, NEW c \in Contexts,
           \/ start(c) \/ loadShardMetadata(c) \/ loadShardMetadataFails(c)
           \/ acquireShardGivesUp(c) \/ transitionAcquired(c) \/ FinishStop(c)
    PROVE LifeInv'
<1>1. UNCHANGED <<next, max, setting, requests, updates>>
  BY DEF start, loadShardMetadata, loadShardMetadataFails,
       acquireShardGivesUp, transitionAcquired, FinishStop, keyVars, lockVars,
       callVars
<1>2. Life(c)
  BY DEF LifeInv
<1>3. /\ state \in [Contexts -> States] /\ state[c] \in States
      /\ acq \in [Contexts -> {"none", "load", "renew", "engine", "retry"}]
      /\ engine \in [Contexts -> {"none", "started", "set", "stopped"}]
      /\ lock \in [Contexts -> {"none", "acquire", "write", "id"}]
      /\ loaded \in [Contexts -> BOOLEAN]
  BY DEF Typed, TypedLife
<1>4. CASE start(c)
  <2>1. UNCHANGED <<engine, lock, loaded>>
    BY <1>4 DEF start, infoVars, lockVars
  <2>2. /\ state[c] = "initialized"
        /\ state' = [state EXCEPT ![c] = "acquiring"]
        /\ acq' = [acq EXCEPT ![c] = "load"]
    BY <1>4 DEF start
  <2>3. /\ state'[c] = "acquiring" /\ acq'[c] = "load"
        /\ \A d \in Contexts : d # c => state'[d] = state[d] /\ acq'[d] = acq[d]
    BY <1>3, <2>2
  <2>4. Life(c)'
    BY <1>1, <1>2, <2>1, <2>2, <2>3 DEF Life
  <2>5. \A d \in Contexts : d # c => SameLife(d)
    BY <1>1, <2>1, <2>3 DEF SameLife
  <2> QED BY <2>4, <2>5, LifeStep
<1>5. CASE loadShardMetadata(c)
  <2>1. UNCHANGED <<state, engine>>
    BY <1>5 DEF loadShardMetadata
  <2>2. /\ acq[c] \in {"load", "retry"} /\ lock[c] = "none"
        /\ acq' = [acq EXCEPT ![c] = "renew"]
        /\ lock' = [lock EXCEPT ![c] = "acquire"]
    BY <1>5 DEF loadShardMetadata, Free
  <2>3. \/ loaded[c] /\ loaded' = loaded
        \/ loaded' = [loaded EXCEPT ![c] = TRUE]
    BY <1>5 DEF loadShardMetadata, infoVars
  <2>4. /\ acq'[c] = "renew" /\ lock'[c] = "acquire"
        /\ \A d \in Contexts : d # c => acq'[d] = acq[d] /\ lock'[d] = lock[d]
    BY <1>3, <2>2
  <2>5. loaded'[c] /\ \A d \in Contexts : d # c => loaded'[d] = loaded[d]
    BY <1>3, <2>3
  <2>6. Life(c)'
    BY <1>1, <1>2, <2>1, <2>2, <2>4, <2>5 DEF Life
  <2>7. \A d \in Contexts : d # c => SameLife(d)
    BY <1>1, <2>1, <2>4, <2>5 DEF SameLife
  <2> QED BY <2>6, <2>7, LifeStep
<1>6. CASE loadShardMetadataFails(c)
  <2>1. UNCHANGED <<state, engine, lock, loaded>>
    BY <1>6 DEF loadShardMetadataFails, infoVars, lockVars
  <2>2. /\ acq[c] \in {"load", "retry"} /\ state[c] # "initialized"
        /\ acq' = [acq EXCEPT ![c] = "retry"]
    BY <1>2, <1>6 DEF loadShardMetadataFails, Life
  <2>3. /\ acq'[c] = "retry"
        /\ \A d \in Contexts : d # c => acq'[d] = acq[d]
    BY <1>3, <2>2
  <2>4. Life(c)'
    BY <1>1, <1>2, <2>1, <2>2, <2>3 DEF Life
  <2>5. \A d \in Contexts : d # c => SameLife(d)
    BY <1>1, <2>1, <2>3 DEF SameLife
  <2> QED BY <2>4, <2>5, LifeStep
<1>7. CASE acquireShardGivesUp(c)
  <2>1. UNCHANGED <<engine, lock, loaded>>
    BY <1>7 DEF acquireShardGivesUp, infoVars, lockVars
  <2>2. /\ acq[c] \in {"load", "retry"}
        /\ acq' = [acq EXCEPT ![c] = "none"]
        /\ state' = [state EXCEPT ![c] = IF Valid(c) THEN "stopping" ELSE @]
    BY <1>7 DEF acquireShardGivesUp
  <2>3. /\ acq'[c] = "none"
        /\ state'[c] = IF Valid(c) THEN "stopping" ELSE state[c]
        /\ \A d \in Contexts : d # c => acq'[d] = acq[d] /\ state'[d] = state[d]
    BY <1>3, <2>2
  <2>4. state'[c] = "stopping" \/ (state'[c] = "stopped" /\ state[c] = "stopped")
    BY <1>3, <2>3 DEF Valid, States
  <2>5. Life(c)'
    BY <1>1, <1>2, <2>1, <2>2, <2>3, <2>4 DEF Life
  <2>6. \A d \in Contexts : d # c => SameLife(d)
    BY <1>1, <2>1, <2>3 DEF SameLife
  <2> QED BY <2>5, <2>6, LifeStep
<1>8. CASE transitionAcquired(c)
  <2>1. UNCHANGED <<lock, loaded>>
    BY <1>8 DEF transitionAcquired, infoVars, lockVars
  <2>2. acq[c] = "engine" /\ acq' = [acq EXCEPT ![c] = "none"]
    BY <1>8 DEF transitionAcquired
  <2>3. /\ acq'[c] = "none"
        /\ \A d \in Contexts : d # c => acq'[d] = acq[d]
    BY <1>3, <2>2
  <2>4. CASE state[c] = "acquiring"
    <3>1. /\ state' = [state EXCEPT ![c] = "acquired"]
          /\ engine' = [engine EXCEPT ![c] = "set"]
      BY <1>8, <2>4 DEF transitionAcquired
    <3>2. /\ state'[c] = "acquired" /\ engine'[c] = "set"
          /\ \A d \in Contexts : d # c => /\ state'[d] = state[d]
                                          /\ engine'[d] = engine[d]
      BY <1>3, <3>1
    <3>3. Life(c)'
      BY <1>1, <1>2, <2>1, <2>2, <2>3, <3>2 DEF Life
    <3>4. \A d \in Contexts : d # c => SameLife(d)
      BY <1>1, <2>1, <2>3, <3>2 DEF SameLife
    <3> QED BY <3>3, <3>4, LifeStep
  <2>5. CASE state[c] # "acquiring"
    <3>1. /\ state' = state
          /\ \/ engine[c] = "started" /\ engine' = [engine EXCEPT ![c] = "stopped"]
             \/ engine[c] # "started" /\ engine' = engine
      BY <1>8, <2>5 DEF transitionAcquired, StopEngine
    <3>2. /\ \/ engine[c] = "started" /\ engine'[c] = "stopped"
             \/ engine[c] # "started" /\ engine'[c] = engine[c]
          /\ \A d \in Contexts : d # c => engine'[d] = engine[d]
      BY <1>3, <3>1
    <3>3. state[c] \in {"acquired", "stopping", "stopped"}
      BY <1>2, <1>3, <2>2, <2>5 DEF Life, States
    <3>4. Life(c)'
      BY <1>1, <1>2, <2>1, <2>2, <2>3, <3>1, <3>2, <3>3 DEF Life
    <3>5. \A d \in Contexts : d # c => SameLife(d)
      BY <1>1, <2>1, <2>3, <3>1, <3>2 DEF SameLife
    <3> QED BY <3>4, <3>5, LifeStep
  <2> QED BY <2>4, <2>5
<1>9. CASE FinishStop(c)
  <2>1. UNCHANGED <<acq, lock, loaded>>
    BY <1>9 DEF FinishStop, infoVars, lockVars
  <2>2. /\ state[c] \in {"acquiring", "acquired", "stopping"}
        /\ state' = [state EXCEPT ![c] = "stopped"]
    BY <1>9 DEF FinishStop
  <2>3. \/ engine[c] = "set" /\ engine' = [engine EXCEPT ![c] = "stopped"]
        \/ engine[c] # "set" /\ engine' = engine
    BY <1>9 DEF FinishStop, StopEngine
  <2>4. /\ state'[c] = "stopped"
        /\ \A d \in Contexts : d # c => state'[d] = state[d]
    BY <1>3, <2>2
  <2>5. /\ \/ engine[c] = "set" /\ engine'[c] = "stopped"
           \/ engine[c] # "set" /\ engine'[c] = engine[c]
        /\ \A d \in Contexts : d # c => engine'[d] = engine[d]
    BY <1>3, <2>3
  <2>6. Life(c)'
    BY <1>1, <1>2, <2>1, <2>4, <2>5 DEF Life
  <2>7. \A d \in Contexts : d # c => SameLife(d)
    BY <1>1, <2>1, <2>4, <2>5 DEF SameLife
  <2> QED BY <2>6, <2>7, LifeStep
<1> QED BY <1>4, <1>5, <1>6, <1>7, <1>8, <1>9

\* What handleWriteErrorLocked makes of the state of a context and acquireShard.
LEMMA WriteErrorLife ==
    ASSUME Typed, NEW c \in Contexts, NEW range, NEW answer,
           NEW a \in {"none", "load", "renew", "engine", "retry"},
           handleWriteErrorLocked(c, range, answer, a)
    PROVE /\ \A d \in Contexts : d # c => state'[d] = state[d] /\ acq'[d] = acq[d]
          /\ \/ state'[c] = state[c] /\ acq'[c] = a
             \/ state[c] = "acquired" /\ state'[c] = "acquiring" /\ acq'[c] = "load"
             \/ state'[c] = "stopping" /\ acq'[c] = a
<1>1. /\ state \in [Contexts -> States]
      /\ acq \in [Contexts -> {"none", "load", "renew", "engine", "retry"}]
  BY DEF Typed, TypedLife
<1> DEFINE heed == range = info[c].rangeID /\ Valid(c)
           lost == heed /\ answer = "unknown" /\ state[c] = "acquired"
           stop == heed /\ answer = "ownershipLost"
<1>2. /\ state' = [state EXCEPT ![c] = IF stop THEN "stopping"
                                       ELSE IF lost THEN "acquiring" ELSE @]
      /\ acq' = [acq EXCEPT ![c] = IF lost THEN "load" ELSE a]
  BY DEF handleWriteErrorLocked
<1>3. (lost => ~stop) /\ (lost => state[c] = "acquired")
  OBVIOUS
<1> HIDE DEF lost, stop
<1> QED BY <1>1, <1>2, <1>3

\* renewRangeLocked keeps acquireShard, the lock, the engine and the state of a
\* context in line.
LEMMA LifeRenew ==
    ASSUME Typed, LifeInv, NEW c \in Contexts,
           \/ renewRangeGranted(c)
           \/ \E answer \in Answers : renewRangeRefused(c, answer)
    PROVE LifeInv'
<1>1. Life(c)
  BY DEF LifeInv
<1>2. /\ acq \in [Contexts -> {"none", "load", "renew", "engine", "retry"}]
      /\ engine \in [Contexts -> {"none", "started", "set", "stopped"}]
      /\ lock \in [Contexts -> {"none", "acquire", "write", "id"}]
  BY DEF Typed, TypedLife
<1>3. CASE renewRangeGranted(c)
  <2>1. UNCHANGED <<state, loaded, setting, requests, updates>>
    BY <1>3 DEF renewRangeGranted, callVars
  <2> DEFINE new == [info[c] EXCEPT !.rangeID = @ + 1]
  <2>2. /\ next' = [next EXCEPT ![c] = FirstId(new.rangeID)]
        /\ max' = [max EXCEPT ![c] = FirstId(new.rangeID + 1)]
    BY <1>3 DEF renewRangeGranted, setRangeID, FirstId
  <2>3. new.rangeID \in Nat
    BY SMT DEF Typed, TypedQueue, ShardInfo
  <2> HIDE DEF new
  <2>4. FirstId(new.rangeID + 1) # 0
    BY <2>3, FirstIdFacts
  <2>5. /\ max'[c] # 0
        /\ \A d \in Contexts : d # c => max'[d] = max[d] /\ next'[d] = next[d]
    BY <2>2, <2>4 DEF Typed, TypedKeys
  <2>6. lock[c] # "none"
    BY <1>3 DEF renewRangeGranted, Renewing
  <2>7. loaded[c]
    BY <1>1, <2>6 DEF Life
  <2>8. CASE lock[c] = "acquire"
    <3>1. /\ lock' = [lock EXCEPT ![c] = "none"]
          /\ acq' = [acq EXCEPT ![c] = "engine"]
      BY <1>3, <2>8 DEF renewRangeGranted
    <3>2. \/ engine[c] = "none" /\ engine' = [engine EXCEPT ![c] = "started"]
          \/ engine[c] # "none" /\ engine' = engine
      BY <1>3, <2>8 DEF renewRangeGranted, createEngine
    <3>3. /\ lock'[c] = "none" /\ acq'[c] = "engine"
          /\ \A d \in Contexts : d # c => lock'[d] = lock[d] /\ acq'[d] = acq[d]
      BY <1>2, <3>1
    <3>4. /\ \/ engine[c] = "none" /\ engine'[c] = "started"
             \/ engine[c] # "none" /\ engine'[c] = engine[c]
          /\ \A d \in Contexts : d # c => engine'[d] = engine[d]
      BY <1>2, <3>2
    <3>5. Life(c)'
      BY <1>1, <2>1, <2>5, <2>7, <2>8, <3>3, <3>4 DEF Life
    <3>6. \A d \in Contexts : d # c => SameLife(d)
      BY <2>1, <2>5, <3>3, <3>4 DEF SameLife
    <3> QED BY <3>5, <3>6, LifeStep
  <2>9. CASE lock[c] # "acquire"
    <3>1. engine' = engine
      BY <1>3, <2>9 DEF renewRangeGranted
    <3>2. /\ lock' = [lock EXCEPT ![c] = lock[c]]
          /\ acq' = [acq EXCEPT ![c] = acq[c]]
      BY <1>3, <2>9 DEF renewRangeGranted
    <3>3. lock' = lock /\ acq' = acq
      BY <1>2, <3>2
    <3>4. Life(c)'
      BY <1>1, <2>1, <2>5, <2>7, <3>1, <3>3 DEF Life
    <3>5. \A d \in Contexts : d # c => SameLife(d)
      BY <2>1, <2>5, <3>1, <3>3 DEF SameLife
    <3> QED BY <3>4, <3>5, LifeStep
  <2> QED BY <2>8, <2>9
<1>4. ASSUME NEW answer \in Answers, renewRangeRefused(c, answer)
      PROVE LifeInv'
  <2>1. UNCHANGED <<engine, loaded, next, max, requests, updates>>
    BY <1>4 DEF renewRangeRefused, infoVars, keyVars, callVars
  <2>2. /\ lock' = [lock EXCEPT ![c] = "none"]
        /\ setting' = [setting EXCEPT ![c] = NotSetting]
    BY <1>4 DEF renewRangeRefused
  <2>3. /\ lock'[c] = "none"
        /\ \A d \in Contexts : d # c => lock'[d] = lock[d]
    BY <1>2, <2>2
  <2>4. /\ setting'[c].tasks = {}
        /\ \A d \in Contexts : d # c => setting'[d] = setting[d]
    BY <2>2 DEF Typed, TypedCalls, NotSetting
  <2> DEFINE a == IF lock[c] = "acquire" THEN "retry" ELSE acq[c]
  <2>5. handleWriteErrorLocked(c, info[c].rangeID, answer, a)
    BY <1>4 DEF renewRangeRefused
  <2>6. a \in {"none", "load", "renew", "engine", "retry"}
    BY <1>2
  <2>7. \/ lock[c] = "acquire" /\ a = "retry"
        \/ lock[c] # "acquire" /\ a = acq[c]
    OBVIOUS
  <2> HIDE DEF a
  <2>8. /\ \A d \in Contexts : d # c => state'[d] = state[d] /\ acq'[d] = acq[d]
        /\ \/ state'[c] = state[c] /\ acq'[c] = a
           \/ state[c] = "acquired" /\ state'[c] = "acquiring" /\ acq'[c] = "load"
           \/ state'[c] = "stopping" /\ acq'[c] = a
    BY <2>5, <2>6, WriteErrorLife
  <2>9. Life(c)'
    BY <1>1, <2>1, <2>3, <2>4, <2>7, <2>8 DEF Life
  <2>10. \A d \in Contexts : d # c => SameLife(d)
    BY <2>1, <2>3, <2>4, <2>8 DEF SameLife
  <2> QED BY <2>9, <2>10, LifeStep
<1> QED BY <1>3, <1>4

\* Giving away task ids keeps acquireShard, the lock, the engine and the state of
\* a context in line.
LEMMA LifeKeys ==
    ASSUME Typed, LifeInv, NEW c \in Contexts, KeysGiven(c)
    PROVE LifeInv'
<1>1. Life(c)
  BY DEF LifeInv
<1>2. UNCHANGED <<state, acq, engine, loaded, max, updates>>
  BY DEF KeysGiven, lifeVars, infoVars
<1>3. max[c] # 0 /\ lock[c] # "acquire"
  BY DEF KeysGiven
<1>4. \E n : next' = [next EXCEPT ![c] = n]
  BY DEF KeysGiven, Assigns
<1>5. requests' = requests \/ \E R : requests' = [requests EXCEPT ![c] = R]
  BY DEF KeysGiven, Tracked, Waits
<1>6. \/ /\ lock' = [lock EXCEPT ![c] = "none"]
         /\ setting' = [setting EXCEPT ![c] = NotSetting]
      \/ /\ lock' = [lock EXCEPT ![c] = "write"]
         /\ \E s : setting' = [setting EXCEPT ![c] = s]
  BY DEF KeysGiven, Tracked, Waits
<1>7. \A d \in Contexts : d # c => next'[d] = next[d]
  BY <1>4 DEF Typed, TypedKeys
<1>8. \A d \in Contexts : d # c => requests'[d] = requests[d]
  BY <1>5 DEF Typed, TypedCalls
<1>9. /\ lock'[c] = "none" \/ lock'[c] = "write"
      /\ \A d \in Contexts : d # c => lock'[d] = lock[d]
  BY <1>6 DEF Typed, TypedLife
<1>10. setting' = [setting EXCEPT ![c] = NotSetting] \/ lock'[c] = "write"
  BY <1>6 DEF Typed, TypedLife
<1>11. setting'[c].tasks = {} \/ lock'[c] = "write"
  BY <1>10, SMT DEF Typed, TypedCalls, NotSetting
<1>12. \A d \in Contexts : d # c => setting'[d] = setting[d]
  BY <1>6 DEF Typed, TypedCalls
<1>13. Life(c)'
  BY <1>1, <1>2, <1>3, <1>9, <1>11 DEF Life
<1>14. \A d \in Contexts : d # c => SameLife(d)
  BY <1>2, <1>7, <1>8, <1>9, <1>12 DEF SameLife
<1> QED BY <1>13, <1>14, LifeStep

\* The same of a caller that wants nothing but an id.
LEMMA LifeGenerate ==
    ASSUME Typed, LifeInv, NEW c \in Contexts, GenerateTaskID(c)
    PROVE LifeInv'
<1>1. Life(c)
  BY DEF LifeInv
<1>2. UNCHANGED <<state, acq, engine, loaded, max, setting, requests, updates>>
  BY DEF GenerateTaskID, lifeVars, infoVars, callVars
<1>3. (lock[c] = "none" /\ engine[c] = "set") \/ lock[c] = "id"
  BY DEF GenerateTaskID, Free
<1>4. \/ lock' = [lock EXCEPT ![c] = "none"] /\ next' = [next EXCEPT ![c] = @ + 1]
      \/ lock' = [lock EXCEPT ![c] = "id"] /\ next' = next
  BY DEF GenerateTaskID
<1>5. /\ lock'[c] = "none" \/ lock'[c] = "id"
      /\ \A d \in Contexts : d # c => lock'[d] = lock[d]
  BY <1>4 DEF Typed, TypedLife
<1>6. \A d \in Contexts : d # c => next'[d] = next[d]
  BY <1>4 DEF Typed, TypedKeys
<1>7. Life(c)'
  BY <1>1, <1>2, <1>3, <1>5 DEF Life
<1>8. \A d \in Contexts : d # c => SameLife(d)
  BY <1>2, <1>5, <1>6 DEF SameLife
<1> QED BY <1>7, <1>8, LifeStep

\* The same of the end of a write.
LEMMA LifeWrite ==
    ASSUME Typed, LifeInv, NEW c \in Contexts, NEW r \in requests[c],
           \/ \E answer \in Answers : writeAnswered(c, r, answer)
           \/ writeReturns(c, r)
    PROVE LifeInv'
<1>1. Life(c) /\ max[c] # 0
  BY DEF LifeInv, Life
<1>2. UNCHANGED <<engine, loaded, next, max, lock, setting, updates>>
  BY DEF writeAnswered, writeReturns, lifeVars, infoVars, keyVars, lockVars
<1>3. \E R : requests' = [requests EXCEPT ![c] = R]
  BY DEF writeAnswered, writeReturns
<1>4. \A d \in Contexts : d # c => requests'[d] = requests[d]
  BY <1>3 DEF Typed, TypedCalls
<1>5. CASE \E answer \in Answers : writeAnswered(c, r, answer)
  <2>1. UNCHANGED <<state, acq>>
    BY <1>5 DEF writeAnswered, lifeVars
  <2>2. Life(c)'
    BY <1>1, <1>2, <2>1 DEF Life
  <2>3. \A d \in Contexts : d # c => SameLife(d)
    BY <1>2, <1>4, <2>1 DEF SameLife
  <2> QED BY <2>2, <2>3, LifeStep
<1>6. CASE writeReturns(c, r)
  <2>1. lock[c] = "none" /\ handleWriteErrorLocked(c, r.range, r.answer, acq[c])
    BY <1>6 DEF writeReturns, Free
  <2>2. acq[c] \in {"none", "load", "renew", "engine", "retry"}
    BY DEF Typed, TypedLife
  <2>3. /\ \A d \in Contexts : d # c => state'[d] = state[d] /\ acq'[d] = acq[d]
        /\ \/ state'[c] = state[c] /\ acq'[c] = acq[c]
           \/ state[c] = "acquired" /\ state'[c] = "acquiring" /\ acq'[c] = "load"
           \/ state'[c] = "stopping" /\ acq'[c] = acq[c]
    BY <2>1, <2>2, WriteErrorLife
  <2>4. Life(c)'
    BY <1>1, <1>2, <2>1, <2>3 DEF Life
  <2>5. \A d \in Contexts : d # c => SameLife(d)
    BY <1>2, <1>4, <2>3 DEF SameLife
  <2> QED BY <2>4, <2>5, LifeStep
<1> QED BY <1>5, <1>6

\* The same of the queues and of UpdateShard calls.
LEMMA LifeQueue ==
    ASSUME Typed, LifeInv, NEW c \in Contexts,
           \/ \E now \in Clock : processNewRange(c, now)
           \/ checkpoint(c)
           \/ \E u \in updates[c] :
                 \/ UpdateShardCommits(c, u)
                 \/ \E answer \in Answers : UpdateShardFails(c, u, answer)
    PROVE LifeInv'
<1>1. Life(c)
  BY DEF LifeInv
<1>2. UNCHANGED <<engine, loaded, next, max, lock, setting, requests>>
  BY DEF processNewRange, checkpoint, UpdateShardCommits, UpdateShardFails,
       lifeVars, infoVars, keyVars, lockVars, callVars
<1>3. CASE \E now \in Clock : processNewRange(c, now)
  BY <1>3, LifeFrame DEF processNewRange, infoVars
<1>4. CASE checkpoint(c)
  <2>1. UNCHANGED <<state, acq>> /\ Running(c)
    BY <1>4 DEF checkpoint, lifeVars
  <2>2. updates' = updates \/ \E U : updates' = [updates EXCEPT ![c] = U]
    BY <1>4 DEF checkpoint, SetQueueState
  <2>3. \A d \in Contexts : d # c => updates'[d] = updates[d]
    BY <2>2 DEF Typed, TypedCalls
  <2>4. max[c] # 0
    BY <1>1, <2>1 DEF Life, Running
  <2>5. Life(c)'
    BY <1>1, <1>2, <2>1, <2>4 DEF Life
  <2>6. \A d \in Contexts : d # c => SameLife(d)
    BY <1>2, <2>1, <2>3 DEF SameLife
  <2> QED BY <2>5, <2>6, LifeStep
<1>5. ASSUME NEW u \in updates[c],
             \/ UpdateShardCommits(c, u)
             \/ \E answer \in Answers : UpdateShardFails(c, u, answer)
      PROVE LifeInv'
  <2>1. max[c] # 0
    BY <1>1, <1>5 DEF Life
  <2>2. updates' = [updates EXCEPT ![c] = @ \ {u}]
    BY <1>5 DEF UpdateShardCommits, UpdateShardFails
  <2>3. \A d \in Contexts : d # c => updates'[d] = updates[d]
    BY <2>2 DEF Typed, TypedCalls
  <2>4. CASE UpdateShardCommits(c, u)
    <3>1. UNCHANGED <<state, acq>>
      BY <2>4 DEF UpdateShardCommits, lifeVars
    <3>2. Life(c)'
      BY <1>1, <1>2, <2>1, <3>1 DEF Life
    <3>3. \A d \in Contexts : d # c => SameLife(d)
      BY <1>2, <2>3, <3>1 DEF SameLife
    <3> QED BY <3>2, <3>3, LifeStep
  <2>5. ASSUME NEW answer \in Answers, UpdateShardFails(c, u, answer)
        PROVE LifeInv'
    <3>1. lock[c] = "none" /\ handleWriteErrorLocked(c, u.prev, answer, acq[c])
      BY <2>5 DEF UpdateShardFails, Free
    <3>2. acq[c] \in {"none", "load", "renew", "engine", "retry"}
      BY DEF Typed, TypedLife
    <3>3. /\ \A d \in Contexts : d # c => state'[d] = state[d] /\ acq'[d] = acq[d]
          /\ \/ state'[c] = state[c] /\ acq'[c] = acq[c]
             \/ state[c] = "acquired" /\ state'[c] = "acquiring" /\ acq'[c] = "load"
             \/ state'[c] = "stopping" /\ acq'[c] = acq[c]
      BY <3>1, <3>2, WriteErrorLife
    <3>4. Life(c)'
      BY <1>1, <1>2, <2>1, <3>1, <3>3 DEF Life
    <3>5. \A d \in Contexts : d # c => SameLife(d)
      BY <1>2, <2>3, <3>3 DEF SameLife
    <3> QED BY <3>4, <3>5, LifeStep
  <2> QED BY <1>5, <2>4, <2>5
<1> QED BY <1>3, <1>4, <1>5

\* Every step keeps acquireShard, the lock, the engine and the state in line.
LEMMA LifeNext ==
    ASSUME Typed, LifeInv, [Next]_vars
    PROVE LifeInv'
<1>1. ASSUME NEW c \in Contexts, ContextStep(c) PROVE LifeInv'
  <2>1. ASSUME \/ \E tasks \in Writes[category], now \in Clock :
                     AddTasks(c, tasks, now)
               \/ AddTasksGoesOn(c)
        PROVE LifeInv'
    BY <2>1, AddTasksGivesKeys, AddTasksGoesOnGivesKeys, LifeKeys
  <2> QED BY <1>1, <2>1, LifeAcquire, LifeRenew, LifeGenerate, LifeWrite,
             LifeQueue DEF ContextStep
<1>2. CASE \/ UNCHANGED vars
           \/ \E w \in lateWrites : lateWriteLands(w)
           \/ \E u \in lateUpdates : lateUpdateLands(u)
  <2>1. UNCHANGED <<lifeVars, infoVars, keyVars, lockVars, callVars>>
    BY <1>2 DEF vars, lateWriteLands, lateUpdateLands
  <2> QED BY <2>1, LifeFrame DEF infoVars, keyVars
<1> QED BY <1>1, <1>2 DEF Next

-----------------------------------------------------------------------------
(* The first layers *)

\* The first layers hold initially and are kept by every step.
LEMMA BaseInit == Init => BaseInv
<1>1. Init => CallInv
  BY DEF Init, CallInv
<1> QED BY <1>1, TypedInit, LifeInit DEF BaseInv

\* All of them are kept by every step.
LEMMA BaseNext == BaseInv /\ [Next]_vars => BaseInv'
BY TypedNext, LifeNext, CallNext DEF BaseInv

-----------------------------------------------------------------------------
(* The marks of the queues *)

\* The order of numbers, for leaves whose other facts are not arithmetic.
LEMMA NatOrder ==
    /\ \A n \in Nat : n <= n
    /\ \A l, m, n \in Nat : l <= m /\ m <= n => l <= n
    /\ \A l, m, n \in Nat : l <= m /\ m < n => l <= n
    /\ \A a, b, n \in Nat : a <= n /\ n \notin a..b - 1 => b <= n
BY SMT

\* What the marks are.
LEMMA MarkCases ==
    /\ row \in Marks
    /\ \A c \in Contexts : loaded[c] /\ info[c].rangeID = row.rangeID
         => info[c] \in Marks
    /\ \A c \in Contexts : \A u \in updates[c] : u.prev = row.rangeID
         => u.info \in Marks
    /\ \A u \in lateUpdates : u.info \in Marks
    /\ \A m \in Marks :
         \/ m = row
         \/ \E c \in Contexts : /\ loaded[c] /\ info[c].rangeID = row.rangeID
                                /\ m = info[c]
         \/ \E c \in Contexts : \E u \in updates[c] : u.prev = row.rangeID
                                                      /\ m = u.info
         \/ \E u \in lateUpdates : m = u.info
<1> DEFINE A == {info[c] : c \in {d \in Contexts :
                              loaded[d] /\ info[d].rangeID = row.rangeID}}
           B == {u.info : u \in {v \in Sending : v.prev = row.rangeID}}
           C == {u.info : u \in lateUpdates}
<1>1. \A m : m \in Marks <=> m = row \/ m \in A \/ m \in B \/ m \in C
  BY DEF Marks
<1>2. \A m : m \in A <=> \E c \in Contexts : /\ loaded[c] /\ m = info[c]
                                             /\ info[c].rangeID = row.rangeID
  OBVIOUS
<1>3. \A v : v \in Sending <=> \E c \in Contexts : v \in updates[c]
  BY DEF Sending
<1>4. \A m : m \in B <=> \E u \in Sending : u.prev = row.rangeID /\ m = u.info
  OBVIOUS
<1>5. \A m : m \in C <=> \E u \in lateUpdates : m = u.info
  OBVIOUS
<1> HIDE DEF A, B, C
<1>6. /\ row \in Marks
      /\ \A c \in Contexts : loaded[c] /\ info[c].rangeID = row.rangeID
           => info[c] \in Marks
  BY <1>1, <1>2
<1>7. /\ \A c \in Contexts : \A u \in updates[c] : u.prev = row.rangeID
           => u.info \in Marks
      /\ \A u \in lateUpdates : u.info \in Marks
  BY <1>1, <1>3, <1>4, <1>5
<1>8. ASSUME NEW m \in Marks
      PROVE \/ m = row
            \/ \E c \in Contexts : /\ loaded[c] /\ info[c].rangeID = row.rangeID
                                   /\ m = info[c]
            \/ \E c \in Contexts : \E u \in updates[c] : u.prev = row.rangeID
                                                         /\ m = u.info
            \/ \E u \in lateUpdates : m = u.info
  <2>1. CASE m \in A
    BY <1>2, <2>1
  <2>2. CASE m \in B
    <3>1. PICK u \in Sending : u.prev = row.rangeID /\ m = u.info
      BY <1>4, <2>2
    <3>2. \E c \in Contexts : u \in updates[c]
      BY <1>3
    <3> QED BY <3>1, <3>2
  <2>3. CASE m \in C
    BY <1>5, <2>3
  <2> QED BY <1>1, <2>1, <2>2, <2>3
<1> QED BY <1>6, <1>7, <1>8

\* The same for the next state.
LEMMA MarkCasesNext ==
    \A m \in Marks' :
         \/ m = row'
         \/ \E c \in Contexts : /\ loaded'[c] /\ info'[c].rangeID = row'.rangeID
                                /\ m = info'[c]
         \/ \E c \in Contexts : \E u \in updates'[c] : u.prev = row'.rangeID
                                                       /\ m = u.info
         \/ \E u \in lateUpdates' : m = u.info
<1> DEFINE F == \A m \in Marks :
         \/ m = row
         \/ \E c \in Contexts : /\ loaded[c] /\ info[c].rangeID = row.rangeID
                                /\ m = info[c]
         \/ \E c \in Contexts : \E u \in updates[c] : u.prev = row.rangeID
                                                      /\ m = u.info
         \/ \E u \in lateUpdates : m = u.info
<1>1. F
  BY MarkCases
<1>2. F'
  BY <1>1, PTL
<1> QED BY <1>2

\* The marks change only with what they are taken from.
LEMMA SameMarks ==
    ASSUME UNCHANGED <<row, info, loaded, updates, lateUpdates>>
    PROVE Marks' = Marks
<1>1. Sending' = Sending
  BY DEF Sending
<1> HIDE DEF Sending
<1> QED BY <1>1 DEF Marks

\* Marks, positions and horizons are numbers.
LEMMA MarkTypes ==
    ASSUME Typed
    PROVE /\ \A m \in Marks : m \in ShardInfo /\ m.done \in Nat /\ m.high \in Nat
          /\ \A t \in Task : Position(t) \in Nat
          /\ \A c \in Contexts : Horizon(c) \in Nat
<1>1. row \in ShardInfo /\ \A c \in Contexts : info[c] \in ShardInfo
  BY DEF Typed, TypedStore, TypedQueue
<1>2. /\ \A u \in lateUpdates : u.info \in ShardInfo
      /\ \A c \in Contexts : \A u \in updates[c] : u.info \in ShardInfo
  BY SMT DEF Typed, TypedStore, TypedCalls, ShardUpdate
<1>3. \A m \in Marks : m \in ShardInfo
  BY <1>1, <1>2, MarkCases
<1>4. \A m \in ShardInfo : m.done \in Nat /\ m.high \in Nat
  BY DEF ShardInfo
<1>5. \A t \in Task : Position(t) \in Nat
  BY DEF Task, Position
<1>6. \A c \in Contexts : Horizon(c) \in Nat
  BY DEF Horizon, Typed, TypedKeys
<1> QED BY <1>3, <1>4, <1>5, <1>6

\* What a running queue is above of.
LEMMA RunningFacts ==
    ASSUME Typed, LifeInv, RangeInv, QueueInv, NEW c \in Contexts, Running(c)
    PROVE /\ max[c] # 0 /\ max[c] \in Nat /\ loaded[c]
          /\ queue[c].deleted \in Nat /\ queue[c].done \in Nat
          /\ queue[c].high \in Nat
          /\ queue[c].deleted <= queue[c].done
          /\ queue[c].done <= queue[c].high
          /\ queue[c].high <= Horizon(c)
          /\ category = "immediate" => queue[c].high <= max[c]
<1>1. engine[c] # "none"
  BY DEF Running
<1>2. max[c] # 0 /\ loaded[c]
  BY <1>1 DEF LifeInv, Life
<1>3. /\ queue[c].deleted \in Nat /\ queue[c].done \in Nat
      /\ queue[c].high \in Nat
  BY DEF Typed, TypedQueue
<1>4. max[c] \in Nat /\ next[c] \in Nat /\ next[c] <= max[c]
  BY DEF Typed, TypedKeys
<1>5. /\ queue[c].deleted <= queue[c].done
      /\ queue[c].done <= queue[c].high
      /\ queue[c].high <= Horizon(c)
  BY DEF QueueInv
<1>6. category = "immediate" => queue[c].high <= max[c]
  BY <1>3, <1>4, <1>5, SMT DEF Horizon
<1> QED BY <1>2, <1>3, <1>4, <1>5, <1>6

\* A task that can still be written is above what a running queue has reached,
\* except, for timers, the queue of a context that has lost the range.
LEMMA AboveHigh ==
    ASSUME Typed, LifeInv, RangeInv, QueueInv, BehindInv, NEW c \in Contexts,
           Running(c), Owns(c) \/ category = "immediate",
           NEW t, t \in Late \/ \E d \in Contexts : Owns(d) /\ t \in Live(d)
    PROVE queue[c].high <= Position(t)
<1>1. /\ max[c] # 0 /\ max[c] \in Nat /\ queue[c].high \in Nat
      /\ category = "immediate" => queue[c].high <= max[c]
  BY RunningFacts
<1>2. \A d \in Contexts : Owns(c) /\ Owns(d) => c = d
  BY DEF Owns, RangeInv, OneOwner
<1>3. CASE Owns(c)
  <2>1. t \in Late \/ t \in Live(c)
    BY <1>2, <1>3
  <2> QED BY <1>3, <2>1 DEF QueueInv
<1>4. CASE ~Owns(c)
  <2>1. category = "immediate" /\ max[c] <= t.id
    BY <1>4 DEF BehindInv
  <2>2. t.id \in Nat
    <3>1. Late \subseteq Task /\ \A d \in Contexts : Live(d) \subseteq Task
      BY TaskSets DEF Written
    <3> QED BY <3>1 DEF Task
  <2> QED BY <1>1, <2>1, <2>2, SMT DEF Position
<1> QED BY <1>3, <1>4

\* Positions are the same before and after a step.
LEMMA SamePosition ==
    ASSUME category' = category
    PROVE \A t : Position(t)' = Position(t)
BY DEF Position

\* Horizons after a step are numbers.
LEMMA HorizonNext ==
    ASSUME Typed'
    PROVE \A c \in Contexts : Horizon(c)' \in Nat
BY DEF Horizon, Typed, TypedKeys

\* Steps that write nothing new, move no queue on and bring in no new mark.
LEMMA MarksKept ==
    ASSUME BaseInv, Typed', RangeInv, MarksInv,
           category' = category, row'.rangeID = row.rangeID, max' = max,
           \A d \in Contexts : Owns(d)' <=> Owns(d),
           \A d \in Contexts : Live(d)' \subseteq Live(d),
           \A d \in Contexts : Unanswered(d)' \subseteq Unanswered(d),
           \A d \in Contexts : pending[d] \subseteq pending'[d],
           \A d \in Contexts : Horizon(d) <= Horizon(d)',
           lateWrites' \subseteq lateWrites, stored' \subseteq stored \cup Late,
           executed \subseteq executed',
           \A m \in Marks' : \E k \in Marks : m.done = k.done /\ m.high = k.high,
           \A d \in Contexts : Running(d)' => Running(d) /\ queue'[d] = queue[d],
           category = "scheduled" => \A d \in Contexts :
               loaded'[d] /\ engine'[d] = "none" => info'[d].high <= minTime'[d]
    PROVE MarksInv'
<1>1. /\ PendingInv /\ QueueInv /\ BehindInv /\ CoverInv /\ BoundInv /\ DeletedInv
      /\ Typed /\ LifeInv
  BY DEF MarksInv, BaseInv
<1>2. \A t : Position(t)' = Position(t)
  BY SamePosition
<1>3. Late' \subseteq Late
  BY DEF Late
<1>4. /\ \A d \in Contexts : Horizon(d) \in Nat /\ Horizon(d)' \in Nat
      /\ \A m \in Marks : m.done \in Nat
  BY <1>1, MarkTypes, HorizonNext
<1>5. \A t \in Late : Position(t) \in Nat
  BY <1>1, TaskSets, MarkTypes DEF Written
<1>6. PendingInv'
  <2>1. \A ts : LeastKeys(ts)' = LeastKeys(ts)
    BY <1>2 DEF LeastKeys, KeyLeq
  <2> QED BY <1>1, <2>1 DEF PendingInv
<1>7. QueueInv'
  <2> SUFFICES ASSUME NEW d \in Contexts, Running(d)'
               PROVE /\ queue'[d].deleted <= queue'[d].done
                     /\ queue'[d].done <= queue'[d].high
                     /\ queue'[d].high <= Horizon(d)'
                     /\ \A t \in Live(d)' : queue'[d].high <= Position(t)'
                     /\ Owns(d)' => \A t \in Late' : queue'[d].high <= Position(t)'
    BY DEF QueueInv
  <2>1. Running(d) /\ queue'[d] = queue[d]
    OBVIOUS
  <2>2. /\ queue[d].deleted <= queue[d].done
        /\ queue[d].done <= queue[d].high
        /\ queue[d].high <= Horizon(d) /\ queue[d].high \in Nat
    BY <1>1, <2>1, RunningFacts
  <2>3. queue[d].high <= Horizon(d)'
    BY <1>4, <2>2, SMT
  <2>4. \A t \in Live(d)' : queue[d].high <= Position(t)'
    BY <1>1, <1>2, <2>1 DEF QueueInv
  <2>5. Owns(d)' => \A t \in Late' : queue'[d].high <= Position(t)'
    BY <1>1, <1>2, <1>3, <2>1 DEF QueueInv
  <2> QED BY <2>1, <2>2, <2>3, <2>4, <2>5
<1>8. BehindInv'
  BY <1>1, <1>3 DEF BehindInv
<1>9. CoverInv'
  <2> SUFFICES ASSUME NEW m \in Marks' PROVE Covers(m)'
    BY DEF CoverInv
  <2>1. PICK k \in Marks : m.done = k.done /\ m.high = k.high
    OBVIOUS
  <2>2. Covers(k) /\ k.done \in Nat
    BY <1>1, <1>4 DEF CoverInv
  <2>3. \A t \in stored' \cup Late' : m.done <= Position(t)'
    BY <1>2, <1>3, <2>1, <2>2 DEF Covers
  <2>4. ASSUME NEW d \in Contexts, Owns(d)'
        PROVE m.done <= Horizon(d)' /\ \A t \in Live(d)' : m.done <= Position(t)'
    <3>1. m.done <= Horizon(d)'
      BY <1>4, <2>1, <2>2, <2>4, SMT DEF Covers
    <3>2. \A t \in Live(d)' : m.done <= Position(t)'
      BY <1>2, <2>1, <2>2, <2>4 DEF Covers
    <3> QED BY <3>1, <3>2
  <2>5. m.done <= m.high
    BY <2>1, <2>2 DEF Covers
  <2> QED BY <2>3, <2>4, <2>5 DEF Covers
<1>10. BoundInv'
  BY <1>1 DEF BoundInv
<1>11. DeletedInv'
  <2> SUFFICES ASSUME NEW d \in Contexts, Running(d)', NEW t \in stored'
               PROVE /\ Owns(d)' => queue'[d].deleted <= Position(t)'
                     /\ category' = "immediate" =>
                          (Position(t)' \in queue'[d].deleted..queue'[d].done - 1
                             => t \in executed')
    BY DEF DeletedInv
  <2>1. Running(d) /\ queue'[d] = queue[d]
    OBVIOUS
  <2>2. CASE t \in stored
    BY <1>1, <1>2, <2>1, <2>2 DEF DeletedInv
  <2>3. CASE t \in Late
    <3>1. Owns(d) \/ category = "immediate" => queue[d].high <= Position(t)
      BY <1>1, <2>1, <2>3, AboveHigh
    <3>2. /\ queue[d].deleted \in Nat /\ queue[d].done \in Nat
          /\ queue[d].high \in Nat
          /\ queue[d].deleted <= queue[d].done
          /\ queue[d].done <= queue[d].high
      BY <1>1, <2>1, RunningFacts
    <3>3. Position(t) \in Nat /\ Position(t)' = Position(t)
      BY <1>2, <1>5, <2>3
    <3> QED BY <2>1, <3>1, <3>2, <3>3, SMT
  <2> QED BY <2>2, <2>3
<1> QED BY <1>6, <1>7, <1>8, <1>9, <1>10, <1>11 DEF MarksInv

\* A renewal that commits late leaves a row that covers what is stored, and
\* nobody who could write.
LEMMA MarksLateRenewal ==
    ASSUME BaseInv, Typed', RangeInv, RangeInv', MarksInv, NEW u \in lateUpdates,
           lateUpdateLands(u), u.info.rangeID # u.prev
    PROVE MarksInv'
<1>1. /\ UNCHANGED <<category, stored, executed, info, loaded, next, max, minTime,
                     pending, requests, setting, updates, engine, queue>>
      /\ row' = u.info
      /\ lateWrites' = {w \in lateWrites : w.range = u.info.rangeID}
      /\ lateUpdates' = {v \in lateUpdates : v.prev = u.info.rangeID}
  BY DEF lateUpdateLands, FenceLateCalls, lifeVars, infoVars, keyVars,
     lockVars, callVars, envVars
<1>2. /\ u.prev = row.rangeID /\ row.rangeID \in Nat
      /\ row'.rangeID = row.rangeID + 1
  BY <1>1 DEF RangeInv, LateCalls, BaseInv, Typed, TypedStore, ShardInfo
<1>3. lateWrites' = {} /\ lateUpdates' = {}
  BY <1>1, <1>2 DEF RangeInv, LateCalls
<1>4. Late' = {}
  BY <1>3 DEF Late
<1>5. \A d \in Contexts : info[d].rangeID \in Nat /\ info[d].rangeID <= row.rangeID
  BY DEF RangeInv, RangeOf, BaseInv, Typed, TypedQueue, ShardInfo
<1>6. \A d \in Contexts : ~Owns(d)' /\ info'[d].rangeID # row'.rangeID
  BY <1>1, <1>2, <1>5, SMT DEF Owns
<1>7. \A d \in Contexts : \A v \in updates'[d] : v.prev # row'.rangeID
  <2>1. \A d \in Contexts : \A v \in updates[d] : v.prev <= row.rangeID /\ v.prev \in Nat
    BY SMT DEF RangeInv, RangeOf, BaseInv, Typed, TypedCalls, ShardUpdate
  <2> QED BY <1>1, <1>2, <2>1, SMT
<1>8. \A m \in Marks' : m = u.info
  BY <1>1, <1>3, <1>6, <1>7, MarkCasesNext
<1>9. u.info \in Marks
  BY MarkCases
<1>10. \A t : Position(t)' = Position(t)
  BY <1>1, SamePosition
<1>11. \A d \in Contexts : /\ Live(d)' = Live(d) /\ Unanswered(d)' = Unanswered(d)
                           /\ Horizon(d)' = Horizon(d)
                           /\ Running(d)' <=> Running(d)
  BY <1>1 DEF Live, Unanswered, Horizon, Running
<1>12. PendingInv'
  <2>1. \A ts : LeastKeys(ts)' = LeastKeys(ts)
    BY <1>10 DEF LeastKeys, KeyLeq
  <2> QED BY <1>1, <1>3, <1>11, <2>1 DEF MarksInv, PendingInv
<1>13. QueueInv'
  BY <1>1, <1>6, <1>10, <1>11 DEF MarksInv, QueueInv
<1>14. BehindInv'
  BY <1>4, <1>6 DEF BehindInv
<1>15. CoverInv'
  <2>1. Covers(u.info)
    BY <1>9 DEF MarksInv, CoverInv
  <2>2. Covers(u.info)'
    BY <1>1, <1>4, <1>6, <1>10, <2>1 DEF Covers
  <2> QED BY <1>8, <2>2 DEF CoverInv
<1>16. BoundInv'
  <2>1. category = "immediate" => u.info.high <= FirstId(row.rangeID + 1)
    BY <1>9 DEF MarksInv, BoundInv
  <2>2. FirstId(row.rangeID + 1) < FirstId(row'.rangeID + 1)
        /\ FirstId(row.rangeID + 1) \in Nat /\ FirstId(row'.rangeID + 1) \in Nat
    BY <1>2, FirstIdFacts, SMT
  <2>3. u.info.high \in Nat
    BY <1>9, MarkTypes DEF BaseInv
  <2>4. category = "immediate" => u.info.high <= FirstId(row'.rangeID + 1)
    BY <2>1, <2>2, <2>3, SMT
  <2>5. category' = "immediate" => \A m \in Marks' : m.high <= FirstId(row'.rangeID + 1)
    BY <1>1, <1>8, <2>4
  <2>6. category' = "scheduled" => \A d \in Contexts :
          loaded'[d] /\ engine'[d] = "none" => info'[d].high <= minTime'[d]
    BY <1>1 DEF MarksInv, BoundInv
  <2> QED BY <2>5, <2>6 DEF BoundInv
<1>17. DeletedInv'
  BY <1>1, <1>6, <1>10, <1>11 DEF MarksInv, DeletedInv
<1> QED BY <1>12, <1>13, <1>14, <1>15, <1>16, <1>17 DEF MarksInv

\* Keys are given above the horizon, and above the blocks of other contexts
\* when the giver owns the range.
LEMMA MarksKeysGiven ==
    ASSUME BaseInv, Typed', RangeInv, MarksInv, NEW c \in Contexts, KeysGiven(c)
    PROVE MarksInv'
<1>1. /\ PendingInv /\ QueueInv /\ BehindInv /\ CoverInv /\ BoundInv /\ DeletedInv
      /\ Typed /\ LifeInv
  BY DEF MarksInv, BaseInv
<1>2. PICK call \in Nat, ts \in SUBSET Task, least \in Nat :
        /\ minTime' = [minTime EXCEPT ![c] = least]
        /\ category = "scheduled" => minTime[c] <= least
        /\ Assigns(c, ts, least)
        /\ \/ Tracked(c, call, setting[c].tasks \cup ts)
           \/ Waits(c, call, setting[c].tasks \cup ts)
  BY DEF KeysGiven
<1>3. /\ UNCHANGED <<category, row, stored, lateWrites, lateUpdates, executed,
                     info, loaded, max, updates, engine, queue>>
      /\ max[c] # 0
  BY DEF KeysGiven, storeVars, lifeVars, infoVars
<1>4. PICK n \in 0..max[c] - next[c] :
        /\ next' = [next EXCEPT ![c] = next[c] + n]
        /\ \A t \in ts : /\ next[c] <= t.id /\ t.id < next[c] + n
                         /\ category = "scheduled" => least <= t.fire
  BY <1>2 DEF Assigns
<1>5. /\ next \in [Contexts -> Nat] /\ minTime \in [Contexts -> Nat]
      /\ category \in Categories
  BY <1>1 DEF Typed, TypedKeys, TypedStore
<1>6. \A d \in Contexts : Horizon(d) <= Horizon(d)'
  BY <1>2, <1>3, <1>4, <1>5, SMT DEF Horizon, Categories
<1>7. \A t \in ts : Horizon(c) <= Position(t)
  BY <1>2, <1>4, <1>5, SMT DEF Horizon, Position, Categories, Task
<1>8. /\ \A d \in Contexts : Horizon(d) \in Nat /\ Horizon(d)' \in Nat
      /\ \A m \in Marks : m.done \in Nat
      /\ \A t \in ts : Position(t) \in Nat
  BY <1>1, MarkTypes, HorizonNext
<1> DEFINE S == setting[c].tasks \cup ts
<1>9. /\ \A d \in Contexts : d # c => /\ requests'[d] = requests[d]
                                      /\ setting'[d] = setting[d]
      /\ \/ /\ setting'[c].tasks = {}
            /\ \E s : /\ s.tasks = S /\ s.answer = "none"
                      /\ requests'[c] = requests[c] \cup {s}
            /\ pending' = [pending EXCEPT ![c] = @ \cup LeastKeys(S)]
         \/ /\ setting'[c].tasks = S
            /\ requests'[c] = requests[c] /\ pending' = pending
  <2>1. Tracked(c, call, S) \/ Waits(c, call, S)
    BY <1>2
  <2> HIDE DEF S
  <2> QED BY <1>1, <2>1, KeysGivenSets, SMT
<1>10. \A d \in Contexts : d # c => /\ Live(d)' = Live(d)
                                    /\ Unanswered(d)' = Unanswered(d)
  BY <1>9 DEF Live, Unanswered
<1>11. Live(c)' \subseteq Live(c) \cup ts
  <2>1. S \subseteq Live(c) \cup ts
    BY DEF Live
  <2> HIDE DEF S
  <2> QED BY <1>9, <2>1, SMT DEF Live, Unanswered
<1>12. /\ Late' = Late /\ Marks' = Marks
       /\ \A t : Position(t)' = Position(t)
       /\ \A d \in Contexts : /\ Owns(d)' <=> Owns(d)
                              /\ Running(d)' <=> Running(d)
  <2>1. Late' = Late
    BY <1>3 DEF Late
  <2>2. Marks' = Marks
    BY <1>3, SameMarks
  <2>3. \A d \in Contexts : (Owns(d)' <=> Owns(d)) /\ (Running(d)' <=> Running(d))
    BY <1>3 DEF Owns, Running
  <2> QED BY <1>3, <2>1, <2>2, <2>3, SamePosition
<1>13. PendingInv'
  <2>1. \A vs : LeastKeys(vs)' = LeastKeys(vs)
    BY <1>12 DEF LeastKeys, KeyLeq
  <2>2. \A d \in Contexts : pending[d] \subseteq pending'[d]
    BY <1>1, <1>9 DEF Typed, TypedKeys
  <2>3. \A q \in Unanswered(c)' :
          q \in Unanswered(c) \/ LeastKeys(q.tasks) \subseteq pending'[c]
    <3> HIDE DEF S
    <3>1. pending \in [Contexts -> SUBSET Task]
      BY <1>1 DEF Typed, TypedKeys
    <3>2. CASE requests'[c] = requests[c]
      BY <3>2 DEF Unanswered
    <3>3. CASE /\ \E s : /\ s.tasks = S /\ s.answer = "none"
                         /\ requests'[c] = requests[c] \cup {s}
               /\ pending' = [pending EXCEPT ![c] = @ \cup LeastKeys(S)]
      <4>1. LeastKeys(S) \subseteq pending'[c]
        BY <3>1, <3>3
      <4>2. \A q \in requests'[c] : q \in requests[c] \/ q.tasks = S
        BY <3>3
      <4> QED BY <4>1, <4>2 DEF Unanswered
    <3> QED BY <1>9, <3>2, <3>3
  <2>4. \A d \in Contexts : \A q \in Unanswered(d)' : LeastKeys(q.tasks) \subseteq pending'[d]
    BY <1>1, <1>10, <2>2, <2>3 DEF PendingInv
  <2>5. \A d \in Contexts : Owns(d)' =>
          \A w \in lateWrites' : LeastKeys(w.tasks) \subseteq pending'[d]
    BY <1>1, <1>3, <1>12, <2>2 DEF PendingInv
  <2> QED BY <2>1, <2>4, <2>5 DEF PendingInv
<1>14. QueueInv'
  <2> SUFFICES ASSUME NEW d \in Contexts, Running(d)'
               PROVE /\ queue'[d].deleted <= queue'[d].done
                     /\ queue'[d].done <= queue'[d].high
                     /\ queue'[d].high <= Horizon(d)'
                     /\ \A t \in Live(d)' : queue'[d].high <= Position(t)'
                     /\ Owns(d)' => \A t \in Late' : queue'[d].high <= Position(t)'
    BY DEF QueueInv
  <2>1. Running(d) /\ queue'[d] = queue[d]
    BY <1>3, <1>12
  <2>2. /\ queue[d].deleted <= queue[d].done
        /\ queue[d].done <= queue[d].high
        /\ queue[d].high <= Horizon(d) /\ queue[d].high \in Nat
    BY <1>1, <2>1, RunningFacts
  <2>3. queue[d].high <= Horizon(d)'
    BY <1>6, <1>8, <2>2, SMT
  <2>4. \A t \in Live(d) : queue[d].high <= Position(t)
    BY <1>1, <2>1 DEF QueueInv
  <2>5. \A t \in Live(d)' : queue[d].high <= Position(t)
    BY <1>7, <1>8, <1>10, <1>11, <2>2, <2>4, SMT
  <2>6. Owns(d)' => \A t \in Late' : queue'[d].high <= Position(t)'
    BY <1>1, <1>12, <2>1 DEF QueueInv
  <2> QED BY <1>12, <2>1, <2>2, <2>3, <2>5, <2>6
<1>15. BehindInv'
  <2> SUFFICES ASSUME category = "immediate" PROVE BehindInv'
    BY <1>3 DEF BehindInv
  <2>1. ASSUME NEW e \in Contexts, e # c, Owns(c), NEW t \in ts PROVE max[e] <= t.id
    <3>1. /\ max[e] \in Nat /\ t.id \in Nat /\ next[c] \in Nat
          /\ info[c].rangeID \in Nat /\ info[e].rangeID \in Nat
      BY <1>1 DEF Typed, TypedKeys, TypedQueue, ShardInfo, Task
    <3>2. CASE max[e] = 0
      BY <3>1, <3>2, SMT
    <3>3. CASE max[e] # 0
      <4>1. info[e].rangeID # info[c].rangeID /\ info[e].rangeID <= info[c].rangeID
        BY <1>3, <2>1, <3>3 DEF Owns, RangeInv, RangeOf, OneOwner
      <4>2. FirstId(info[e].rangeID + 1) <= FirstId(info[c].rangeID)
        BY <3>1, <4>1, FirstIdFacts, SMT
      <4>3. max[e] = FirstId(info[e].rangeID + 1) /\ FirstId(info[c].rangeID) <= next[c]
        BY <1>3, <3>3 DEF RangeInv, RangeOf
      <4>4. FirstId(info[c].rangeID) \in Nat
        BY <3>1, FirstIdFacts
      <4> QED BY <1>4, <3>1, <4>2, <4>3, <4>4, SMT
    <3> QED BY <3>2, <3>3
  <2>2. \A e, d \in Contexts : e # d /\ Owns(d)' => \A t \in Live(d)' : max'[e] <= t.id
    <3> SUFFICES ASSUME NEW e \in Contexts, NEW d \in Contexts, e # d, Owns(d),
                        NEW t \in Live(d)'
                 PROVE max[e] <= t.id
      BY <1>3, <1>12
    <3>1. \A v \in Live(d) : max[e] <= v.id
      BY <1>1 DEF BehindInv
    <3>2. CASE d # c
      BY <1>10, <3>1, <3>2
    <3>3. CASE d = c
      BY <1>11, <2>1, <3>1, <3>3
    <3> QED BY <3>2, <3>3
  <2>3. \A d \in Contexts : ~Owns(d)' => \A t \in Late' : max'[d] <= t.id
    BY <1>1, <1>3, <1>12 DEF BehindInv
  <2> QED BY <2>2, <2>3 DEF BehindInv
<1>16. CoverInv'
  <2> SUFFICES ASSUME NEW m \in Marks PROVE Covers(m)'
    BY <1>12 DEF CoverInv
  <2>1. Covers(m) /\ m.done \in Nat
    BY <1>1, <1>8 DEF CoverInv
  <2>2. ASSUME NEW d \in Contexts, Owns(d)
        PROVE m.done <= Horizon(d)' /\ \A t \in Live(d)' : m.done <= Position(t)
    <3>1. m.done <= Horizon(d) /\ \A t \in Live(d) : m.done <= Position(t)
      BY <2>1, <2>2 DEF Covers
    <3>2. m.done <= Horizon(d)'
      BY <1>6, <1>8, <2>1, <3>1, SMT
    <3>3. \A t \in Live(d)' : m.done <= Position(t)
      BY <1>7, <1>8, <1>10, <1>11, <2>1, <3>1, SMT
    <3> QED BY <3>2, <3>3
  <2>3. m.done <= m.high /\ \A t \in stored' \cup Late' : m.done <= Position(t)
    BY <1>3, <1>12, <2>1 DEF Covers
  <2> QED BY <1>12, <2>2, <2>3 DEF Covers
<1>17. BoundInv'
  <2>1. category = "scheduled" => \A d \in Contexts : minTime[d] <= minTime'[d]
    BY <1>2, <1>5, SMT
  <2>2. category = "scheduled" => \A d \in Contexts :
          loaded'[d] /\ engine'[d] = "none" => info'[d].high <= minTime'[d]
    <3>1. \A d \in Contexts : info[d].high \in Nat /\ minTime[d] \in Nat /\ minTime'[d] \in Nat
      BY <1>1 DEF Typed, TypedKeys, TypedQueue, ShardInfo
    <3> QED BY <1>1, <1>3, <2>1, <3>1, SMT DEF BoundInv
  <2>3. category = "immediate" => \A m \in Marks' : m.high <= FirstId(row'.rangeID + 1)
    BY <1>1, <1>3, <1>12 DEF BoundInv
  <2> QED BY <1>3, <2>2, <2>3 DEF BoundInv
<1>18. DeletedInv'
  BY <1>1, <1>3, <1>12 DEF DeletedInv
<1> QED BY <1>13, <1>14, <1>15, <1>16, <1>17, <1>18 DEF MarksInv

\* What a write that the store answers adds to the stored and the late tasks
\* was live, and of the context that owns the range.
LEMMA AnsweredTasks ==
    ASSUME BaseInv, RangeInv, NEW c \in Contexts, NEW r \in requests[c],
           NEW answer \in Answers, writeAnswered(c, r, answer)
    PROVE /\ r \in Unanswered(c) /\ r.tasks \subseteq Live(c)
          /\ \/ stored' = stored /\ lateWrites' = lateWrites
             \/ /\ Owns(c) /\ stored' = stored \cup r.tasks
                /\ lateWrites' = lateWrites
             \/ /\ Owns(c) /\ stored' = stored
                /\ lateWrites' = lateWrites \cup {[range |-> r.range, tasks |-> r.tasks]}
                /\ pending' = pending
<1>1. r \in Unanswered(c)
  BY DEF writeAnswered, Unanswered
<1>2. r.tasks \subseteq Live(c)
  BY <1>1 DEF Live
<1>3. r.range = info[c].rangeID /\ max[c] # 0
  BY <1>1 DEF RangeInv, RangeOf, BaseInv, LifeInv, Life
<1>4. LeaseHeld(r.range) => Owns(c)
  BY <1>3 DEF Owns, LeaseHeld
<1> DEFINE late == [range |-> r.range, tasks |-> r.tasks]
<1>5. late.range = r.range
  OBVIOUS
<1>6. \/ stored' = stored /\ lateWrites' = lateWrites
      \/ LeaseHeld(r.range) /\ stored' = stored \cup r.tasks /\ lateWrites' = lateWrites
      \/ /\ answer = "unknown" /\ stored' = stored
         /\ lateWrites' = lateWrites \cup {w \in {late} : LeaseHeld(w.range)}
  BY DEF writeAnswered
<1>7. answer = "unknown" => pending' = pending
  BY DEF writeAnswered, OperationPossiblySucceeded, BaseInv, Typed, TypedKeys
<1> HIDE DEF late
<1>8. LeaseHeld(r.range) => {w \in {late} : LeaseHeld(w.range)} = {late}
  BY <1>5
<1>9. ~LeaseHeld(r.range) => lateWrites \cup {w \in {late} : LeaseHeld(w.range)} = lateWrites
  BY <1>5
<1>10. \/ stored' = stored /\ lateWrites' = lateWrites
       \/ Owns(c) /\ stored' = stored \cup r.tasks /\ lateWrites' = lateWrites
       \/ /\ Owns(c) /\ stored' = stored /\ lateWrites' = lateWrites \cup {late}
          /\ pending' = pending
  BY <1>4, <1>6, <1>7, <1>8, <1>9
<1> QED BY <1>1, <1>2, <1>10 DEF late

\* An answer: the tasks of the write become stored, or late, or are dropped.
\* The keys that are taken out of pending are keys of no other write.
LEMMA MarksWriteAnswered ==
    ASSUME BaseInv, RangeInv, DistinctInv, MarksInv, NEW c \in Contexts,
           NEW r \in requests[c], NEW answer \in Answers,
           writeAnswered(c, r, answer)
    PROVE MarksInv'
<1>1. /\ PendingInv /\ QueueInv /\ BehindInv /\ CoverInv /\ BoundInv /\ DeletedInv
      /\ Typed /\ LifeInv
  BY DEF MarksInv, BaseInv
<1>2. UNCHANGED <<category, row, lateUpdates, executed, info, loaded, next, max,
                  minTime, setting, updates, engine, queue>>
  BY DEF writeAnswered, lifeVars, infoVars, lockVars
<1> DEFINE late == [range |-> r.range, tasks |-> r.tasks]
<1>3. late.tasks = r.tasks
  OBVIOUS
<1>4. /\ r \in Unanswered(c) /\ r.tasks \subseteq Live(c)
      /\ \/ stored' = stored /\ lateWrites' = lateWrites
         \/ Owns(c) /\ stored' = stored \cup r.tasks /\ lateWrites' = lateWrites
         \/ /\ Owns(c) /\ stored' = stored /\ lateWrites' = lateWrites \cup {late}
            /\ pending' = pending
  BY AnsweredTasks
<1> HIDE DEF late
<1>5. Answered(c, r)
  BY <1>1, WriteAnsweredFacts
<1>6. /\ \A d \in Contexts : Unanswered(d)' \subseteq Unanswered(d)
      /\ Unanswered(c)' = Unanswered(c) \ {r}
      /\ \A d \in Contexts : Live(d)' \subseteq Live(d)
  <2>1. \A d \in Contexts : d # c => Unanswered(d)' = Unanswered(d)
    BY <1>5 DEF Answered, Unanswered
  <2>2. Unanswered(c)' = Unanswered(c) \ {r}
    BY <1>5 DEF Answered
  <2>3. \A d \in Contexts : Unanswered(d)' \subseteq Unanswered(d)
    BY <2>1, <2>2
  <2>4. \A d \in Contexts : Live(d)' \subseteq Live(d)
    BY <1>2, <2>3 DEF Live
  <2> QED BY <2>2, <2>3, <2>4
<1>7. /\ Late' \subseteq Late \cup r.tasks
      /\ ~Owns(c) => Late' = Late
      /\ ~Owns(c) => stored' = stored
      /\ stored' \subseteq stored \cup r.tasks
  BY <1>3, <1>4 DEF Late
<1>8. /\ Marks' = Marks
      /\ \A t : Position(t)' = Position(t)
      /\ \A d \in Contexts : /\ Owns(d)' <=> Owns(d)
                             /\ Running(d)' <=> Running(d)
                             /\ Horizon(d)' = Horizon(d)
  <2>1. Marks' = Marks
    BY <1>2, SameMarks
  <2>2. \A d \in Contexts : (Owns(d)' <=> Owns(d)) /\ (Running(d)' <=> Running(d))
    BY <1>2 DEF Owns, Running
  <2>3. \A d \in Contexts : Horizon(d)' = Horizon(d)
    BY <1>2 DEF Horizon
  <2> QED BY <1>2, <2>1, <2>2, <2>3, SamePosition
<1>9. \A d \in Contexts : Owns(c) /\ Owns(d) => c = d
  BY DEF Owns, RangeInv, OneOwner
<1>10. /\ \A t \in r.tasks : t \in Task /\ Position(t) \in Nat
  BY <1>1, <1>4, TaskSets, MarkTypes
<1>11. PendingInv'
  <2>1. \A vs : LeastKeys(vs)' = LeastKeys(vs)
    BY <1>8 DEF LeastKeys, KeyLeq
  <2>2. /\ \A d \in Contexts : d # c => pending'[d] = pending[d]
        /\ pending[c] \ LeastKeys(r.tasks) \subseteq pending'[c]
    BY <1>1 DEF writeAnswered, Typed, TypedKeys
  <2>3. \A vs : LeastKeys(vs) \subseteq vs
    BY DEF LeastKeys
  <2>4. \A vs : Apart(r.tasks, vs) /\ LeastKeys(vs) \subseteq pending[c]
                  => LeastKeys(vs) \subseteq pending'[c]
    BY <2>2, <2>3 DEF Apart
  <2>5. ASSUME NEW d \in Contexts, NEW q \in Unanswered(d)'
        PROVE LeastKeys(q.tasks) \subseteq pending'[d]
    <3>1. q \in Unanswered(d) /\ LeastKeys(q.tasks) \subseteq pending[d]
      BY <1>1, <1>6 DEF PendingInv
    <3>2. CASE d # c
      BY <2>2, <3>1, <3>2
    <3>3. CASE d = c
      <4>1. q # r /\ q \in requests[c]
        BY <1>6, <3>1, <3>3 DEF Unanswered
      <4>2. Apart(r.tasks, q.tasks)
        BY <4>1 DEF DistinctInv, RequestsApart
      <4> QED BY <2>4, <3>1, <3>3, <4>2
    <3> QED BY <3>2, <3>3
  <2>6. ASSUME NEW d \in Contexts, Owns(d), NEW w \in lateWrites'
        PROVE LeastKeys(w.tasks) \subseteq pending'[d]
    <3>1. CASE w \in lateWrites
      <4>1. LeastKeys(w.tasks) \subseteq pending[d]
        BY <1>1, <2>6, <3>1 DEF PendingInv
      <4>2. Apart(r.tasks, w.tasks)
        <5>1. w.tasks \subseteq Written
          BY <3>1 DEF Written, Late
        <5> QED BY <1>4, <5>1 DEF DistinctInv, LiveApart, Apart
      <4> QED BY <2>2, <2>4, <4>1, <4>2
    <3>2. CASE w \notin lateWrites
      <4>1. w = late /\ Owns(c) /\ pending' = pending
        BY <1>4, <3>2
      <4>2. d = c /\ w.tasks = r.tasks
        BY <1>3, <1>9, <2>6, <4>1
      <4> QED BY <1>1, <1>4, <4>1, <4>2 DEF PendingInv
    <3> QED BY <3>1, <3>2
  <2> QED BY <1>8, <2>1, <2>5, <2>6 DEF PendingInv
<1>12. QueueInv'
  <2>1. \A d \in Contexts : Running(d) /\ Owns(d) =>
          \A t \in Late' : queue[d].high <= Position(t)
    <3> SUFFICES ASSUME NEW d \in Contexts, Running(d), Owns(d), NEW t \in Late'
                 PROVE queue[d].high <= Position(t)
      OBVIOUS
    <3>1. CASE t \in Late
      BY <1>1, <3>1 DEF QueueInv
    <3>2. CASE t \notin Late
      <4>1. t \in r.tasks /\ Owns(c)
        BY <1>7, <3>2
      <4> QED BY <1>1, <1>4, <1>9, <4>1 DEF QueueInv
    <3> QED BY <3>1, <3>2
  <2> QED BY <1>1, <1>2, <1>6, <1>8, <2>1 DEF QueueInv
<1>13. BehindInv'
  <2> SUFFICES ASSUME category = "immediate" PROVE BehindInv'
    BY <1>2 DEF BehindInv
  <2>1. \A e, d \in Contexts : e # d /\ Owns(d)' => \A t \in Live(d)' : max'[e] <= t.id
    BY <1>1, <1>2, <1>6, <1>8 DEF BehindInv
  <2>2. ASSUME NEW d \in Contexts, ~Owns(d), NEW t \in Late' PROVE max[d] <= t.id
    <3>1. CASE t \in Late
      BY <1>1, <2>2, <3>1 DEF BehindInv
    <3>2. CASE t \notin Late
      <4>1. t \in Live(c) /\ Owns(c) /\ d # c
        BY <1>4, <1>7, <2>2, <3>2
      <4> QED BY <1>1, <4>1 DEF BehindInv
    <3> QED BY <3>1, <3>2
  <2> QED BY <1>2, <1>8, <2>1, <2>2 DEF BehindInv
<1>14. CoverInv'
  <2> SUFFICES ASSUME NEW m \in Marks PROVE Covers(m)'
    BY <1>8 DEF CoverInv
  <2>1. Covers(m)
    BY <1>1 DEF CoverInv
  <2>2. ASSUME NEW t \in stored' \cup Late' PROVE m.done <= Position(t)
    <3>1. CASE t \in stored \cup Late
      BY <2>1, <3>1 DEF Covers
    <3>2. CASE t \notin stored \cup Late
      <4>1. t \in Live(c) /\ Owns(c)
        BY <1>4, <1>7, <3>2
      <4> QED BY <2>1, <4>1 DEF Covers
    <3> QED BY <3>1, <3>2
  <2>3. m.done <= m.high /\ \A d \in Contexts : Owns(d)' =>
          m.done <= Horizon(d)' /\ \A t \in Live(d)' : m.done <= Position(t)
    BY <1>6, <1>8, <2>1 DEF Covers
  <2> QED BY <1>8, <2>2, <2>3 DEF Covers
<1>15. BoundInv'
  BY <1>1, <1>2, <1>8 DEF BoundInv
<1>16. DeletedInv'
  <2> SUFFICES ASSUME NEW d \in Contexts, Running(d), NEW t \in stored'
               PROVE /\ Owns(d) => queue[d].deleted <= Position(t)
                     /\ category = "immediate" =>
                          (Position(t) \in queue[d].deleted..queue[d].done - 1
                             => t \in executed)
    BY <1>2, <1>8 DEF DeletedInv
  <2>1. CASE t \in stored
    BY <1>1, <2>1 DEF DeletedInv
  <2>2. CASE t \notin stored
    <3>1. t \in Live(c) /\ Owns(c) /\ t \in r.tasks
      BY <1>4, <1>7, <2>2
    <3>2. Owns(d) \/ category = "immediate" => queue[d].high <= Position(t)
      BY <1>1, <3>1, AboveHigh
    <3>3. /\ queue[d].deleted \in Nat /\ queue[d].done \in Nat
          /\ queue[d].high \in Nat
          /\ queue[d].deleted <= queue[d].done
          /\ queue[d].done <= queue[d].high
      BY <1>1, RunningFacts
    <3>4. Position(t) \in Nat
      BY <1>10, <3>1
    <3> QED BY <3>2, <3>3, <3>4, SMT
  <2> QED BY <2>1, <2>2
<1> QED BY <1>11, <1>12, <1>13, <1>14, <1>15, <1>16 DEF MarksInv

\* The watermark is not above a task that can still be written by the context,
\* or by a late call of its range: the least key of every such write is pending.
LEMMA WatermarkBelowLive ==
    ASSUME BaseInv, PendingInv, NEW c \in Contexts, Free(c), NEW least \in Nat
    PROVE /\ \A t \in Live(c) : Watermark(c, least) <= Position(t)
          /\ Owns(c) => \A t \in Late : Watermark(c, least) <= Position(t)
<1>1. Typed /\ Life(c) /\ category \in Categories
  BY DEF BaseInv, LifeInv, Typed, TypedStore
<1>2. setting[c].tasks = {}
  BY <1>1 DEF Life, Free
<1>3. /\ Watermark(c, least) \in Nat
      /\ \A t \in pending[c] : Watermark(c, least) <= Position(t)
  BY <1>1, WatermarkFacts
<1>4. \A t \in Task : Position(t) \in Nat
  BY <1>1, MarkTypes
<1>5. ASSUME NEW ts \in SUBSET Task, LeastKeys(ts) \subseteq pending[c], NEW t \in ts
      PROVE Watermark(c, least) <= Position(t)
  <2>1. PICK u \in LeastKeys(ts) : Position(u) <= Position(t)
    BY <1>1, LeastKeysFacts
  <2>2. u \in ts
    BY <1>1, LeastKeysFacts
  <2>3. Position(u) \in Nat /\ Position(t) \in Nat
    BY <1>4, <2>2
  <2>4. Watermark(c, least) <= Position(u)
    BY <1>3, <1>5
  <2> QED BY <1>3, <2>1, <2>3, <2>4, SMT
<1>6. ASSUME NEW t \in Live(c) PROVE Watermark(c, least) <= Position(t)
  <2>1. PICK r \in Unanswered(c) : t \in r.tasks
    BY <1>2 DEF Live
  <2>2. r.tasks \in SUBSET Task
    BY <1>1, TaskSets DEF Unanswered
  <2>3. LeastKeys(r.tasks) \subseteq pending[c]
    BY DEF PendingInv
  <2> QED BY <1>5, <2>1, <2>2, <2>3
<1>7. ASSUME Owns(c), NEW t \in Late PROVE Watermark(c, least) <= Position(t)
  <2>1. PICK w \in lateWrites : t \in w.tasks
    BY DEF Late
  <2>2. w.tasks \in SUBSET Task
    BY <1>1 DEF Typed, TypedStore
  <2>3. LeastKeys(w.tasks) \subseteq pending[c]
    BY <1>7 DEF PendingInv
  <2> QED BY <1>5, <2>1, <2>2, <2>3
<1> QED BY <1>6, <1>7

\* The queue moves on to the watermark.
LEMMA MarksNewRange ==
    ASSUME BaseInv, Typed', RangeInv, MarksInv, NEW c \in Contexts,
           NEW now \in Clock, processNewRange(c, now)
    PROVE MarksInv'
<1>1. /\ PendingInv /\ QueueInv /\ BehindInv /\ CoverInv /\ BoundInv /\ DeletedInv
      /\ Typed /\ LifeInv
  BY DEF MarksInv, BaseInv
<1> DEFINE least == MinScheduledTime(c, now + TimeShift)
           high == Greater(queue[c].high, Watermark(c, least))
           done == IF state[c] = "acquired" THEN high ELSE queue[c].done
           read == {t \in stored : state[c] = "acquired"
                                   /\ Position(t) \in queue[c].done..high - 1}
<1>2. /\ UNCHANGED <<category, row, stored, lateWrites, lateUpdates, info, loaded,
                     next, max, pending, requests, updates, setting, engine>>
      /\ Running(c) /\ Free(c)
      /\ minTime' = [minTime EXCEPT ![c] = least]
      /\ executed' = executed \cup read
  BY DEF processNewRange, storeVars, lifeVars, infoVars, lockVars, callVars
<1>3. queue' = [queue EXCEPT ![c] = [@ EXCEPT !.high = high, !.done = done]]
  <2>1. queue' = [queue EXCEPT ![c].high = high,
                               ![c].done = IF state[c] = "acquired" THEN high ELSE @]
    BY DEF processNewRange
  <2>2. queue \in [Contexts -> [done : Nat, high : Nat, deleted : Nat]]
    BY <1>1 DEF Typed, TypedQueue
  <2> HIDE DEF high
  <2>3. CASE state[c] = "acquired"
    BY <2>1, <2>2, <2>3
  <2>4. CASE state[c] # "acquired"
    BY <2>1, <2>2, <2>4
  <2> QED BY <2>3, <2>4
<1>4. least \in Nat /\ (category = "scheduled" => minTime[c] <= least)
  <2>1. now + TimeShift \in Nat
    BY ShardAssumption, SMT
  <2> QED BY <1>1, <2>1, MinScheduledTimeFacts
<1> HIDE DEF least
<1>5. /\ Watermark(c, least) \in Nat
      /\ category = "immediate" => Watermark(c, least) <= next[c]
      /\ category = "scheduled" => Watermark(c, least) <= least
  BY <1>1, <1>4, WatermarkFacts
<1>6. /\ queue[c].deleted \in Nat /\ queue[c].done \in Nat
      /\ queue[c].high \in Nat
      /\ queue[c].deleted <= queue[c].done
      /\ queue[c].done <= queue[c].high
      /\ queue[c].high <= Horizon(c)
  BY <1>1, <1>2, RunningFacts
<1>7. high \in Nat /\ queue[c].high <= high
      /\ (high = queue[c].high \/ high = Watermark(c, least))
  BY <1>5, <1>6, SMT DEF Greater
<1> HIDE DEF high
<1>8. done \in Nat /\ queue[c].done <= done /\ done <= high
  BY <1>6, <1>7, SMT
<1>9. /\ queue'[c].deleted = queue[c].deleted /\ queue'[c].done = done
      /\ queue'[c].high = high
      /\ \A d \in Contexts : d # c => queue'[d] = queue[d]
  BY <1>1, <1>3 DEF Typed, TypedQueue
<1>10. /\ Marks' = Marks /\ Late' = Late
       /\ \A t : Position(t)' = Position(t)
       /\ \A d \in Contexts : /\ Owns(d)' <=> Owns(d)
                              /\ Running(d)' <=> Running(d)
                              /\ Live(d)' = Live(d)
                              /\ Unanswered(d)' = Unanswered(d)
  <2>1. Marks' = Marks /\ Late' = Late
    BY <1>2, SameMarks DEF Late
  <2>2. \A d \in Contexts : (Owns(d)' <=> Owns(d)) /\ (Running(d)' <=> Running(d))
    BY <1>2 DEF Owns, Running
  <2>3. \A d \in Contexts : Live(d)' = Live(d) /\ Unanswered(d)' = Unanswered(d)
    BY <1>2 DEF Live, Unanswered
  <2> QED BY <1>2, <2>1, <2>2, <2>3, SamePosition
<1>11. /\ \A d \in Contexts : Horizon(d) <= Horizon(d)' /\ Horizon(d) \in Nat
                              /\ Horizon(d)' \in Nat
       /\ high <= Horizon(c)'
  <2>1. /\ next \in [Contexts -> Nat] /\ minTime \in [Contexts -> Nat]
        /\ category \in Categories
    BY <1>1 DEF Typed, TypedKeys, TypedStore
  <2>2. \A d \in Contexts : Horizon(d) <= Horizon(d)'
    BY <1>2, <1>4, <2>1, SMT DEF Horizon, Categories
  <2>3. \A d \in Contexts : Horizon(d) \in Nat /\ Horizon(d)' \in Nat
    BY <1>1, MarkTypes, HorizonNext
  <2>4. Watermark(c, least) <= Horizon(c)'
    BY <1>2, <1>4, <1>5, <2>1 DEF Horizon, Categories
  <2>5. high <= Horizon(c)'
    BY <1>6, <1>7, <2>2, <2>3, <2>4, SMT
  <2> QED BY <2>2, <2>3, <2>5
<1>12. PendingInv'
  <2>1. \A vs : LeastKeys(vs)' = LeastKeys(vs)
    BY <1>10 DEF LeastKeys, KeyLeq
  <2> QED BY <1>1, <1>2, <1>10, <2>1 DEF PendingInv
<1>13. QueueInv'
  <2> SUFFICES ASSUME NEW d \in Contexts, Running(d)
               PROVE /\ queue'[d].deleted <= queue'[d].done
                     /\ queue'[d].done <= queue'[d].high
                     /\ queue'[d].high <= Horizon(d)'
                     /\ \A t \in Live(d) : queue'[d].high <= Position(t)
                     /\ Owns(d) => \A t \in Late : queue'[d].high <= Position(t)
    BY <1>10 DEF QueueInv
  <2>1. CASE d = c
    <3>1. queue[c].deleted <= done
      BY <1>6, <1>8, SMT
    <3>2. /\ \A t \in Live(c) : Watermark(c, least) <= Position(t)
          /\ Owns(c) => \A t \in Late : Watermark(c, least) <= Position(t)
      BY <1>1, <1>2, <1>4, WatermarkBelowLive
    <3>3. /\ \A t \in Live(c) : high <= Position(t)
          /\ Owns(c) => \A t \in Late : high <= Position(t)
      BY <1>1, <1>2, <1>7, <3>2 DEF QueueInv
    <3> QED BY <1>8, <1>9, <1>11, <2>1, <3>1, <3>3
  <2>2. CASE d # c
    <3>1. /\ queue[d].high \in Nat /\ queue[d].high <= Horizon(d)
          /\ queue[d].deleted <= queue[d].done /\ queue[d].done <= queue[d].high
      BY <1>1, RunningFacts
    <3>2. queue[d].high <= Horizon(d)'
      BY <1>11, <3>1, SMT
    <3> QED BY <1>1, <1>9, <2>2, <3>1, <3>2 DEF QueueInv
  <2> QED BY <2>1, <2>2
<1>14. BehindInv'
  BY <1>1, <1>2, <1>10 DEF BehindInv
<1>15. CoverInv'
  <2> SUFFICES ASSUME NEW m \in Marks PROVE Covers(m)'
    BY <1>10 DEF CoverInv
  <2>1. Covers(m) /\ m.done \in Nat
    BY <1>1, MarkTypes DEF CoverInv
  <2>2. \A d \in Contexts : Owns(d) => m.done <= Horizon(d)'
    BY <1>11, <2>1, SMT DEF Covers
  <2> QED BY <1>2, <1>10, <2>1, <2>2 DEF Covers
<1>16. BoundInv'
  <2>1. category = "scheduled" => \A d \in Contexts :
          loaded'[d] /\ engine'[d] = "none" => info'[d].high <= minTime'[d]
    <3>1. \A d \in Contexts : engine[d] = "none" => minTime'[d] = minTime[d]
      BY <1>1, <1>2 DEF Running, Typed, TypedKeys
    <3> QED BY <1>1, <1>2, <3>1 DEF BoundInv
  <2> QED BY <1>1, <1>2, <1>10, <2>1 DEF BoundInv
<1>17. DeletedInv'
  <2> SUFFICES ASSUME NEW d \in Contexts, Running(d), NEW t \in stored
               PROVE /\ Owns(d) => queue'[d].deleted <= Position(t)
                     /\ category = "immediate" =>
                          (Position(t) \in queue'[d].deleted..queue'[d].done - 1
                             => t \in executed')
    BY <1>2, <1>10 DEF DeletedInv
  <2>1. CASE d = c
    <3>1. Owns(c) => queue[c].deleted <= Position(t)
      BY <1>1, <1>2 DEF DeletedInv
    <3>2. ASSUME category = "immediate",
                 Position(t) \in queue[c].deleted..done - 1
          PROVE t \in executed'
      <4>1. Position(t) \in Nat
        BY <1>1, MarkTypes DEF Typed, TypedStore
      <4>2. CASE Position(t) < queue[c].done
        <5>1. Position(t) \in queue[c].deleted..queue[c].done - 1
          BY <1>6, <1>8, <3>2, <4>1, <4>2, SMT
        <5>2. t \in executed
          BY <1>1, <1>2, <3>2, <5>1 DEF DeletedInv
        <5> QED BY <1>2, <5>2
      <4>3. CASE ~(Position(t) < queue[c].done)
        <5>1. state[c] = "acquired" /\ Position(t) \in queue[c].done..high - 1
          BY <1>6, <1>7, <1>8, <3>2, <4>1, <4>3, SMT
        <5>2. t \in read
          BY <5>1
        <5> QED BY <1>2, <5>2
      <4> QED BY <4>2, <4>3
    <3> QED BY <1>9, <2>1, <3>1, <3>2
  <2>2. CASE d # c
    BY <1>1, <1>2, <1>9, <2>2 DEF DeletedInv
  <2> QED BY <2>1, <2>2
<1> QED BY <1>12, <1>13, <1>14, <1>15, <1>16, <1>17 DEF MarksInv

\* A checkpoint deletes what the queue has executed; the queue state that it
\* saves, when the context owns the range, covers everything else.
LEMMA MarksCheckpoint ==
    ASSUME BaseInv, RangeInv, MarksInv, NEW c \in Contexts, checkpoint(c)
    PROVE MarksInv'
<1>1. /\ PendingInv /\ QueueInv /\ BehindInv /\ CoverInv /\ BoundInv /\ DeletedInv
      /\ Typed /\ LifeInv
  BY DEF MarksInv, BaseInv
<1> DEFINE new == [info[c] EXCEPT !.done = queue[c].done, !.high = queue[c].high]
           u == [prev |-> new.rangeID, info |-> new]
<1>2. /\ UNCHANGED <<category, row, lateWrites, lateUpdates, executed, loaded,
                     next, max, minTime, pending, requests, setting, engine>>
      /\ Running(c)
      /\ stored' = {t \in stored :
                      Position(t) \notin queue[c].deleted..queue[c].done - 1}
  BY DEF checkpoint, lifeVars, keyVars, lockVars
<1>3. /\ \/ queue' = queue
         \/ queue' = [queue EXCEPT ![c] = [@ EXCEPT !.deleted = queue[c].done]]
      /\ info' = info \/ info' = [info EXCEPT ![c] = new]
      /\ updates' = updates \/ updates' = [updates EXCEPT ![c] = {u}]
  BY DEF checkpoint, SetQueueState, Typed, TypedQueue
<1>4. /\ new.rangeID = info[c].rangeID
      /\ new.done = queue[c].done /\ new.high = queue[c].high
      /\ u.prev = info[c].rangeID /\ u.info = new
  BY <1>1 DEF Typed, TypedQueue, ShardInfo
<1> HIDE DEF new, u
<1>5. /\ max[c] # 0 /\ loaded[c] /\ max[c] \in Nat
      /\ queue[c].deleted \in Nat /\ queue[c].done \in Nat
      /\ queue[c].high \in Nat
      /\ queue[c].deleted <= queue[c].done
      /\ queue[c].done <= queue[c].high
      /\ queue[c].high <= Horizon(c)
      /\ category = "immediate" => queue[c].high <= max[c]
  BY <1>1, <1>2, RunningFacts
<1>6. /\ queue'[c].deleted \in {queue[c].deleted, queue[c].done}
      /\ queue'[c].done = queue[c].done /\ queue'[c].high = queue[c].high
      /\ \A d \in Contexts : d # c => queue'[d] = queue[d]
  BY <1>1, <1>3 DEF Typed, TypedQueue
<1>7. \A d \in Contexts : /\ info'[d].rangeID = info[d].rangeID
                          /\ d # c => info'[d] = info[d]
                          /\ info'[d] \in {info[d], new}
  BY <1>1, <1>3, <1>4 DEF Typed, TypedQueue
<1>8. /\ Late' = Late
      /\ \A t : Position(t)' = Position(t)
      /\ \A d \in Contexts : /\ Owns(d)' <=> Owns(d)
                             /\ Running(d)' <=> Running(d)
                             /\ Live(d)' = Live(d)
                             /\ Unanswered(d)' = Unanswered(d)
                             /\ Horizon(d)' = Horizon(d)
  <2>1. Late' = Late
    BY <1>2 DEF Late
  <2>2. \A d \in Contexts : (Owns(d)' <=> Owns(d)) /\ (Running(d)' <=> Running(d))
    BY <1>2, <1>7 DEF Owns, Running
  <2>3. \A d \in Contexts : /\ Live(d)' = Live(d) /\ Unanswered(d)' = Unanswered(d)
                            /\ Horizon(d)' = Horizon(d)
    BY <1>2 DEF Live, Unanswered, Horizon
  <2> QED BY <1>2, <2>1, <2>2, <2>3, SamePosition
<1>9. stored' \subseteq stored /\ \A t \in stored : Position(t) \in Nat
  BY <1>1, <1>2, MarkTypes DEF Typed, TypedStore
<1>10. \A m \in Marks' : m \in Marks \/ (m = new /\ Owns(c))
  <2>1. \A d \in Contexts : \A v \in updates'[d] : v \in updates[d] \/ (d = c /\ v = u)
    BY <1>1, <1>3, SMT DEF Typed, TypedCalls
  <2> SUFFICES ASSUME NEW m \in Marks' PROVE m \in Marks \/ (m = new /\ Owns(c))
    OBVIOUS
  <2>2. CASE m = row'
    BY <1>2, <2>2, MarkCases
  <2>3. CASE \E d \in Contexts : /\ loaded'[d] /\ info'[d].rangeID = row'.rangeID
                                 /\ m = info'[d]
    <3>1. PICK d \in Contexts : /\ loaded'[d] /\ info'[d].rangeID = row'.rangeID
                                /\ m = info'[d]
      BY <2>3
    <3>2. loaded[d] /\ info[d].rangeID = row.rangeID
      BY <1>2, <1>7, <3>1
    <3>3. CASE info'[d] = info[d]
      BY <3>1, <3>2, <3>3, MarkCases
    <3>4. CASE info'[d] # info[d]
      <4>1. d = c /\ m = new
        BY <1>7, <3>1, <3>4
      <4> QED BY <1>5, <3>2, <4>1 DEF Owns
    <3> QED BY <3>3, <3>4
  <2>4. CASE \E d \in Contexts : \E v \in updates'[d] : v.prev = row'.rangeID
                                                        /\ m = v.info
    <3>0. PICK d \in Contexts : \E v \in updates'[d] : v.prev = row'.rangeID
                                                       /\ m = v.info
      BY <2>4
    <3>1. PICK v \in updates'[d] : v.prev = row'.rangeID /\ m = v.info
      BY <3>0
    <3>2. CASE v \in updates[d]
      BY <1>2, <3>1, <3>2, MarkCases
    <3>3. CASE d = c /\ v = u
      BY <1>2, <1>4, <1>5, <3>1, <3>3 DEF Owns
    <3> QED BY <2>1, <3>2, <3>3
  <2>5. CASE \E v \in lateUpdates' : m = v.info
    BY <1>2, <2>5, MarkCases
  <2> QED BY <2>2, <2>3, <2>4, <2>5, MarkCasesNext
<1>11. PendingInv'
  <2>1. \A vs : LeastKeys(vs)' = LeastKeys(vs)
    BY <1>8 DEF LeastKeys, KeyLeq
  <2> QED BY <1>1, <1>2, <1>8, <2>1 DEF PendingInv
<1>12. QueueInv'
  <2> SUFFICES ASSUME NEW d \in Contexts, Running(d)
               PROVE /\ queue'[d].deleted <= queue'[d].done
                     /\ queue'[d].done <= queue'[d].high
                     /\ queue'[d].high <= Horizon(d)
                     /\ \A t \in Live(d) : queue'[d].high <= Position(t)
                     /\ Owns(d) => \A t \in Late : queue'[d].high <= Position(t)
    BY <1>8 DEF QueueInv
  <2>1. CASE d = c
    <3>1. queue'[c].deleted <= queue'[c].done
      <4>2. \/ queue'[c].deleted = queue[c].deleted
            \/ queue'[c].deleted = queue[c].done
        BY <1>6
      <4> QED BY <1>5, <1>6, NatOrder, <4>2
    <3> QED BY <1>1, <1>5, <1>6, <2>1, <3>1 DEF QueueInv
  <2>2. CASE d # c
    BY <1>1, <1>6, <2>2 DEF QueueInv
  <2> QED BY <2>1, <2>2
<1>13. BehindInv'
  BY <1>1, <1>2, <1>8 DEF BehindInv
<1>14. Owns(c) => \A t \in stored' : queue[c].done <= Position(t)
  <2>2. Owns(c) => \A t \in stored : queue[c].deleted <= Position(t)
    BY <1>1, <1>2 DEF DeletedInv
  <2>3. \A t \in stored' : /\ t \in stored
                          /\ Position(t) \notin queue[c].deleted..queue[c].done - 1
    BY <1>2
  <2> QED BY <1>5, <1>9, NatOrder, <2>2, <2>3
<1>15. CoverInv'
  <2> SUFFICES ASSUME NEW m \in Marks' PROVE Covers(m)'
    BY DEF CoverInv
  <2>1. CASE m \in Marks
    <3>1. Covers(m)
      BY <1>1, <2>1 DEF CoverInv
    <3>2. \A t \in stored' \cup Late' : m.done <= Position(t)
      BY <1>8, <1>9, <3>1 DEF Covers
    <3> QED BY <1>8, <3>1, <3>2 DEF Covers
  <2>2. CASE m = new /\ Owns(c)
    <3>1. m.done = queue[c].done /\ m.high = queue[c].high
      BY <1>4, <2>2
    <3>2. \A t \in Late \cup Live(c) : queue[c].high <= Position(t) /\ Position(t) \in Nat
      <4>1. \A t \in Late \cup Live(c) : queue[c].high <= Position(t)
        BY <1>1, <1>2, <2>2 DEF QueueInv
      <4>2. Late \subseteq Task /\ Live(c) \subseteq Task
        BY <1>1, TaskSets DEF Written
      <4> QED BY <1>1, <4>1, <4>2, MarkTypes
    <3>3. \A t \in Late \cup Live(c) : queue[c].done <= Position(t)
      BY <1>5, <3>2, NatOrder
    <3>4. queue[c].done <= Horizon(c)
      <4>1. Horizon(c) \in Nat
        BY <1>1, MarkTypes
      <4>2. \A n \in Nat : queue[c].high <= n => queue[c].done <= n
        BY <1>5, NatOrder
      <4> QED BY <1>5, <4>1, <4>2
    <3>5. \A d \in Contexts : Owns(d) => d = c
      BY <2>2 DEF Owns, RangeInv, OneOwner
    <3>6. \A t \in stored' \cup Late' : m.done <= Position(t)'
      BY <1>8, <1>14, <2>2, <3>1, <3>3
    <3>7. \A d \in Contexts : Owns(d)' =>
            m.done <= Horizon(d)' /\ \A t \in Live(d)' : m.done <= Position(t)'
      BY <1>8, <3>1, <3>3, <3>4, <3>5
    <3>8. m.done <= m.high
      BY <1>5, <3>1
    <3> QED BY <3>6, <3>7, <3>8 DEF Covers
  <2> QED BY <1>10, <2>1, <2>2
<1>16. BoundInv'
  <2>1. ASSUME category = "immediate", NEW m \in Marks'
        PROVE m.high <= FirstId(row.rangeID + 1)
    <3>1. CASE m \in Marks
      BY <1>1, <2>1, <3>1 DEF BoundInv
    <3>2. CASE m = new /\ Owns(c)
      <4>1. max[c] = FirstId(row.rangeID + 1)
        BY <1>5, <3>2 DEF Owns, RangeInv, RangeOf
      <4> QED BY <1>4, <1>5, <2>1, <3>2, <4>1
    <3> QED BY <1>10, <3>1, <3>2
  <2>2. \A d \in Contexts : engine[d] = "none" => info'[d] = info[d]
    BY <1>2, <1>7 DEF Running
  <2>3. category = "scheduled" => \A d \in Contexts :
          loaded'[d] /\ engine'[d] = "none" => info'[d].high <= minTime'[d]
    BY <1>1, <1>2, <2>2 DEF BoundInv
  <2> QED BY <1>2, <2>1, <2>3 DEF BoundInv
<1>17. DeletedInv'
  <2> SUFFICES ASSUME NEW d \in Contexts, Running(d), NEW t \in stored'
               PROVE /\ Owns(d) => queue'[d].deleted <= Position(t)
                     /\ category = "immediate" =>
                          (Position(t) \in queue'[d].deleted..queue'[d].done - 1
                             => t \in executed)
    BY <1>2, <1>8 DEF DeletedInv
  <2>1. t \in stored /\ Position(t) \in Nat
    BY <1>9
  <2>2. CASE d # c
    BY <1>1, <1>6, <2>1, <2>2 DEF DeletedInv
  <2>3. CASE d = c
    <3>1. Owns(c) => queue[c].deleted <= Position(t) /\ queue[c].done <= Position(t)
      BY <1>1, <1>2, <1>14, <2>1 DEF DeletedInv
    <3>2. Position(t) \notin queue[c].deleted..queue[c].done - 1
      BY <1>2
    <3>3. Position(t) \notin queue'[c].deleted..queue'[c].done - 1
      BY <1>5, <1>6, <2>1, <3>2, SMT
    <3> QED BY <1>6, <2>3, <3>1, <3>3
  <2> QED BY <2>2, <2>3
<1> QED BY <1>11, <1>12, <1>13, <1>15, <1>16, <1>17 DEF MarksInv

\* A renewal: the row gets the queue state of its caller, which nobody else can
\* write over, and every key that is given from now on is above its marks.
LEMMA MarksGranted ==
    ASSUME BaseInv, Typed', RangeInv, DrainInv, MarksInv, NEW c \in Contexts,
           renewRangeGranted(c)
    PROVE MarksInv'
<1>1. /\ PendingInv /\ QueueInv /\ BehindInv /\ CoverInv /\ BoundInv /\ DeletedInv
      /\ Typed /\ LifeInv
  BY DEF MarksInv, BaseInv
<1> DEFINE new == [info[c] EXCEPT !.rangeID = @ + 1]
           range == row.rangeID + 1
<1>2. /\ UNCHANGED <<category, stored, executed, loaded, minTime, requests,
                     setting, updates>>
      /\ Renewing(c) /\ inflight[c] = 0 /\ info[c].rangeID = row.rangeID
      /\ row' = new /\ info' = [info EXCEPT ![c] = new]
      /\ next' = [next EXCEPT ![c] = FirstId(new.rangeID)]
      /\ max' = [max EXCEPT ![c] = FirstId(new.rangeID + 1)]
      /\ pending' = [pending EXCEPT ![c] = {}]
      /\ lateWrites' = {w \in lateWrites : w.range = new.rangeID}
      /\ lateUpdates' = {v \in lateUpdates : v.prev = new.rangeID}
  BY DEF renewRangeGranted, LeaseHeld, Drained, setRangeID, FirstId,
     FenceLateCalls, callVars, envVars
<1>3. /\ info \in [Contexts -> ShardInfo] /\ next \in [Contexts -> Nat]
      /\ max \in [Contexts -> Nat] /\ pending \in [Contexts -> SUBSET Task]
      /\ row.rangeID \in Nat /\ range \in Nat /\ row.rangeID # range
      /\ \A d \in Contexts : info[d].rangeID \in Nat
  <2>1. /\ info \in [Contexts -> ShardInfo] /\ next \in [Contexts -> Nat]
        /\ max \in [Contexts -> Nat] /\ pending \in [Contexts -> SUBSET Task]
    BY <1>1 DEF Typed, TypedKeys, TypedQueue
  <2>2. row.rangeID \in Nat /\ \A d \in Contexts : info[d].rangeID \in Nat
    BY <1>1 DEF Typed, TypedStore, TypedQueue, ShardInfo
  <2> QED BY <2>1, <2>2, SMT
<1>a. \A n \in Nat : n <= row.rangeID => n # range
  BY <1>3, SMT DEF range
<1>4. new.rangeID = range /\ new.done = info[c].done /\ new.high = info[c].high
  BY <1>2, <1>3 DEF ShardInfo
<1>5. \/ /\ lock[c] = "acquire" /\ engine[c] = "none"
         /\ engine' = [engine EXCEPT ![c] = "started"]
         /\ queue' = [queue EXCEPT ![c] = [done |-> new.done, high |-> new.high,
                                           deleted |-> new.done]]
      \/ engine' = engine /\ queue' = queue
  BY DEF renewRangeGranted, createEngine
<1> HIDE DEF new, range
<1>6. /\ row'.rangeID = range /\ info'[c] = new
      /\ next'[c] = FirstId(range) /\ max'[c] = FirstId(range + 1)
      /\ pending'[c] = {}
      /\ \A d \in Contexts : d # c => /\ info'[d] = info[d] /\ next'[d] = next[d]
                                      /\ max'[d] = max[d]
                                      /\ pending'[d] = pending[d]
  BY <1>2, <1>3, <1>4
<1>7. lateWrites' = {} /\ lateUpdates' = {}
  BY <1>2, <1>3, <1>4 DEF RangeInv, LateCalls
<1>8. Late' = {}
  BY <1>7 DEF Late
<1>9. loaded[c] /\ (lock[c] # "write" => setting[c].tasks = {})
      /\ (setting[c].tasks # {} => max[c] # 0) /\ (engine[c] # "none" => max[c] # 0)
      /\ (max[c] # 0 => Owns(c))
  <2>1. Life(c)
    BY <1>1 DEF LifeInv
  <2>2. lock[c] # "none"
    BY <1>2 DEF Renewing
  <2> QED BY <1>2, <2>1, <2>2 DEF Life, Owns
<1>10. Unanswered(c) = {}
  BY <1>2 DEF DrainInv
<1>11. /\ \A d \in Contexts : /\ Live(d)' = Live(d)
                              /\ Unanswered(d)' = Unanswered(d)
       /\ Live(c) = setting[c].tasks
       /\ \A t : Position(t)' = Position(t)
  <2>1. \A d \in Contexts : Live(d)' = Live(d) /\ Unanswered(d)' = Unanswered(d)
    BY <1>2 DEF Live, Unanswered
  <2>2. Live(c) = setting[c].tasks
    BY <1>10 DEF Live
  <2> QED BY <1>2, <2>1, <2>2, SamePosition
<1>12. \A d \in Contexts : d # c => ~Owns(d)' /\ info'[d].rangeID # row'.rangeID
  <2>1. \A d \in Contexts : info[d].rangeID <= row.rangeID
    BY DEF RangeInv, RangeOf
  <2>2. \A d \in Contexts : d # c => info'[d].rangeID # row'.rangeID
    BY <1>3, <1>6, <1>a, <2>1
  <2> QED BY <2>2 DEF Owns
<1>13. \A m \in Marks' : m = new
  <2>1. \A d \in Contexts : \A v \in updates[d] : v.prev <= row.rangeID
    BY DEF RangeInv, RangeOf
  <2>2. \A d \in Contexts : \A v \in updates[d] : v \in ShardUpdate
    BY <1>1 DEF Typed, TypedCalls
  <2>3. \A v \in ShardUpdate : v.prev \in Nat
    BY DEF ShardUpdate
  <2>4. \A d \in Contexts : \A v \in updates'[d] : v.prev # row'.rangeID
    BY <1>2, <1>6, <1>a, <2>1, <2>2, <2>3
  <2>5. \A d \in Contexts : info'[d].rangeID = row'.rangeID => info'[d] = new
    BY <1>6, <1>12
  <2>6. row' = new /\ \A v \in lateUpdates' : FALSE
    BY <1>2, <1>7
  <2> QED BY <2>4, <2>5, <2>6, MarkCasesNext
<1>14. /\ info[c] \in Marks /\ Covers(info[c])
       /\ info[c].done \in Nat /\ info[c].high \in Nat
       /\ info[c].done <= info[c].high
       /\ \A t \in stored : info[c].done <= Position(t)
       /\ Owns(c) => info[c].done <= Horizon(c)
                     /\ \A t \in Live(c) : info[c].done <= Position(t)
       /\ category = "immediate" => info[c].high <= FirstId(range)
       /\ category = "scheduled" /\ engine[c] = "none" => info[c].high <= minTime[c]
  <2>1. info[c] \in Marks
    BY <1>2, <1>9, MarkCases
  <2>2. Covers(info[c])
    BY <1>1, <2>1 DEF CoverInv
  <2>3. info[c].done \in Nat /\ info[c].high \in Nat
    BY <1>1, <2>1, MarkTypes
  <2>4. /\ category = "immediate" => info[c].high <= FirstId(range)
        /\ category = "scheduled" /\ engine[c] = "none" => info[c].high <= minTime[c]
    BY <1>1, <1>9, <2>1 DEF BoundInv, range
  <2>5. \A t \in stored : info[c].done <= Position(t)
    BY <2>2 DEF Covers
  <2> QED BY <2>1, <2>2, <2>3, <2>4, <2>5 DEF Covers
<1>15. /\ FirstId(range) \in Nat /\ FirstId(range + 1) \in Nat
       /\ FirstId(range) < FirstId(range + 1)
  BY <1>3, FirstIdFacts, SMT
<1>16. category \in Categories /\ minTime[c] \in Nat
  BY <1>1 DEF Typed, TypedStore, TypedKeys
<1>17. /\ category = "immediate" => Horizon(c)' = FirstId(range)
       /\ category = "scheduled" => Horizon(c)' = minTime[c] /\ Horizon(c) = minTime[c]
       /\ \A d \in Contexts : d # c => Horizon(d)' = Horizon(d)
  BY <1>2, <1>6, <1>16 DEF Horizon, Categories
<1>18. new.done <= Horizon(c)' /\ \A t \in Live(c) : new.done <= Position(t)
  <2>1. CASE category = "immediate"
    <3>1. new.done <= Horizon(c)'
      BY <1>4, <1>14, <1>15, <1>17, <2>1, SMT
    <3>2. \A t \in Live(c) : new.done <= Position(t)
      BY <1>4, <1>9, <1>11, <1>14
    <3> QED BY <3>1, <3>2
  <2>2. CASE category = "scheduled"
    <3>1. new.done <= Horizon(c)'
      <4>1. CASE engine[c] = "none"
        BY <1>4, <1>14, <1>16, <1>17, <2>2, <4>1, SMT
      <4>2. CASE engine[c] # "none"
        BY <1>4, <1>9, <1>14, <1>17, <2>2, <4>2
      <4> QED BY <4>1, <4>2
    <3>2. \A t \in Live(c) : new.done <= Position(t)
      BY <1>4, <1>9, <1>11, <1>14
    <3> QED BY <3>1, <3>2
  <2> QED BY <1>16, <2>1, <2>2 DEF Categories
<1>19. \A d \in Contexts : d # c => (Running(d)' <=> Running(d)) /\ queue'[d] = queue[d]
  BY <1>1, <1>5 DEF Running, Typed, TypedLife, TypedQueue
<1>20. Running(c)' =>
         \/ /\ lock[c] = "acquire" /\ engine[c] = "none"
            /\ queue'[c].done = new.done /\ queue'[c].high = new.high
            /\ queue'[c].deleted = new.done
         \/ Running(c) /\ queue'[c] = queue[c] /\ engine[c] # "none"
  <2> DEFINE q == [done |-> new.done, high |-> new.high, deleted |-> new.done]
  <2>1. q.done = new.done /\ q.high = new.high /\ q.deleted = new.done
    OBVIOUS
  <2>2. DOMAIN queue = Contexts
    BY <1>1 DEF Typed, TypedQueue
  <2>3. \/ lock[c] = "acquire" /\ engine[c] = "none" /\ queue' = [queue EXCEPT ![c] = q]
        \/ engine' = engine /\ queue' = queue
    BY <1>5
  <2> HIDE DEF q
  <2>4. CASE queue' = [queue EXCEPT ![c] = q]
    BY <2>1, <2>2, <2>3, <2>4 DEF Running
  <2>5. CASE engine' = engine /\ queue' = queue
    BY <2>5 DEF Running
  <2> QED BY <2>3, <2>4, <2>5
<1>21. PendingInv'
  <2>1. \A vs : LeastKeys(vs)' = LeastKeys(vs)
    BY <1>11 DEF LeastKeys, KeyLeq
  <2>2. \A d \in Contexts : \A r \in Unanswered(d) : LeastKeys(r.tasks) \subseteq pending'[d]
    BY <1>1, <1>6, <1>10 DEF PendingInv
  <2>3. \A d \in Contexts : \A r \in Unanswered(d)' : LeastKeys(r.tasks)' \subseteq pending'[d]
    BY <1>11, <2>1, <2>2
  <2> QED BY <1>7, <2>3 DEF PendingInv
<1>22. QueueInv'
  <2> SUFFICES ASSUME NEW d \in Contexts, Running(d)'
               PROVE /\ queue'[d].deleted <= queue'[d].done
                     /\ queue'[d].done <= queue'[d].high
                     /\ queue'[d].high <= Horizon(d)'
                     /\ \A t \in Live(d) : queue'[d].high <= Position(t)
    BY <1>8, <1>11 DEF QueueInv
  <2>1. CASE d # c
    BY <1>1, <1>17, <1>19, <2>1 DEF QueueInv
  <2>2. CASE d = c
    <3>1. CASE /\ lock[c] = "acquire" /\ engine[c] = "none"
               /\ queue'[c].done = new.done /\ queue'[c].high = new.high
               /\ queue'[c].deleted = new.done
      <4>1. Live(c) = {}
        BY <1>9, <1>11, <3>1
      <4>2. new.high <= Horizon(c)'
        BY <1>4, <1>14, <1>16, <1>17, <3>1 DEF Categories
      <4>4. new.done <= new.done /\ new.done <= new.high
        BY <1>4, <1>14, NatOrder
      <4> QED BY <2>2, <3>1, <4>1, <4>2, <4>4
    <3>2. CASE Running(c) /\ queue'[c] = queue[c] /\ engine[c] # "none"
      <4>1. /\ queue[c].deleted <= queue[c].done
            /\ queue[c].done <= queue[c].high
            /\ queue[c].high <= Horizon(c)
            /\ category = "immediate" => queue[c].high <= max[c]
        BY <1>1, <3>2, RunningFacts
      <4>2. max[c] = FirstId(range)
        BY <1>2, <1>9, <3>2 DEF RangeInv, RangeOf, range
      <4>3. queue[c].high <= Horizon(c)'
        BY <1>16, <1>17, <4>1, <4>2 DEF Categories
      <4>4. \A t \in Live(c) : queue[c].high <= Position(t)
        BY <1>1, <3>2 DEF QueueInv
      <4> QED BY <2>2, <3>2, <4>1, <4>3, <4>4
    <3> QED BY <1>20, <2>2, <3>1, <3>2
  <2> QED BY <2>1, <2>2
<1>23. BehindInv'
  <2> SUFFICES ASSUME category = "immediate" PROVE BehindInv'
    BY <1>2 DEF BehindInv
  <2>1. ASSUME NEW e \in Contexts, NEW d \in Contexts, e # d, Owns(d)',
               NEW t \in Live(d)'
        PROVE max'[e] <= t.id
    <3>1. d = c /\ t \in Live(c)
      BY <1>11, <1>12, <2>1
    <3>2. Owns(c)
      BY <1>9, <1>11, <3>1
    <3> QED BY <1>1, <1>6, <2>1, <3>1, <3>2 DEF BehindInv
  <2>2. \A d \in Contexts : \A t \in Late' : max'[d] <= t.id
    BY <1>8
  <2> QED BY <2>1, <2>2 DEF BehindInv
<1>24. CoverInv'
  <2>1. \A t \in stored' \cup Late' : new.done <= Position(t)'
    BY <1>2, <1>4, <1>8, <1>11, <1>14
  <2>2. \A d \in Contexts : Owns(d)' =>
          new.done <= Horizon(d)' /\ \A t \in Live(d)' : new.done <= Position(t)'
    BY <1>11, <1>12, <1>18
  <2>3. new.done <= new.high
    BY <1>4, <1>14
  <2>4. ASSUME NEW m \in Marks' PROVE Covers(m)'
    <3>1. m = new
      BY <1>13
    <3> QED BY <2>1, <2>2, <2>3, <3>1 DEF Covers
  <2> QED BY <2>4 DEF CoverInv
<1>25. BoundInv'
  <2>1. category = "immediate" => new.high <= FirstId(range + 1)
    <3> QED BY <1>4, <1>14, <1>15, NatOrder
  <2>2. category' = "immediate" => \A m \in Marks' : m.high <= FirstId(row'.rangeID + 1)
    BY <1>2, <1>6, <1>13, <2>1
  <2>3. \A d \in Contexts : engine'[d] = "none" => engine[d] = "none"
    BY <1>1, <1>5 DEF Typed, TypedLife
  <2>4. \A d \in Contexts : info'[d].high = info[d].high
    BY <1>4, <1>6
  <2>5. category' = "scheduled" => \A d \in Contexts :
          loaded'[d] /\ engine'[d] = "none" => info'[d].high <= minTime'[d]
    BY <1>1, <1>2, <2>3, <2>4 DEF BoundInv
  <2> QED BY <2>2, <2>5 DEF BoundInv
<1>26. DeletedInv'
  <2> SUFFICES ASSUME NEW d \in Contexts, Running(d)', NEW t \in stored
               PROVE /\ Owns(d)' => queue'[d].deleted <= Position(t)
                     /\ category = "immediate" =>
                          (Position(t) \in queue'[d].deleted..queue'[d].done - 1
                             => t \in executed)
    BY <1>2, <1>11 DEF DeletedInv
  <2>1. CASE d # c
    BY <1>1, <1>12, <1>19, <2>1 DEF DeletedInv
  <2>2. CASE d = c
    <3>1. CASE /\ lock[c] = "acquire" /\ engine[c] = "none"
               /\ queue'[c].done = new.done /\ queue'[c].high = new.high
               /\ queue'[c].deleted = new.done
      <4>1. new.done <= Position(t)
        BY <1>4, <1>14
      <4>2. Position(t) \notin new.done..new.done - 1
        BY <1>4, <1>14, SMT
      <4> QED BY <2>2, <3>1, <4>1, <4>2
    <3>2. CASE Running(c) /\ queue'[c] = queue[c] /\ engine[c] # "none"
      BY <1>1, <1>9, <2>2, <3>2 DEF DeletedInv
    <3> QED BY <1>20, <2>2, <3>1, <3>2
  <2> QED BY <2>1, <2>2
<1> QED BY <1>21, <1>22, <1>23, <1>24, <1>25, <1>26 DEF MarksInv

\* Steps that stop or publish an engine, and steps that change nothing here.
LEMMA MarksEngine ==
    ASSUME BaseInv, Typed', RangeInv, MarksInv,
           UNCHANGED <<category, row, stored, lateWrites, lateUpdates, executed,
                       info, loaded, next, max, minTime, pending, requests,
                       setting, updates>>,
           \A d \in Contexts : Running(d)' => Running(d) /\ queue'[d] = queue[d],
           \A d \in Contexts : engine'[d] = "none" => engine[d] = "none"
    PROVE MarksInv'
<1>1. /\ Marks' = Marks
      /\ \A d \in Contexts : /\ Owns(d)' <=> Owns(d)
                             /\ Live(d)' = Live(d)
                             /\ Unanswered(d)' = Unanswered(d)
                             /\ Horizon(d)' = Horizon(d)
  <2>1. Marks' = Marks
    BY SameMarks
  <2>2. \A d \in Contexts : Owns(d)' <=> Owns(d)
    BY DEF Owns
  <2>3. \A d \in Contexts : /\ Live(d)' = Live(d) /\ Unanswered(d)' = Unanswered(d)
                            /\ Horizon(d)' = Horizon(d)
    BY DEF Live, Unanswered, Horizon
  <2> QED BY <2>1, <2>2, <2>3
<1>2. \A d \in Contexts : Horizon(d) <= Horizon(d)'
  <2>2. \A d \in Contexts : Horizon(d) \in Nat
    BY MarkTypes DEF BaseInv
  <2> QED BY <1>1, NatOrder, <2>2
<1>3. category = "scheduled" => \A d \in Contexts :
        loaded'[d] /\ engine'[d] = "none" => info'[d].high <= minTime'[d]
  BY DEF MarksInv, BoundInv
<1>4. \A m \in Marks' : \E k \in Marks : m.done = k.done /\ m.high = k.high
  BY <1>1
<1>5. \A d \in Contexts : /\ Live(d)' \subseteq Live(d)
                          /\ Unanswered(d)' \subseteq Unanswered(d)
                          /\ pending[d] \subseteq pending'[d]
  BY <1>1
<1>6. stored' \subseteq stored \cup Late /\ lateWrites' \subseteq lateWrites
      /\ executed \subseteq executed'
  OBVIOUS
<1> QED BY <1>1, <1>2, <1>3, <1>4, <1>5, <1>6, MarksKept

\* Steps that leave the engines alone, give no key, write nothing but late
\* tasks, and bring in no mark but those there are.
LEMMA MarksQuiet ==
    ASSUME BaseInv, Typed', RangeInv, MarksInv,
           UNCHANGED <<category, executed, info, loaded, max, minTime, pending,
                       engine, queue>>,
           row'.rangeID = row.rangeID, row' \in Marks,
           \A d \in Contexts : next[d] <= next'[d],
           \A d \in Contexts : setting'[d].tasks \subseteq setting[d].tasks,
           \A d \in Contexts : requests'[d] \subseteq requests[d],
           \A d \in Contexts : updates'[d] \subseteq updates[d],
           lateWrites' \subseteq lateWrites, stored' \subseteq stored \cup Late,
           \A u \in lateUpdates' :
               \E k \in Marks : u.info.done = k.done /\ u.info.high = k.high
    PROVE MarksInv'
<1>1. \A d \in Contexts : /\ Owns(d)' <=> Owns(d)
                          /\ Running(d)' <=> Running(d)
  BY DEF Owns, Running
<1>2. \A d \in Contexts : /\ Unanswered(d)' \subseteq Unanswered(d)
                          /\ Live(d)' \subseteq Live(d)
  <2>1. \A d \in Contexts : Unanswered(d)' \subseteq Unanswered(d)
    BY DEF Unanswered
  <2>2. \A d \in Contexts : Live(d)' \subseteq Live(d)
    BY <2>1 DEF Live
  <2> QED BY <2>1, <2>2
<1>3. \A d \in Contexts : Horizon(d) <= Horizon(d)'
  <2>2. \A d \in Contexts : minTime[d] \in Nat
    BY DEF BaseInv, Typed, TypedKeys
  <2>3. CASE category = "immediate"
    BY <2>3 DEF Horizon
  <2>4. CASE category # "immediate"
    BY NatOrder, <2>2, <2>4 DEF Horizon
  <2> QED BY <2>3, <2>4
<1>4. \A m \in Marks' : \E k \in Marks : m.done = k.done /\ m.high = k.high
  <2> SUFFICES ASSUME NEW m \in Marks'
               PROVE \E k \in Marks : m.done = k.done /\ m.high = k.high
    OBVIOUS
  <2>1. CASE m = row'
    BY <2>1
  <2>2. CASE \E d \in Contexts : /\ loaded'[d] /\ info'[d].rangeID = row'.rangeID
                                 /\ m = info'[d]
    <3>1. m \in Marks
      BY <2>2, MarkCases
    <3> QED BY <3>1
  <2>3. CASE \E d \in Contexts : \E v \in updates'[d] : v.prev = row'.rangeID
                                                        /\ m = v.info
    <3>1. m \in Marks
      BY <2>3, MarkCases
    <3> QED BY <3>1
  <2>4. CASE \E v \in lateUpdates' : m = v.info
    BY <2>4
  <2> QED BY <2>1, <2>2, <2>3, <2>4, MarkCasesNext
<1>5. category = "scheduled" => \A d \in Contexts :
        loaded'[d] /\ engine'[d] = "none" => info'[d].high <= minTime'[d]
  BY DEF MarksInv, BoundInv
<1>6. executed \subseteq executed' /\ \A d \in Contexts : pending[d] \subseteq pending'[d]
  OBVIOUS
<1> QED BY <1>1, <1>2, <1>3, <1>4, <1>5, <1>6, MarksKept

\* Loading the shard: the row is a mark already, and no timer of the context
\* will fire before its high mark.
LEMMA MarksLoad ==
    ASSUME BaseInv, Typed', RangeInv, MarksInv, NEW c \in Contexts,
           loadShardMetadata(c)
    PROVE MarksInv'
<1>1. /\ Typed /\ Life(c)
      /\ UNCHANGED <<category, row, stored, lateWrites, lateUpdates, executed, next,
                     max, pending, requests, setting, updates, engine, queue>>
  BY DEF BaseInv, LifeInv, loadShardMetadata, storeVars, callVars, envVars
<1>2. CASE loaded[c]
  <2>1. UNCHANGED <<info, loaded, minTime>>
    BY <1>2 DEF loadShardMetadata, infoVars
  <2>2. \A d \in Contexts : Running(d)' => Running(d) /\ queue'[d] = queue[d]
    BY <1>1 DEF Running
  <2> QED BY <1>1, <2>1, <2>2, MarksEngine
<1>3. CASE ~loaded[c]
  <2> DEFINE t == row.high + Precision
  <2>1. /\ loaded' = [loaded EXCEPT ![c] = TRUE]
        /\ info' = [info EXCEPT ![c] = row]
        /\ minTime' = [minTime EXCEPT ![c] = MinScheduledTime(c, t)]
    BY <1>3 DEF loadShardMetadata
  <2>2. max[c] = 0 /\ engine[c] = "none"
    BY <1>1, <1>3 DEF Life
  <2>3. t \in Nat /\ row.high \in Nat
    BY <1>1, ShardAssumption, SMT DEF Typed, TypedStore, ShardInfo
  <2>4. /\ MinScheduledTime(c, t) \in Nat
        /\ category = "scheduled" => /\ minTime[c] <= MinScheduledTime(c, t)
                                     /\ Truncate(t) <= MinScheduledTime(c, t)
    BY <1>1, <2>3, MinScheduledTimeFacts
  <2>5. row.high <= Truncate(t) /\ Truncate(t) \in Nat
    BY <2>3, TruncateRoundsDown
  <2> HIDE DEF t
  <2>6. category = "scheduled" => row.high <= MinScheduledTime(c, t)
    BY <2>3, <2>4, <2>5, SMT
  <2>7. /\ info \in [Contexts -> ShardInfo] /\ loaded \in [Contexts -> BOOLEAN]
        /\ minTime \in [Contexts -> Nat] /\ next \in [Contexts -> Nat]
        /\ category \in Categories
    BY <1>1 DEF Typed, TypedQueue, TypedLife, TypedKeys, TypedStore
  <2>8. \A d \in Contexts : d # c => /\ info'[d] = info[d] /\ loaded'[d] = loaded[d]
                                     /\ minTime'[d] = minTime[d]
    BY <2>1, <2>7
  <2>9. info'[c] = row /\ minTime'[c] = MinScheduledTime(c, t)
    BY <2>1, <2>7
  <2>10. category = "scheduled" => \A d \in Contexts :
           loaded'[d] /\ engine'[d] = "none" => info'[d].high <= minTime'[d]
    <3>1. ASSUME category = "scheduled", NEW d \in Contexts, loaded'[d],
                 engine'[d] = "none"
          PROVE info'[d].high <= minTime'[d]
      <4>1. CASE d = c
        BY <2>6, <2>9, <3>1, <4>1
      <4>2. CASE d # c
        BY <1>1, <2>8, <3>1, <4>2 DEF MarksInv, BoundInv
      <4> QED BY <4>1, <4>2
    <3> QED BY <3>1
  <2>11. \A d \in Contexts : Owns(d)' <=> Owns(d)
    BY <1>1, <2>2, <2>8 DEF Owns
  <2>12. \A d \in Contexts : /\ Live(d)' \subseteq Live(d)
                             /\ Unanswered(d)' \subseteq Unanswered(d)
                             /\ pending[d] \subseteq pending'[d]
                             /\ Running(d)' => Running(d) /\ queue'[d] = queue[d]
    BY <1>1 DEF Live, Unanswered, Running
  <2>13. \A d \in Contexts : Horizon(d) <= Horizon(d)'
    BY <1>1, <2>1, <2>4, <2>7, SMT DEF Horizon, Categories
  <2>14. \A m \in Marks' : m \in Marks
    <3> SUFFICES ASSUME NEW m \in Marks' PROVE m \in Marks
      OBVIOUS
    <3>1. CASE m = row'
      BY <1>1, <3>1, MarkCases
    <3>2. CASE \E d \in Contexts : /\ loaded'[d] /\ info'[d].rangeID = row'.rangeID
                                   /\ m = info'[d]
      <4>1. PICK d \in Contexts : /\ loaded'[d] /\ info'[d].rangeID = row'.rangeID
                                  /\ m = info'[d]
        BY <3>2
      <4>2. CASE d = c
        BY <2>9, <4>1, <4>2, MarkCases
      <4>3. CASE d # c
        <5>1. loaded[d] /\ info[d].rangeID = row.rangeID /\ m = info[d]
          BY <1>1, <2>8, <4>1, <4>3
        <5> QED BY <5>1, MarkCases
      <4> QED BY <4>2, <4>3
    <3>3. CASE \E d \in Contexts : \E v \in updates'[d] : v.prev = row'.rangeID
                                                          /\ m = v.info
      BY <1>1, <3>3, MarkCases
    <3>4. CASE \E v \in lateUpdates' : m = v.info
      BY <1>1, <3>4, MarkCases
    <3> QED BY <3>1, <3>2, <3>3, <3>4, MarkCasesNext
  <2>15. \A m \in Marks' : \E k \in Marks : m.done = k.done /\ m.high = k.high
    BY <2>14
  <2>16. stored' \subseteq stored \cup Late /\ lateWrites' \subseteq lateWrites
         /\ executed \subseteq executed'
    BY <1>1
  <2>17. row'.rangeID = row.rangeID
    BY <1>1
  <2> QED BY <1>1, <2>10, <2>11, <2>12, <2>13, <2>15, <2>16, <2>17, MarksKept
<1> QED BY <1>2, <1>3

\* A renewal that is refused, or whose outcome is unknown: if it commits after
\* all, it brings the marks that its caller has.
LEMMA MarksRefused ==
    ASSUME BaseInv, Typed', RangeInv, MarksInv, NEW c \in Contexts,
           NEW answer \in Answers, renewRangeRefused(c, answer)
    PROVE MarksInv'
<1> DEFINE u == [prev |-> info[c].rangeID,
                 info |-> [info[c] EXCEPT !.rangeID = @ + 1]]
<1>1. /\ UNCHANGED <<category, executed, info, loaded, max, minTime, pending,
                     engine, queue, row, next, requests, updates, lateWrites,
                     stored>>
      /\ setting' = [setting EXCEPT ![c] = NotSetting]
  BY DEF renewRangeRefused, infoVars, keyVars, callVars
<1>2. lateUpdates' = lateUpdates \/ TimesOut(u)
  BY DEF renewRangeRefused
<1>3. lock[c] # "none"
  BY DEF renewRangeRefused, Renewing
<1>4. loaded[c] /\ Typed
  BY <1>3 DEF BaseInv, LifeInv, Life
<1>5. u.prev = info[c].rangeID /\ u.info.done = info[c].done /\ u.info.high = info[c].high
  BY <1>4 DEF Typed, TypedQueue, ShardInfo
<1> HIDE DEF u
<1>6. \A v \in lateUpdates' : v \in lateUpdates \/ (v = u /\ info[c].rangeID = row.rangeID)
  BY <1>2, <1>5 DEF TimesOut, LeaseHeld
<1>7. \A v \in lateUpdates' :
        \E k \in Marks : v.info.done = k.done /\ v.info.high = k.high
  BY <1>4, <1>5, <1>6, MarkCases
<1>8. \A d \in Contexts : setting'[d].tasks \subseteq setting[d].tasks
  BY <1>1, <1>4 DEF Typed, TypedCalls, NotSetting
<1>9. \A d \in Contexts : next[d] <= next'[d]
  BY <1>1, <1>4, SMT DEF Typed, TypedKeys
<1>10. /\ row'.rangeID = row.rangeID /\ row' \in Marks
       /\ lateWrites' \subseteq lateWrites /\ stored' \subseteq stored \cup Late
  BY <1>1, MarkCases
<1>11. \A d \in Contexts : requests'[d] \subseteq requests[d]
                           /\ updates'[d] \subseteq updates[d]
  BY <1>1
<1> QED BY <1>1, <1>7, <1>8, <1>9, <1>10, <1>11, MarksQuiet

\* The saved queue state is one of the marks, whatever becomes of the call.
LEMMA MarksUpdateCommits ==
    ASSUME BaseInv, Typed', RangeInv, MarksInv, NEW c \in Contexts,
           NEW u \in updates[c], UpdateShardCommits(c, u)
    PROVE MarksInv'
<1>1. /\ UNCHANGED <<category, executed, info, loaded, max, minTime, pending,
                     engine, queue, next, requests, setting, lateWrites,
                     lateUpdates, stored>>
      /\ updates' = [updates EXCEPT ![c] = @ \ {u}]
      /\ row' = u.info /\ u.prev = row.rangeID
  BY DEF UpdateShardCommits, LeaseHeld, lifeVars, infoVars, keyVars,
     lockVars, envVars
<1>2. row'.rangeID = row.rangeID /\ row' \in Marks
  BY <1>1, MarkCases DEF RangeInv, RangeOf
<1>3. \A d \in Contexts : updates'[d] \subseteq updates[d]
  BY <1>1 DEF BaseInv, Typed, TypedCalls
<1>4. \A d \in Contexts : next[d] <= next'[d]
  BY <1>1, SMT DEF BaseInv, Typed, TypedKeys
<1>5. \A v \in lateUpdates' :
        \E k \in Marks : v.info.done = k.done /\ v.info.high = k.high
  BY <1>1, MarkCases
<1>6. /\ lateWrites' \subseteq lateWrites /\ stored' \subseteq stored \cup Late
      /\ \A d \in Contexts : /\ requests'[d] \subseteq requests[d]
                             /\ setting'[d].tasks \subseteq setting[d].tasks
  BY <1>1
<1> QED BY <1>1, <1>2, <1>3, <1>4, <1>5, <1>6, MarksQuiet

\* An update whose outcome is unknown stays one of the marks while it can commit.
LEMMA MarksUpdateFails ==
    ASSUME BaseInv, Typed', RangeInv, MarksInv, NEW c \in Contexts,
           NEW u \in updates[c], NEW answer \in Answers,
           UpdateShardFails(c, u, answer)
    PROVE MarksInv'
<1>1. /\ UNCHANGED <<category, executed, info, loaded, max, minTime, pending,
                     engine, queue, row, next, requests, setting, lateWrites,
                     stored>>
      /\ updates' = [updates EXCEPT ![c] = @ \ {u}]
      /\ lateUpdates' = lateUpdates \/ TimesOut(u)
  BY DEF UpdateShardFails, infoVars, keyVars, lockVars
<1>2. \A v \in lateUpdates' : v \in lateUpdates \/ (v = u /\ u.prev = row.rangeID)
  BY <1>1 DEF TimesOut, LeaseHeld
<1>3. \A v \in lateUpdates' :
        \E k \in Marks : v.info.done = k.done /\ v.info.high = k.high
  BY <1>2, MarkCases
<1>4. \A d \in Contexts : updates'[d] \subseteq updates[d]
  BY <1>1 DEF BaseInv, Typed, TypedCalls
<1>5. \A d \in Contexts : next[d] <= next'[d]
  BY <1>1, SMT DEF BaseInv, Typed, TypedKeys
<1>6. /\ lateWrites' \subseteq lateWrites /\ stored' \subseteq stored \cup Late
      /\ row'.rangeID = row.rangeID /\ row' \in Marks
      /\ \A d \in Contexts : /\ requests'[d] \subseteq requests[d]
                             /\ setting'[d].tasks \subseteq setting[d].tasks
  BY <1>1, MarkCases
<1> QED BY <1>1, <1>3, <1>4, <1>5, <1>6, MarksQuiet

\* A caller that only wants an id, and one that learns of its answer.
LEMMA MarksIdOrReturn ==
    ASSUME BaseInv, Typed', RangeInv, MarksInv, NEW c \in Contexts,
           GenerateTaskID(c) \/ \E r \in requests[c] : writeReturns(c, r)
    PROVE MarksInv'
<1>1. /\ UNCHANGED <<category, executed, info, loaded, max, minTime, pending,
                     engine, queue, row, setting, updates, lateWrites,
                     lateUpdates, stored>>
      /\ \/ next' = next
         \/ next' = [next EXCEPT ![c] = @ + 1]
      /\ \/ requests' = requests
         \/ \E r \in requests[c] : requests' = [requests EXCEPT ![c] = @ \ {r}]
  <2>1. CASE GenerateTaskID(c)
    BY <2>1 DEF GenerateTaskID, storeVars, lifeVars, infoVars, callVars
  <2>2. CASE \E r \in requests[c] : writeReturns(c, r)
    BY <2>2 DEF writeReturns, storeVars, infoVars, keyVars, lockVars, envVars
  <2> QED BY <2>1, <2>2
<1>2. \A d \in Contexts : requests'[d] \subseteq requests[d]
  <2>1. requests \in [Contexts -> SUBSET Request]
    BY DEF BaseInv, Typed, TypedCalls
  <2>2. CASE requests' = requests
    BY <2>2
  <2>3. ASSUME NEW r \in requests[c], requests' = [requests EXCEPT ![c] = @ \ {r}]
        PROVE \A d \in Contexts : requests'[d] \subseteq requests[d]
    BY <2>1, <2>3
  <2> QED BY <1>1, <2>2, <2>3
<1>3. \A d \in Contexts : next[d] <= next'[d]
  BY <1>1, SMT DEF BaseInv, Typed, TypedKeys
<1>4. \A v \in lateUpdates' :
        \E k \in Marks : v.info.done = k.done /\ v.info.high = k.high
  BY <1>1, MarkCases
<1>5. /\ lateWrites' \subseteq lateWrites /\ stored' \subseteq stored \cup Late
      /\ row'.rangeID = row.rangeID /\ row' \in Marks
      /\ \A d \in Contexts : /\ updates'[d] \subseteq updates[d]
                             /\ setting'[d].tasks \subseteq setting[d].tasks
  BY <1>1, MarkCases
<1> QED BY <1>1, <1>2, <1>3, <1>4, <1>5, MarksQuiet

\* A late write that commits was covered as a late one.
LEMMA MarksLateWrite ==
    ASSUME BaseInv, Typed', RangeInv, MarksInv, NEW w \in lateWrites,
           lateWriteLands(w)
    PROVE MarksInv'
<1>1. /\ UNCHANGED <<category, executed, info, loaded, max, minTime, pending,
                     engine, queue, row, next, requests, setting, updates,
                     lateUpdates>>
      /\ stored' = stored \cup w.tasks /\ lateWrites' = lateWrites \ {w}
  BY DEF lateWriteLands, lifeVars, infoVars, keyVars, lockVars, callVars,
     envVars
<1>2. stored' \subseteq stored \cup Late
  BY <1>1 DEF Late
<1>3. \A d \in Contexts : next[d] <= next'[d]
  BY <1>1, SMT DEF BaseInv, Typed, TypedKeys
<1>4. \A v \in lateUpdates' :
        \E k \in Marks : v.info.done = k.done /\ v.info.high = k.high
  BY <1>1, MarkCases
<1>5. /\ lateWrites' \subseteq lateWrites
      /\ row'.rangeID = row.rangeID /\ row' \in Marks
      /\ \A d \in Contexts : /\ updates'[d] \subseteq updates[d]
                             /\ requests'[d] \subseteq requests[d]
                             /\ setting'[d].tasks \subseteq setting[d].tasks
  BY <1>1, MarkCases
<1> QED BY <1>1, <1>2, <1>3, <1>4, <1>5, MarksQuiet

\* A late update that commits was one of the marks, or is a late renewal.
LEMMA MarksLateUpdate ==
    ASSUME BaseInv, Typed', RangeInv, RangeInv', MarksInv, NEW u \in lateUpdates,
           lateUpdateLands(u)
    PROVE MarksInv'
<1>1. CASE u.info.rangeID # u.prev
  BY <1>1, MarksLateRenewal
<1>2. CASE u.info.rangeID = u.prev
  <2>1. /\ UNCHANGED <<category, executed, info, loaded, max, minTime, pending,
                       engine, queue, next, requests, setting, updates,
                       lateWrites, stored>>
        /\ row' = u.info /\ u.prev = row.rangeID
        /\ lateUpdates' = lateUpdates \ {u}
    BY <1>2 DEF lateUpdateLands, LeaseHeld, lifeVars, infoVars, keyVars,
       lockVars, callVars, envVars
  <2>2. row'.rangeID = row.rangeID /\ row' \in Marks
    BY <1>2, <2>1, MarkCases
  <2>3. \A d \in Contexts : next[d] <= next'[d]
    BY <2>1, SMT DEF BaseInv, Typed, TypedKeys
  <2>4. \A v \in lateUpdates' :
          \E k \in Marks : v.info.done = k.done /\ v.info.high = k.high
    BY <2>1, MarkCases
  <2>5. /\ lateWrites' \subseteq lateWrites /\ stored' \subseteq stored \cup Late
        /\ \A d \in Contexts : /\ updates'[d] \subseteq updates[d]
                               /\ requests'[d] \subseteq requests[d]
                               /\ setting'[d].tasks \subseteq setting[d].tasks
    BY <2>1
  <2> QED BY <2>1, <2>2, <2>3, <2>4, <2>5, MarksQuiet
<1> QED BY <1>1, <1>2

\* Steps in the life of a context that leave its shard info alone.
LEMMA MarksLife ==
    ASSUME BaseInv, Typed', RangeInv, MarksInv, NEW c \in Contexts,
           \/ start(c) \/ loadShardMetadataFails(c) \/ acquireShardGivesUp(c)
           \/ transitionAcquired(c) \/ FinishStop(c)
    PROVE MarksInv'
<1>1. UNCHANGED <<category, row, stored, lateWrites, lateUpdates, executed,
                  info, loaded, next, max, minTime, pending, requests,
                  setting, updates>>
  BY DEF start, loadShardMetadataFails, acquireShardGivesUp,
     transitionAcquired, FinishStop, storeVars, infoVars, keyVars, lockVars,
     callVars, envVars
<1>2. \/ engine' = engine /\ queue' = queue
      \/ engine' = [engine EXCEPT ![c] = "set"] /\ queue' = queue
           /\ acq[c] = "engine" /\ state[c] = "acquiring"
      \/ /\ engine' = [engine EXCEPT ![c] = "stopped"]
         /\ queue' = [queue EXCEPT ![c] = NoQueue]
  BY DEF start, loadShardMetadataFails, acquireShardGivesUp,
     transitionAcquired, FinishStop, StopEngine
<1>3. acq[c] = "engine" /\ state[c] = "acquiring" => Running(c)
  BY DEF BaseInv, Typed, TypedLife, LifeInv, Life, Running
<1>4. engine \in [Contexts -> {"none", "started", "set", "stopped"}]
      /\ queue \in [Contexts -> [done : Nat, high : Nat, deleted : Nat]]
  BY DEF BaseInv, Typed, TypedLife, TypedQueue
<1>5. \A d \in Contexts : Running(d)' => Running(d) /\ queue'[d] = queue[d]
  BY <1>2, <1>3, <1>4 DEF Running
<1>6. \A d \in Contexts : engine'[d] = "none" => engine[d] = "none"
  BY <1>2, <1>4
<1> QED BY <1>1, <1>5, <1>6, MarksEngine

\* Every step of a context keeps the marks.
LEMMA MarksContextStep ==
    ASSUME BaseInv, Typed', DrainInv, RangeInv, DistinctInv, MarksInv,
           NEW c \in Contexts, ContextStep(c)
    PROVE MarksInv'
<1>1. CASE \/ start(c) \/ loadShardMetadataFails(c) \/ acquireShardGivesUp(c)
           \/ transitionAcquired(c) \/ FinishStop(c)
  BY <1>1, MarksLife
<1>2. CASE loadShardMetadata(c) \/ renewRangeGranted(c) \/ checkpoint(c)
  BY <1>2, MarksLoad, MarksGranted, MarksCheckpoint
<1>3. CASE \E answer \in Answers : renewRangeRefused(c, answer)
  BY <1>3, MarksRefused
<1>4. CASE \/ \E tasks \in Writes[category], now \in Clock : AddTasks(c, tasks, now)
           \/ AddTasksGoesOn(c)
  <2>1. KeysGiven(c)
    BY <1>4, AddTasksGivesKeys, AddTasksGoesOnGivesKeys DEF BaseInv
  <2> QED BY <2>1, MarksKeysGiven
<1>5. CASE GenerateTaskID(c) \/ \E r \in requests[c] : writeReturns(c, r)
  BY <1>5, MarksIdOrReturn
<1>6. CASE \E r \in requests[c], answer \in Answers : writeAnswered(c, r, answer)
  BY <1>6, MarksWriteAnswered
<1>7. CASE \E now \in Clock : processNewRange(c, now)
  BY <1>7, MarksNewRange
<1>8. CASE \E u \in updates[c] :
             \/ UpdateShardCommits(c, u)
             \/ \E answer \in Answers : UpdateShardFails(c, u, answer)
  BY <1>8, MarksUpdateCommits, MarksUpdateFails
<1> QED
  BY <1>1, <1>2, <1>3, <1>4, <1>5, <1>6, <1>7, <1>8 DEF ContextStep

\* The marks of a new shard cover its tasks: there are none.
LEMMA MarksInit == Init => MarksInv
<1> SUFFICES ASSUME Init PROVE MarksInv
  OBVIOUS
<1>1. /\ stored = {} /\ Late = {} /\ lateWrites = {} /\ lateUpdates = {}
      /\ \A c \in Contexts : /\ ~Running(c) /\ ~Owns(c) /\ ~loaded[c]
                             /\ Unanswered(c) = {} /\ updates[c] = {}
  BY DEF Init, Late, Running, Owns, Unanswered
<1>2. \A m \in Marks : m = row
  BY <1>1, MarkCases
<1>3. row = NewShard(category) /\ category \in Categories
  BY DEF Init
<1>4. PendingInv /\ QueueInv /\ BehindInv /\ DeletedInv
  BY <1>1 DEF PendingInv, QueueInv, BehindInv, DeletedInv
<1>5. CoverInv
  BY <1>1, <1>2, <1>3, SMT DEF CoverInv, Covers, NewShard
<1>6. BoundInv
  <2>1. row.rangeID = 0 /\ (category = "immediate" => row.high = 1)
    BY <1>3 DEF NewShard
  <2>2. 1 <= FirstId(0 + 1)
    BY ShardAssumption, SMT DEF FirstId
  <2> QED BY <1>1, <1>2, <2>1, <2>2 DEF BoundInv
<1> QED BY <1>4, <1>5, <1>6 DEF MarksInv

\* The marks cover what can be written, whatever step is taken.
LEMMA MarksNext ==
    BaseInv /\ Typed' /\ DrainInv /\ RangeInv /\ RangeInv' /\ DistinctInv /\ MarksInv
        /\ [Next]_vars => MarksInv'
<1> SUFFICES ASSUME BaseInv, Typed', DrainInv, RangeInv, RangeInv', DistinctInv,
                    MarksInv, [Next]_vars
             PROVE MarksInv'
  OBVIOUS
<1>1. CASE UNCHANGED vars
  <2>1. UNCHANGED <<category, row, stored, lateWrites, lateUpdates, executed,
                    info, loaded, next, max, minTime, pending, requests,
                    setting, updates, engine, queue>>
    BY <1>1 DEF vars, storeVars, lifeVars, infoVars, keyVars, lockVars,
       callVars, envVars
  <2>2. \A d \in Contexts : Running(d)' => Running(d) /\ queue'[d] = queue[d]
    BY <2>1 DEF Running
  <2> QED BY <2>1, <2>2, MarksEngine
<1> QED BY <1>1, MarksContextStep, MarksLateWrite, MarksLateUpdate DEF Next
=============================================================================
