-------------------------- MODULE ShardTasksProofs --------------------------
(***************************************************************************)
(* What ShardTasks promises, proved from the layers of its inductive       *)
(* invariant.  Three of them are here: ranges and who owns them, task ids, *)
(* and the count of requests in flight.                                    *)
(***************************************************************************)
EXTENDS ShardLayers, FiniteSetTheorems

(* Zenon is the prover of a step that names no other. *)
USE Zenon

-----------------------------------------------------------------------------
(* Ranges *)

\* A step that leaves every range where it is: new requests, updates and late
\* calls are made under the range of their context or of the row.
LEMMA RangeKept ==
    ASSUME RangeInv, Typed, Typed',
           row'.rangeID = row.rangeID, max' = max,
           \A d \in Contexts : info'[d].rangeID = info[d].rangeID,
           \A d \in Contexts : next[d] <= next'[d],
           \A d \in Contexts : \A r \in requests'[d] : r.answer = "none" =>
               r \in requests[d] \/ r.range = info[d].rangeID,
           \A d \in Contexts : \A u \in updates'[d] :
               \/ u \in updates[d]
               \/ u.prev = info[d].rangeID /\ u.info.rangeID = u.prev,
           \A w \in lateWrites' : w \in lateWrites \/ w.range = row.rangeID,
           \A u \in lateUpdates' :
               \/ u \in lateUpdates
               \/ u.prev = row.rangeID /\ u.info.rangeID \in {u.prev, u.prev + 1}
    PROVE RangeInv'
<1>1. \A d \in Contexts :
        /\ info[d].rangeID \in Nat /\ next[d] \in Nat /\ next'[d] \in Nat
        /\ FirstId(info[d].rangeID) \in Nat
  BY FirstIdFacts DEF Typed, TypedKeys, TypedQueue, ShardInfo
<1>2. ASSUME NEW d \in Contexts PROVE RangeOf(d)'
  <2>1. RangeOf(d)
    BY DEF RangeInv
  <2>2. info'[d].rangeID <= row'.rangeID
    BY <2>1 DEF RangeOf
  <2>3. max'[d] # 0 => /\ max'[d] = FirstId(info'[d].rangeID + 1)
                       /\ FirstId(info'[d].rangeID) <= next'[d]
    <3>1. max[d] # 0 => FirstId(info[d].rangeID) <= next[d]
      BY <2>1 DEF RangeOf
    <3>2. max[d] # 0 => FirstId(info[d].rangeID) <= next'[d]
      BY <1>1, <3>1, SMT
    <3> QED BY <2>1, <3>2 DEF RangeOf
  <2>4. \A r \in Unanswered(d)' : r.range = info'[d].rangeID
    BY <2>1 DEF RangeOf, Unanswered
  <2>5. \A u \in updates'[d] : u.prev <= row'.rangeID /\ u.info.rangeID = u.prev
    BY <2>1 DEF RangeOf
  <2> QED BY <2>2, <2>3, <2>4, <2>5 DEF RangeOf
<1>3. OneOwner'
  BY SMT DEF RangeInv, OneOwner
<1>4. LateCalls'
  BY DEF RangeInv, LateCalls
<1> QED BY <1>2, <1>3, <1>4 DEF RangeInv

\* Reading the row gives a context its range, but no ids of it.
LEMMA RangeLoad ==
    ASSUME BaseInv, RangeInv, NEW c \in Contexts, loadShardMetadata(c)
    PROVE RangeInv'
<1>1. UNCHANGED <<row, lateWrites, lateUpdates, next, max, requests, updates>>
  BY DEF loadShardMetadata, storeVars, callVars
<1>2. \/ info' = info
      \/ ~loaded[c] /\ info' = [info EXCEPT ![c] = row]
  BY DEF loadShardMetadata, infoVars
<1>3. Life(c) /\ info \in [Contexts -> ShardInfo] /\ row.rangeID \in Nat
  BY DEF BaseInv, LifeInv, Typed, TypedQueue, TypedStore, ShardInfo
<1>4. info' # info => max[c] = 0 /\ requests[c] = {} /\ updates[c] = {}
  BY <1>2, <1>3 DEF Life
<1>5. ASSUME NEW d \in Contexts PROVE RangeOf(d)'
  <2>1. RangeOf(d)
    BY DEF RangeInv
  <2>2. CASE info'[d] = info[d]
    BY <1>1, <2>1, <2>2 DEF RangeOf, Unanswered
  <2>3. CASE info'[d] # info[d]
    <3>1. d = c /\ info'[d] = row /\ info' # info
      BY <1>2, <1>3, <2>3
    <3>2. info'[d].rangeID <= row'.rangeID
      BY <1>1, <1>3, <3>1, SMT
    <3>3. max'[d] = 0 /\ Unanswered(d)' = {} /\ updates'[d] = {}
      BY <1>1, <1>4, <3>1 DEF Unanswered
    <3> QED BY <3>2, <3>3 DEF RangeOf
  <2> QED BY <2>2, <2>3
<1>6. OneOwner'
  <2>1. \A d \in Contexts : max[d] # 0 => info'[d] = info[d]
    BY <1>2, <1>3, <1>4
  <2> QED BY <1>1, <2>1 DEF RangeInv, OneOwner
<1>7. LateCalls'
  BY <1>1 DEF RangeInv, LateCalls
<1> QED BY <1>5, <1>6, <1>7 DEF RangeInv

\* A renewal gives its caller a range that nobody had, and fences every late
\* call.  None of the caller's writes is waiting for the store.
LEMMA RangeGranted ==
    ASSUME BaseInv, DrainInv, RangeInv, NEW c \in Contexts, renewRangeGranted(c)
    PROVE RangeInv'
<1> DEFINE new == [info[c] EXCEPT !.rangeID = @ + 1]
           range == row.rangeID + 1
<1>1. /\ info[c].rangeID = row.rangeID /\ inflight[c] = 0
      /\ row' = new /\ info' = [info EXCEPT ![c] = new]
      /\ next' = [next EXCEPT ![c] = FirstId(new.rangeID)]
      /\ max' = [max EXCEPT ![c] = FirstId(new.rangeID + 1)]
      /\ UNCHANGED <<requests, updates>>
  BY DEF renewRangeGranted, LeaseHeld, Drained, setRangeID, FirstId, callVars
<1>2. /\ info \in [Contexts -> ShardInfo] /\ next \in [Contexts -> Nat]
      /\ max \in [Contexts -> Nat]
      /\ \A d \in Contexts : info[d].rangeID \in Nat
      /\ row.rangeID \in Nat /\ range \in Nat
  BY SMT DEF BaseInv, Typed, TypedKeys, TypedQueue, TypedStore, ShardInfo
<1>3. new.rangeID = range
  BY <1>1, <1>2 DEF ShardInfo
<1>4. /\ row'.rangeID = range /\ info'[c].rangeID = range
      /\ next'[c] = FirstId(range) /\ max'[c] = FirstId(range + 1)
      /\ \A d \in Contexts : d # c => /\ info'[d] = info[d] /\ next'[d] = next[d]
                                      /\ max'[d] = max[d]
  BY <1>1, <1>2, <1>3
<1>5. \A d \in Contexts : info[d].rangeID < range /\ info[d].rangeID <= range
  BY <1>2, SMT DEF RangeInv, RangeOf
<1>6. FirstId(range) <= FirstId(range)
  BY <1>2, FirstIdFacts, SMT
<1>7. ASSUME NEW d \in Contexts PROVE RangeOf(d)'
  <2>1. RangeOf(d)
    BY DEF RangeInv
  <2>2. \A u \in updates'[d] : u.prev <= row'.rangeID /\ u.info.rangeID = u.prev
    <3>1. \A u \in updates[d] : u.prev \in Nat /\ u.prev <= row.rangeID
      BY <2>1, SMT DEF RangeOf, BaseInv, Typed, TypedCalls, ShardUpdate
    <3>2. \A u \in updates[d] : u.prev <= row'.rangeID
      BY <1>2, <1>4, <3>1, SMT
    <3> QED BY <1>1, <2>1, <3>2 DEF RangeOf
  <2>3. CASE d = c
    <3>1. Unanswered(d)' = {}
      BY <1>1, <2>3 DEF DrainInv, Unanswered
    <3>2. range <= range
      BY <1>2, SMT
    <3> QED BY <1>4, <1>6, <2>2, <2>3, <3>1, <3>2 DEF RangeOf
  <2>4. CASE d # c
    <3>1. Unanswered(d)' = Unanswered(d)
      BY <1>1 DEF Unanswered
    <3> QED BY <1>4, <1>5, <2>1, <2>2, <2>4, <3>1 DEF RangeOf
  <2> QED BY <2>3, <2>4
<1>8. OneOwner'
  <2>1. \A d \in Contexts : info[d].rangeID # range
    BY <1>2, <1>5, SMT
  <2> HIDE DEF range
  <2> QED BY <1>4, <2>1, SMT DEF RangeInv, OneOwner
<1>9. LateCalls'
  <2>1. /\ lateWrites' = {w \in lateWrites : w.range = range}
        /\ lateUpdates' = {u \in lateUpdates : u.prev = range}
    BY <1>3 DEF renewRangeGranted, FenceLateCalls
  <2>2. row.rangeID # range
    BY <1>2, SMT
  <2> HIDE DEF range
  <2>3. lateWrites' = {} /\ lateUpdates' = {}
    BY <2>1, <2>2 DEF RangeInv, LateCalls
  <2> QED BY <2>3 DEF LateCalls
<1> QED BY <1>7, <1>8, <1>9 DEF RangeInv

\* A renewal that commits late leaves the range without an owner.
LEMMA RangeLateUpdate ==
    ASSUME BaseInv, RangeInv, NEW u \in lateUpdates, lateUpdateLands(u)
    PROVE RangeInv'
<1>1. /\ u.prev = row.rangeID /\ row' = u.info
      /\ UNCHANGED <<info, next, max, requests, updates>>
  BY DEF lateUpdateLands, LeaseHeld, infoVars, keyVars, callVars
<1>2. /\ row.rangeID \in Nat /\ u.info.rangeID \in {row.rangeID, row.rangeID + 1}
      /\ \A d \in Contexts : info[d].rangeID \in Nat
      /\ \A d \in Contexts : \A v \in updates[d] : v.prev \in Nat
  <2>1. u.info.rangeID \in {row.rangeID, row.rangeID + 1}
    BY <1>1 DEF RangeInv, LateCalls
  <2>2. row.rangeID \in Nat
    BY DEF BaseInv, Typed, TypedStore, ShardInfo
  <2>3. \A d \in Contexts : info[d].rangeID \in Nat
    BY DEF BaseInv, Typed, TypedQueue, ShardInfo
  <2>4. \A d \in Contexts : \A v \in updates[d] : v.prev \in Nat
    BY SMT DEF BaseInv, Typed, TypedCalls, ShardUpdate
  <2> QED BY <2>1, <2>2, <2>3, <2>4
<1>3. row'.rangeID \in Nat /\ row.rangeID <= row'.rangeID
  BY <1>1, <1>2, SMT
<1>4. ASSUME NEW d \in Contexts PROVE RangeOf(d)'
  <2>1. RangeOf(d)
    BY DEF RangeInv
  <2>2. info'[d].rangeID <= row'.rangeID
    BY <1>1, <1>2, <1>3, <2>1, SMT DEF RangeOf
  <2>3. \A v \in updates'[d] : v.prev <= row'.rangeID /\ v.info.rangeID = v.prev
    <3>1. \A v \in updates[d] : v.prev \in Nat /\ v.prev <= row.rangeID
      BY <1>2, <2>1 DEF RangeOf
    <3>2. \A v \in updates[d] : v.prev <= row'.rangeID
      BY <1>2, <1>3, <3>1, SMT
    <3> QED BY <1>1, <2>1, <3>2 DEF RangeOf
  <2> QED BY <1>1, <2>1, <2>2, <2>3 DEF RangeOf, Unanswered
<1>5. OneOwner'
  BY <1>1 DEF RangeInv, OneOwner
<1>6. LateCalls'
  <2>1. CASE u.info.rangeID = u.prev
    <3>1. lateUpdates' \subseteq lateUpdates /\ lateWrites' = lateWrites
      BY <2>1 DEF lateUpdateLands
    <3>2. row'.rangeID = row.rangeID
      BY <1>1, <2>1
    <3> QED BY <3>1, <3>2 DEF RangeInv, LateCalls
  <2>2. CASE u.info.rangeID # u.prev
    <3>1. /\ lateWrites' = {w \in lateWrites : w.range = u.info.rangeID}
          /\ lateUpdates' = {v \in lateUpdates : v.prev = u.info.rangeID}
      BY <2>2 DEF lateUpdateLands, FenceLateCalls
    <3>2. lateWrites' = {} /\ lateUpdates' = {}
      BY <1>1, <2>2, <3>1 DEF RangeInv, LateCalls
    <3> QED BY <3>2 DEF LateCalls
  <2> QED BY <2>1, <2>2
<1> QED BY <1>4, <1>5, <1>6 DEF RangeInv

\* Steps that change nothing about ranges.
LEMMA RangeFrame ==
    ASSUME RangeInv, UNCHANGED <<row, lateWrites, lateUpdates, info, next, max,
                                 requests, updates>>
    PROVE RangeInv'
BY DEF RangeInv, RangeOf, OneOwner, LateCalls, Unanswered

\* A renewal that times out may still commit, if its range is the row's.
LEMMA RangeRefused ==
    ASSUME BaseInv, Typed', RangeInv, NEW c \in Contexts, NEW answer \in Answers,
           renewRangeRefused(c, answer)
    PROVE RangeInv'
<1>1. UNCHANGED <<row, lateWrites, info, next, max, requests, updates>>
  BY DEF renewRangeRefused, infoVars, keyVars, callVars
<1> DEFINE u == [prev |-> info[c].rangeID,
                 info |-> [info[c] EXCEPT !.rangeID = @ + 1]]
<1>2. \/ lateUpdates' = lateUpdates
      \/ lateUpdates' = lateUpdates \cup {v \in {u} : LeaseHeld(v.prev)}
  BY DEF renewRangeRefused, TimesOut
<1>3. u.prev = info[c].rangeID /\ u.info.rangeID = u.prev + 1
  BY DEF BaseInv, Typed, TypedQueue, ShardInfo
<1> HIDE DEF u
<1>4. \A v \in lateUpdates' :
        \/ v \in lateUpdates
        \/ v.prev = row.rangeID /\ v.info.rangeID \in {v.prev, v.prev + 1}
  BY <1>2, <1>3 DEF LeaseHeld
<1>5. \A d \in Contexts : next[d] \in Nat /\ next[d] <= next'[d]
  BY <1>1, SMT DEF BaseInv, Typed, TypedKeys
<1>6. Typed
  BY DEF BaseInv
<1> QED BY <1>1, <1>4, <1>5, <1>6, RangeKept

\* Giving keys uses up ids; the request has the range of its context.
LEMMA RangeKeysGiven ==
    ASSUME BaseInv, Typed', RangeInv, NEW c \in Contexts, KeysGiven(c)
    PROVE RangeInv'
<1>1. UNCHANGED <<row, lateWrites, lateUpdates, info, max, updates>>
  BY DEF KeysGiven, storeVars, infoVars
<1>2. PICK n \in 0..max[c] - next[c] : next' = [next EXCEPT ![c] = next[c] + n]
  BY DEF KeysGiven, Assigns
<1>3. \A d \in Contexts : next[d] <= next'[d]
  BY <1>2, SMT DEF BaseInv, Typed, TypedKeys
<1>4. \/ requests' = requests
      \/ \E s : /\ s.range = info[c].rangeID
                /\ requests' = [requests EXCEPT ![c] = requests[c] \cup {s}]
  <2>1. \/ requests' = requests
        \/ \E call, tasks : requests' = [requests EXCEPT ![c] = @ \cup
              {[call |-> call, range |-> info[c].rangeID, tasks |-> tasks,
                answer |-> "none"]}]
    BY DEF KeysGiven, Tracked, Waits
  <2> QED BY <2>1
<1>5. \A d \in Contexts : \A r \in requests'[d] :
        r \in requests[d] \/ r.range = info[d].rangeID
  <2>1. requests \in [Contexts -> SUBSET Request]
    BY DEF BaseInv, Typed, TypedCalls
  <2> QED BY <1>4, <2>1
<1>6. Typed
  BY DEF BaseInv
<1> QED BY <1>1, <1>3, <1>5, <1>6, RangeKept

\* So does GenerateTaskID.
LEMMA RangeGenerateTaskID ==
    ASSUME BaseInv, Typed', RangeInv, NEW c \in Contexts, GenerateTaskID(c)
    PROVE RangeInv'
<1>1. UNCHANGED <<row, lateWrites, lateUpdates, info, max, requests, updates>>
  BY DEF GenerateTaskID, storeVars, infoVars, callVars
<1>2. next' = next \/ next' = [next EXCEPT ![c] = @ + 1]
  BY DEF GenerateTaskID
<1>3. \A d \in Contexts : next[d] <= next'[d]
  BY <1>2, SMT DEF BaseInv, Typed, TypedKeys
<1>4. Typed
  BY DEF BaseInv
<1> QED BY <1>1, <1>3, <1>4, RangeKept

\* A write that times out may still commit, if its range is the row's.
LEMMA RangeWriteAnswered ==
    ASSUME BaseInv, Typed', RangeInv, NEW c \in Contexts, NEW r \in requests[c],
           NEW answer \in Answers, writeAnswered(c, r, answer)
    PROVE RangeInv'
<1>1. UNCHANGED <<row, lateUpdates, info, next, max, updates>>
  BY DEF writeAnswered, infoVars
<1> DEFINE late == [range |-> r.range, tasks |-> r.tasks]
<1>2. \/ lateWrites' = lateWrites
      \/ lateWrites' = lateWrites \cup {w \in {late} : LeaseHeld(w.range)}
  BY DEF writeAnswered
<1>3. \A w \in lateWrites' : w \in lateWrites \/ w.range = row.rangeID
  BY <1>2 DEF LeaseHeld
<1>4. Answered(c, r)
  BY WriteAnsweredFacts DEF BaseInv
<1>5. \A d \in Contexts : \A q \in requests'[d] : q.answer = "none" =>
        q \in requests[d]
  BY <1>4 DEF Answered
<1>6. \A d \in Contexts : next[d] \in Nat /\ next[d] <= next'[d]
  BY <1>1, SMT DEF BaseInv, Typed, TypedKeys
<1>7. Typed
  BY DEF BaseInv
<1> QED BY <1>1, <1>3, <1>5, <1>6, <1>7, RangeKept

\* A write that returns to its caller leaves the tracker, and no range changes.
LEMMA RangeWriteReturns ==
    ASSUME BaseInv, Typed', RangeInv, NEW c \in Contexts, NEW r \in requests[c],
           writeReturns(c, r)
    PROVE RangeInv'
<1>1. /\ UNCHANGED <<row, lateWrites, lateUpdates, info, next, max, updates>>
      /\ requests' = [requests EXCEPT ![c] = @ \ {r}]
  BY DEF writeReturns, storeVars, infoVars, keyVars
<1>2. \A d \in Contexts : \A q \in requests'[d] : q \in requests[d]
  BY <1>1 DEF BaseInv, Typed, TypedCalls
<1>3. \A d \in Contexts : next[d] \in Nat /\ next[d] <= next'[d]
  BY <1>1, SMT DEF BaseInv, Typed, TypedKeys
<1>4. Typed
  BY DEF BaseInv
<1> QED BY <1>1, <1>2, <1>3, <1>4, RangeKept

\* A checkpoint sends the queue state under the range of its context.
LEMMA RangeCheckpoint ==
    ASSUME BaseInv, Typed', RangeInv, NEW c \in Contexts, checkpoint(c)
    PROVE RangeInv'
<1>1. UNCHANGED <<row, lateWrites, lateUpdates, next, max, requests>>
  BY DEF checkpoint, keyVars
<1> DEFINE new == [info[c] EXCEPT !.done = queue[c].done, !.high = queue[c].high]
           u == [prev |-> new.rangeID, info |-> new]
<1>2. /\ info' = info \/ info' = [info EXCEPT ![c] = new]
      /\ updates' = updates \/ updates' = [updates EXCEPT ![c] = {u}]
  BY DEF checkpoint, SetQueueState
<1>3. /\ new.rangeID = info[c].rangeID
      /\ u.prev = info[c].rangeID /\ u.info.rangeID = u.prev
  BY DEF BaseInv, Typed, TypedQueue, ShardInfo
<1> HIDE DEF new, u
<1>4. \A d \in Contexts : info'[d].rangeID = info[d].rangeID
  BY <1>2, <1>3 DEF BaseInv, Typed, TypedQueue
<1>5. \A d \in Contexts : \A v \in updates'[d] :
        \/ v \in updates[d]
        \/ v.prev = info[d].rangeID /\ v.info.rangeID = v.prev
  <2>1. updates \in [Contexts -> SUBSET ShardUpdate]
    BY DEF BaseInv, Typed, TypedCalls
  <2> QED BY <1>2, <1>3, <2>1, SMT
<1>6. \A d \in Contexts : next[d] \in Nat /\ next[d] <= next'[d]
  BY <1>1, SMT DEF BaseInv, Typed, TypedKeys
<1>7. Typed
  BY DEF BaseInv
<1> QED BY <1>1, <1>4, <1>5, <1>6, <1>7, RangeKept

\* An update of the queue state writes the row under the row's own range.
LEMMA RangeUpdateCommits ==
    ASSUME BaseInv, Typed', RangeInv, NEW c \in Contexts, NEW u \in updates[c],
           UpdateShardCommits(c, u)
    PROVE RangeInv'
<1>1. /\ UNCHANGED <<lateWrites, lateUpdates, info, next, max, requests>>
      /\ row' = u.info /\ u.prev = row.rangeID
      /\ updates' = [updates EXCEPT ![c] = @ \ {u}]
  BY DEF UpdateShardCommits, infoVars, keyVars, LeaseHeld
<1>2. row'.rangeID = row.rangeID
  BY <1>1 DEF RangeInv, RangeOf
<1>3. \A d \in Contexts : updates'[d] \subseteq updates[d]
  BY <1>1 DEF BaseInv, Typed, TypedCalls
<1>4. \A d \in Contexts : next[d] \in Nat /\ next[d] <= next'[d]
  BY <1>1, SMT DEF BaseInv, Typed, TypedKeys
<1>5. Typed
  BY DEF BaseInv
<1> QED BY <1>1, <1>2, <1>3, <1>4, <1>5, RangeKept

\* An update that failed is gone, or late if it can still commit.
LEMMA RangeUpdateFails ==
    ASSUME BaseInv, Typed', RangeInv, NEW c \in Contexts, NEW u \in updates[c],
           NEW answer \in Answers, UpdateShardFails(c, u, answer)
    PROVE RangeInv'
<1>1. /\ UNCHANGED <<row, lateWrites, info, next, max, requests>>
      /\ updates' = [updates EXCEPT ![c] = @ \ {u}]
  BY DEF UpdateShardFails, infoVars, keyVars
<1>2. \/ lateUpdates' = lateUpdates
      \/ lateUpdates' = lateUpdates \cup {v \in {u} : LeaseHeld(v.prev)}
  BY DEF UpdateShardFails, TimesOut
<1>3. u.info.rangeID = u.prev
  BY DEF RangeInv, RangeOf
<1>4. \A v \in lateUpdates' :
        \/ v \in lateUpdates
        \/ v.prev = row.rangeID /\ v.info.rangeID \in {v.prev, v.prev + 1}
  BY <1>2, <1>3 DEF LeaseHeld
<1>5. \A d \in Contexts : updates'[d] \subseteq updates[d]
  BY <1>1 DEF BaseInv, Typed, TypedCalls
<1>6. \A d \in Contexts : next[d] \in Nat /\ next[d] <= next'[d]
  BY <1>1, SMT DEF BaseInv, Typed, TypedKeys
<1>7. Typed
  BY DEF BaseInv
<1> QED BY <1>1, <1>4, <1>5, <1>6, <1>7, RangeKept

\* A late write that lands changes no range.
LEMMA RangeLateWrite ==
    ASSUME BaseInv, Typed', RangeInv, NEW w \in lateWrites, lateWriteLands(w)
    PROVE RangeInv'
<1>1. /\ UNCHANGED <<row, lateUpdates, info, next, max, requests, updates>>
      /\ lateWrites' \subseteq lateWrites
  BY DEF lateWriteLands, infoVars, keyVars, callVars
<1>2. \A d \in Contexts : next[d] \in Nat /\ next[d] <= next'[d]
  BY <1>1, SMT DEF BaseInv, Typed, TypedKeys
<1>3. Typed
  BY DEF BaseInv
<1> QED BY <1>1, <1>2, <1>3, RangeKept

\* Ranges stay apart in every step of a context.
LEMMA RangeContextStep ==
    ASSUME BaseInv, Typed', DrainInv, RangeInv, NEW c \in Contexts, ContextStep(c)
    PROVE RangeInv'
<1>1. Typed' /\ Typed /\ LifeInv
  BY DEF BaseInv
<1> DEFINE Same == UNCHANGED <<row, lateWrites, lateUpdates, info, next, max,
                               requests, updates>>
<1>2. CASE start(c)
  <2>1. Same BY <1>2 DEF start, storeVars, infoVars, keyVars, callVars
  <2> QED BY <2>1, RangeFrame
<1>3. CASE loadShardMetadata(c)
  BY <1>3, RangeLoad
<1>4. CASE loadShardMetadataFails(c)
  <2>1. Same
    BY <1>4 DEF loadShardMetadataFails, storeVars, infoVars, keyVars,
       callVars
  <2> QED BY <2>1, RangeFrame
<1>5. CASE acquireShardGivesUp(c)
  <2>1. Same
    BY <1>5 DEF acquireShardGivesUp, storeVars, infoVars, keyVars, callVars
  <2> QED BY <2>1, RangeFrame
<1>6. CASE transitionAcquired(c)
  <2>1. Same
    BY <1>6 DEF transitionAcquired, storeVars, infoVars, keyVars, callVars
  <2> QED BY <2>1, RangeFrame
<1>7. CASE FinishStop(c)
  <2>1. Same BY <1>7 DEF FinishStop, storeVars, infoVars, keyVars, callVars
  <2> QED BY <2>1, RangeFrame
<1>8. CASE renewRangeGranted(c)
  BY <1>8, RangeGranted
<1>9. CASE \E answer \in Answers : renewRangeRefused(c, answer)
  BY <1>1, <1>9, RangeRefused
<1>10. CASE \E tasks \in Writes[category], now \in Clock : AddTasks(c, tasks, now)
  BY <1>1, <1>10, AddTasksGivesKeys, RangeKeysGiven
<1>11. CASE AddTasksGoesOn(c)
  BY <1>1, <1>11, AddTasksGoesOnGivesKeys, RangeKeysGiven
<1>12. CASE GenerateTaskID(c)
  BY <1>1, <1>12, RangeGenerateTaskID
<1>13. CASE \E r \in requests[c] : \E answer \in Answers : writeAnswered(c, r, answer)
  BY <1>1, <1>13, RangeWriteAnswered
<1>14. CASE \E r \in requests[c] : writeReturns(c, r)
  BY <1>1, <1>14, RangeWriteReturns
<1>15. CASE \E now \in Clock : processNewRange(c, now)
  <2>1. Same
    BY <1>15 DEF processNewRange, storeVars, infoVars, callVars
  <2> QED BY <2>1, RangeFrame
<1>16. CASE checkpoint(c)
  BY <1>1, <1>16, RangeCheckpoint
<1>17. CASE \E u \in updates[c] : UpdateShardCommits(c, u)
  BY <1>1, <1>17, RangeUpdateCommits
<1>18. CASE \E u \in updates[c] : \E answer \in Answers : UpdateShardFails(c, u, answer)
  BY <1>1, <1>18, RangeUpdateFails
<1> HIDE DEF Same
<1> QED BY <1>2, <1>3, <1>4, <1>5, <1>6, <1>7, <1>8, <1>9, <1>10, <1>11, <1>12,
           <1>13, <1>14, <1>15, <1>16, <1>17, <1>18 DEF ContextStep

\* Nobody owns a range before the first renewal.
LEMMA RangeInit == Init => RangeInv
<1> SUFFICES ASSUME Init PROVE RangeInv
  OBVIOUS
<1>1. /\ info = [d \in Contexts |-> row] /\ row.rangeID = 0
      /\ max = [d \in Contexts |-> 0]
      /\ requests = [d \in Contexts |-> {}] /\ updates = [d \in Contexts |-> {}]
      /\ lateWrites = {} /\ lateUpdates = {}
  BY DEF Init, NewShard
<1>2. \A c \in Contexts : RangeOf(c)
  BY <1>1, SMT DEF RangeOf, Unanswered
<1> QED BY <1>1, <1>2 DEF RangeInv, OneOwner, LateCalls

\* Ranges stay apart in every step.
LEMMA RangeNext == BaseInv /\ DrainInv /\ RangeInv /\ [Next]_vars => RangeInv'
<1> SUFFICES ASSUME BaseInv, DrainInv, RangeInv, [Next]_vars PROVE RangeInv'
  OBVIOUS
<1>a. Typed'
  BY BaseNext DEF BaseInv
<1>1. CASE UNCHANGED vars
  <2>1. UNCHANGED <<row, lateWrites, lateUpdates, info, next, max, requests, updates>>
    BY <1>1 DEF vars, storeVars, infoVars, keyVars, callVars
  <2> QED BY <2>1, RangeFrame
<1>2. CASE \E c \in Contexts : ContextStep(c)
  BY <1>2, <1>a, RangeContextStep
<1>3. CASE \E w \in lateWrites : lateWriteLands(w)
  BY <1>3, <1>a, RangeLateWrite
<1>4. CASE \E u \in lateUpdates : lateUpdateLands(u)
  BY <1>4, RangeLateUpdate
<1> QED BY <1>1, <1>2, <1>3, <1>4 DEF Next

-----------------------------------------------------------------------------
(* Task ids *)

\* A spent id stays spent while blocks stay and ids are given away in order.
LEMMA SpentStays ==
    ASSUME Typed, Typed', NEW t \in Task, Spent(t), row.rangeID <= row'.rangeID,
           max' = max, \A d \in Contexts : next[d] <= next'[d]
    PROVE Spent(t)'
<1>1. /\ row.rangeID \in Nat /\ row'.rangeID \in Nat /\ t.id \in Nat
      /\ \A d \in Contexts : next[d] \in Nat /\ next'[d] \in Nat
  BY DEF Typed, TypedStore, TypedKeys, ShardInfo, Task
<1>2. FirstId(row.rangeID + 1) <= FirstId(row'.rangeID + 1)
  <2>1. CASE row.rangeID = row'.rangeID
    BY <1>1, <2>1, FirstIdFacts, SMT
  <2>2. CASE row.rangeID < row'.rangeID
    <3>1. FirstId(row.rangeID + 1) <= FirstId(row'.rangeID)
      BY <1>1, <2>2, FirstIdFacts
    <3>2. /\ FirstId(row'.rangeID) < FirstId(row'.rangeID + 1)
          /\ FirstId(row.rangeID + 1) \in Nat /\ FirstId(row'.rangeID) \in Nat
          /\ FirstId(row'.rangeID + 1) \in Nat
      BY <1>1, FirstIdFacts, SMT
    <3> QED BY <3>1, <3>2, SMT
  <2> QED BY <1>1, <2>1, <2>2, SMT
<1>3. FirstId(row.rangeID + 1) \in Nat /\ FirstId(row'.rangeID + 1) \in Nat
  BY <1>1, FirstIdFacts, SMT
<1>4. t.id < FirstId(row'.rangeID + 1)
  BY <1>1, <1>2, <1>3, SMT DEF Spent
<1>5. \A d \in Contexts : t.id < next'[d] \/ max'[d] <= t.id
  BY <1>1, SMT DEF Spent
<1> QED BY <1>4, <1>5 DEF Spent

\* Steps that give no id keep ids spent and apart.
LEMMA IdsKept ==
    ASSUME Typed, Typed', SpentInv, DistinctInv,
           row.rangeID <= row'.rangeID, max' = max,
           \A d \in Contexts : next[d] <= next'[d],
           \A d \in Contexts : requests'[d] \subseteq requests[d],
           \A d \in Contexts : setting'[d].tasks \subseteq setting[d].tasks,
           Written' \subseteq Written
    PROVE SpentInv' /\ DistinctInv'
<1>1. \A t \in Task : Spent(t) => Spent(t)'
  BY SpentStays
<1>2. SpentInv'
  BY <1>1, TaskSets DEF SpentInv
<1>3. \A d \in Contexts : Live(d)' \subseteq Live(d)
  BY DEF Live, Unanswered
<1>4. RequestsApart'
  BY DEF DistinctInv, RequestsApart
<1>5. SettingsApart'
  BY DEF DistinctInv, SettingsApart, Apart
<1>6. LiveApart'
  BY <1>3 DEF DistinctInv, LiveApart, Apart
<1> QED BY <1>2, <1>4, <1>5, <1>6 DEF DistinctInv

\* A renewal opens a block above every id that was ever given.
LEMMA IdsGranted ==
    ASSUME Typed, SpentInv, DistinctInv, NEW c \in Contexts, renewRangeGranted(c)
    PROVE SpentInv' /\ DistinctInv'
<1> DEFINE new == [info[c] EXCEPT !.rangeID = @ + 1]
           range == row.rangeID + 1
<1>1. /\ info[c].rangeID = row.rangeID /\ row' = new
      /\ next' = [next EXCEPT ![c] = FirstId(new.rangeID)]
      /\ max' = [max EXCEPT ![c] = FirstId(new.rangeID + 1)]
      /\ lateWrites' \subseteq lateWrites
      /\ UNCHANGED <<requests, setting, stored, executed>>
  BY DEF renewRangeGranted, LeaseHeld, setRangeID, FirstId, FenceLateCalls,
     callVars, envVars
<1>2. /\ info \in [Contexts -> ShardInfo] /\ next \in [Contexts -> Nat]
      /\ max \in [Contexts -> Nat] /\ row.rangeID \in Nat
  BY DEF Typed, TypedKeys, TypedQueue, TypedStore, ShardInfo
<1>3. new.rangeID = range /\ range \in Nat
  BY <1>1, <1>2, SMT DEF ShardInfo
<1>4. /\ row'.rangeID = range /\ next'[c] = FirstId(range)
      /\ \A d \in Contexts : d # c => next'[d] = next[d] /\ max'[d] = max[d]
  BY <1>1, <1>2, <1>3
<1>5. /\ FirstId(range) \in Nat /\ FirstId(range + 1) \in Nat
      /\ FirstId(range) < FirstId(range + 1)
  BY <1>3, FirstIdFacts, SMT
<1>6. ASSUME NEW t \in Task, Spent(t) PROVE Spent(t)'
  <2>1. t.id \in Nat /\ t.id < FirstId(range)
    BY <1>6 DEF Spent, Task
  <2>2. t.id < FirstId(range + 1)
    BY <1>5, <2>1, SMT
  <2>3. \A d \in Contexts : t.id < next'[d] \/ max'[d] <= t.id
    BY <1>4, <1>6, <2>1 DEF Spent
  <2> QED BY <1>4, <2>2, <2>3 DEF Spent
<1>7. Written' \subseteq Written
  BY <1>1 DEF Written, Late
<1>8. SpentInv'
  BY <1>1, <1>6, <1>7, TaskSets DEF SpentInv
<1>9. \A d \in Contexts : Live(d)' = Live(d)
  BY <1>1 DEF Live, Unanswered
<1>10. LiveApart'
  BY <1>7, <1>9 DEF DistinctInv, LiveApart, Apart
<1>11. RequestsApart' /\ SettingsApart'
  BY <1>1 DEF DistinctInv, RequestsApart, SettingsApart
<1> QED BY <1>8, <1>10, <1>11 DEF DistinctInv

\* The ids that a context gives away are of its own block, and nobody has
\* given them before.
LEMMA IdsAreFresh ==
    ASSUME Typed, Typed', RangeInv, NEW c \in Contexts, max[c] # 0, max' = max,
           row' = row, NEW n \in 0..max[c] - next[c],
           next' = [next EXCEPT ![c] = next[c] + n],
           NEW t \in Task, next[c] <= t.id, t.id < next[c] + n
    PROVE Spent(t)' /\ \A u \in Task : Spent(u) => u.id # t.id
<1>1. /\ next \in [Contexts -> Nat] /\ max \in [Contexts -> Nat]
      /\ next[c] <= max[c] /\ t.id \in Nat /\ row.rangeID \in Nat
      /\ \A d \in Contexts : info[d].rangeID \in Nat
  BY DEF Typed, TypedKeys, TypedStore, TypedQueue, ShardInfo, Task
<1>2. /\ next'[c] = next[c] + n /\ t.id < max[c] /\ t.id < next'[c]
      /\ \A d \in Contexts : d # c => next'[d] = next[d]
  BY <1>1, SMT
<1>3. /\ max[c] = FirstId(info[c].rangeID + 1)
      /\ FirstId(info[c].rangeID) <= next[c]
      /\ info[c].rangeID <= row.rangeID
  BY DEF RangeInv, RangeOf
<1>4. \A r \in Nat : FirstId(r) \in Nat
  BY FirstIdFacts
<1>5. t.id < FirstId(row.rangeID + 1)
  <2>1. FirstId(info[c].rangeID + 1) <= FirstId(row.rangeID + 1)
    <3>1. CASE info[c].rangeID = row.rangeID
      BY <1>1, <1>4, <3>1, SMT
    <3>2. CASE info[c].rangeID < row.rangeID
      <4>1. info[c].rangeID < row.rangeID + 1 /\ row.rangeID + 1 \in Nat
        BY <1>1, <3>2, SMT
      <4> QED BY <1>1, <4>1, FirstIdFacts
    <3> QED BY <1>1, <1>3, <3>1, <3>2, SMT
  <2> QED BY <1>1, <1>2, <1>3, <1>4, <2>1, SMT
<1>6. ASSUME NEW d \in Contexts, d # c PROVE t.id < next[d] \/ max[d] <= t.id
  <2>1. CASE max[d] = 0
    BY <1>1, <2>1, SMT
  <2>2. CASE max[d] # 0
    <3>1. /\ info[d].rangeID # info[c].rangeID
          /\ max[d] = FirstId(info[d].rangeID + 1)
          /\ FirstId(info[d].rangeID) <= next[d]
      BY <1>6, <2>2 DEF RangeInv, RangeOf, OneOwner
    <3>2. CASE info[d].rangeID < info[c].rangeID
      <4>1. FirstId(info[d].rangeID + 1) <= FirstId(info[c].rangeID)
        BY <1>1, <3>2, FirstIdFacts
      <4> QED BY <1>1, <1>3, <1>4, <3>1, <4>1, SMT
    <3>3. CASE info[c].rangeID < info[d].rangeID
      <4>1. FirstId(info[c].rangeID + 1) <= FirstId(info[d].rangeID)
        BY <1>1, <3>3, FirstIdFacts
      <4> QED BY <1>1, <1>2, <1>3, <1>4, <3>1, <4>1, SMT
    <3> QED BY <1>1, <3>1, <3>2, <3>3, SMT
  <2> QED BY <2>1, <2>2
<1>7. Spent(t)'
  <2>1. \A d \in Contexts : t.id < next'[d] \/ max'[d] <= t.id
    BY <1>2, <1>6
  <2> QED BY <1>5, <2>1 DEF Spent
<1>8. ASSUME NEW u \in Task, Spent(u) PROVE u.id # t.id
  <2>1. u.id < next[c] \/ max[c] <= u.id
    BY <1>8 DEF Spent
  <2> QED BY <1>1, <1>2, <2>1, SMT DEF Task
<1> QED BY <1>7, <1>8

\* Giving keys.
LEMMA IdsKeysGiven ==
    ASSUME Typed, Typed', RangeInv, SpentInv, DistinctInv, NEW c \in Contexts,
           KeysGiven(c)
    PROVE SpentInv' /\ DistinctInv'
<1>1. PICK call \in Nat, ts \in SUBSET Task, least \in Nat :
        /\ Assigns(c, ts, least)
        /\ \/ Tracked(c, call, setting[c].tasks \cup ts)
           \/ Waits(c, call, setting[c].tasks \cup ts)
  BY DEF KeysGiven
<1> DEFINE S == setting[c].tasks \cup ts
<1>2. /\ UNCHANGED <<row, max, stored, executed, lateWrites>> /\ max[c] # 0
  BY DEF KeysGiven, storeVars
<1>3. PICK n \in 0..max[c] - next[c] :
        /\ next' = [next EXCEPT ![c] = next[c] + n]
        /\ \A t \in ts : next[c] <= t.id /\ t.id < next[c] + n
  BY <1>1 DEF Assigns
<1>4. \A t \in ts : Spent(t)' /\ \A u \in Task : Spent(u) => u.id # t.id
  BY <1>2, <1>3, IdsAreFresh
<1>5. \A t \in Task : Spent(t) => Spent(t)'
  <2>1. \A d \in Contexts : next[d] <= next'[d]
    BY <1>3, SMT DEF Typed, TypedKeys
  <2>2. row.rangeID <= row'.rangeID
    BY <1>2, SMT DEF Typed, TypedStore, ShardInfo
  <2> QED BY <1>2, <2>1, <2>2, SpentStays
<1>6. Written' = Written
  BY <1>2 DEF Written, Late
<1>7. /\ \A d \in Contexts : d # c => /\ requests'[d] = requests[d]
                                      /\ setting'[d] = setting[d]
      /\ \/ /\ setting'[c].tasks = {}
            /\ \E s : /\ s.tasks = S /\ s.answer = "none"
                      /\ requests'[c] = requests[c] \cup {s}
         \/ /\ setting'[c].tasks = S /\ requests'[c] = requests[c]
  <2>1. Tracked(c, call, S) \/ Waits(c, call, S)
    BY <1>1
  <2> HIDE DEF S
  <2> QED BY <2>1, KeysGivenSets, SMT
<1>8. \A t \in S : Spent(t)'
  BY <1>4, <1>5, TaskSets DEF SpentInv
<1>9. /\ \A d \in Contexts : \A r \in requests[d] : Apart(S, r.tasks) /\ Apart(r.tasks, S)
      /\ \A d \in Contexts : d # c => Apart(S, setting[d].tasks) /\ Apart(setting[d].tasks, S)
      /\ Apart(S, Written)
  <2>1. Apart(ts, Written)
    BY <1>4, TaskSets DEF SpentInv, Apart
  <2>2. \A d \in Contexts : Apart(ts, setting[d].tasks) /\ Apart(setting[d].tasks, ts)
    BY <1>4, TaskSets DEF SpentInv, Apart
  <2>3. \A d \in Contexts : \A r \in requests[d] : Apart(ts, r.tasks) /\ Apart(r.tasks, ts)
    BY <1>4, TaskSets DEF SpentInv, Apart
  <2>4. Apart(setting[c].tasks, Written)
    BY DEF DistinctInv, LiveApart, Live, Apart
  <2>5. \A d \in Contexts : d # c => Apart(setting[c].tasks, setting[d].tasks)
                                     /\ Apart(setting[d].tasks, setting[c].tasks)
    BY DEF DistinctInv, SettingsApart
  <2>6. \A d \in Contexts : \A r \in requests[d] :
          Apart(setting[c].tasks, r.tasks) /\ Apart(r.tasks, setting[c].tasks)
    BY DEF DistinctInv, SettingsApart, Apart
  <2> QED BY <2>1, <2>2, <2>3, <2>4, <2>5, <2>6 DEF Apart
<1> HIDE DEF S
<1>10. \A d \in Contexts : \A q \in requests'[d] :
         q \in requests[d] \/ (d = c /\ q.tasks = S /\ setting'[c].tasks = {})
  BY <1>7
<1>11. \A d \in Contexts : \/ setting'[d].tasks = {}
                           \/ d # c /\ setting'[d].tasks = setting[d].tasks
                           \/ d = c /\ setting'[d].tasks = S
  BY <1>7
<1>12. SpentInv'
  <2>1. \A t \in Written' : Spent(t)'
    BY <1>5, <1>6, TaskSets DEF SpentInv
  <2>2. \A d \in Contexts : \A t \in setting'[d].tasks : Spent(t)'
    BY <1>5, <1>8, <1>11, TaskSets DEF SpentInv
  <2>3. \A d \in Contexts : \A q \in requests'[d] : \A t \in q.tasks : Spent(t)'
    BY <1>5, <1>8, <1>10, TaskSets DEF SpentInv
  <2> QED BY <2>1, <2>2, <2>3 DEF SpentInv
<1>13. RequestsApart'
  <2> SUFFICES ASSUME NEW d \in Contexts, NEW e \in Contexts,
                      NEW q \in requests'[d], NEW s \in requests'[e],
                      ~(d = e /\ q = s)
               PROVE Apart(q.tasks, s.tasks)
    BY DEF RequestsApart
  <2>1. CASE q \in requests[d] /\ s \in requests[e]
    BY <2>1 DEF DistinctInv, RequestsApart
  <2>2. CASE q \in requests[d] /\ s \notin requests[e]
    BY <1>9, <1>10, <2>2
  <2>3. CASE q \notin requests[d] /\ s \in requests[e]
    BY <1>9, <1>10, <2>3
  <2>4. CASE q \notin requests[d] /\ s \notin requests[e]
    <3>1. d = c /\ e = c
      BY <1>10, <2>4
    <3> QED BY <1>7, <2>4, <3>1
  <2> QED BY <2>1, <2>2, <2>3, <2>4
<1>14. SettingsApart'
  <2>1. \A ts1 : Apart(ts1, {})
    BY DEF Apart
  <2>2. \A ts1 : Apart({}, ts1)
    BY DEF Apart
  <2>3. ASSUME NEW d \in Contexts, NEW e \in Contexts, NEW q \in requests'[d]
        PROVE Apart(q.tasks, setting'[e].tasks)
    <3>1. CASE setting'[e].tasks = {}
      BY <2>1, <3>1
    <3>2. CASE e # c /\ setting'[e].tasks = setting[e].tasks
      BY <1>9, <1>10, <3>2 DEF DistinctInv, SettingsApart
    <3>3. CASE e = c /\ setting'[e].tasks = S
      <4>1. CASE q \in requests[d]
        BY <1>9, <3>3, <4>1
      <4>2. CASE q \notin requests[d]
        BY <1>10, <2>1, <3>3, <4>2
      <4> QED BY <4>1, <4>2
    <3> QED BY <1>11, <3>1, <3>2, <3>3
  <2>4. ASSUME NEW d \in Contexts, NEW e \in Contexts, d # e
        PROVE Apart(setting'[d].tasks, setting'[e].tasks)
    <3>1. CASE setting'[d].tasks = {} \/ setting'[e].tasks = {}
      BY <2>1, <2>2, <3>1
    <3>2. CASE setting'[d].tasks # {} /\ setting'[e].tasks # {}
      BY <1>9, <1>11, <2>4, <3>2 DEF DistinctInv, SettingsApart
    <3> QED BY <3>1, <3>2
  <2> QED BY <2>3, <2>4 DEF SettingsApart
<1>15. LiveApart'
  <2>1. \A d \in Contexts : Live(d)' \subseteq Live(d) \cup S
    BY <1>10, <1>11 DEF Live, Unanswered
  <2>2. \A d \in Contexts : Apart(Live(d), Written)
    BY DEF DistinctInv, LiveApart
  <2> QED BY <1>6, <1>9, <2>1, <2>2 DEF LiveApart, Apart
<1> QED BY <1>12, <1>13, <1>14, <1>15 DEF DistinctInv

\* A write that the store answers becomes one that is, or may be, written.
LEMMA IdsWriteAnswered ==
    ASSUME Typed, Typed', SpentInv, DistinctInv, NEW c \in Contexts,
           NEW r \in requests[c], NEW answer \in Answers,
           writeAnswered(c, r, answer)
    PROVE SpentInv' /\ DistinctInv'
<1>1. UNCHANGED <<row, next, max, setting, executed>>
  BY DEF writeAnswered, lockVars
<1>2. Written' \subseteq Written \cup r.tasks
  <2>1. stored' \subseteq stored \cup r.tasks
    BY DEF writeAnswered
  <2>2. lateWrites' \subseteq lateWrites \cup {[range |-> r.range, tasks |-> r.tasks]}
    BY DEF writeAnswered
  <2>3. Late' \subseteq Late \cup r.tasks
    BY <2>2, SMT DEF Late
  <2> QED BY <1>1, <2>1, <2>3 DEF Written
<1>3. Answered(c, r)
  BY WriteAnsweredFacts
<1>4. PICK s : /\ s.tasks = r.tasks /\ s.answer # "none"
               /\ requests'[c] \subseteq (requests[c] \ {r}) \cup {s}
  BY <1>3 DEF Answered
<1>5. \A d \in Contexts : \A q \in requests'[d] :
        \/ q \in requests[d] /\ ~(d = c /\ q = r)
        \/ d = c /\ q = s
  BY <1>3, <1>4 DEF Answered
<1>6. \A t : Spent(t) => Spent(t)'
  BY <1>1 DEF Spent
<1>7. SpentInv'
  BY <1>1, <1>2, <1>4, <1>5, <1>6 DEF SpentInv
<1>8. RequestsApart'
  <2> SUFFICES ASSUME NEW d \in Contexts, NEW e \in Contexts,
                      NEW q \in requests'[d], NEW v \in requests'[e],
                      ~(d = e /\ q = v)
               PROVE Apart(q.tasks, v.tasks)
    BY DEF RequestsApart
  <2>1. CASE d = c /\ q = s
    <3>1. v \in requests[e] /\ ~(e = c /\ v = r)
      BY <1>5, <2>1
    <3> QED BY <1>4, <2>1, <3>1 DEF DistinctInv, RequestsApart
  <2>2. CASE e = c /\ v = s
    <3>1. q \in requests[d] /\ ~(d = c /\ q = r)
      BY <1>5, <2>2
    <3> QED BY <1>4, <2>2, <3>1 DEF DistinctInv, RequestsApart
  <2>3. CASE ~(d = c /\ q = s) /\ ~(e = c /\ v = s)
    BY <1>5, <2>3 DEF DistinctInv, RequestsApart
  <2> QED BY <2>1, <2>2, <2>3
<1>9. SettingsApart'
  BY <1>1, <1>4, <1>5 DEF DistinctInv, SettingsApart
<1>10. LiveApart'
  <2> SUFFICES ASSUME NEW d \in Contexts PROVE Apart(Live(d)', Written')
    BY DEF LiveApart
  <2>1. \A q \in Unanswered(d)' : q \in Unanswered(d) /\ ~(d = c /\ q = r)
    BY <1>4, <1>5 DEF Unanswered
  <2>2. Live(d)' \subseteq Live(d)
    BY <1>1, <2>1 DEF Live
  <2>3. Apart(Live(d)', Written)
    BY <2>2 DEF DistinctInv, LiveApart, Apart
  <2>4. \A q \in Unanswered(d)' : Apart(q.tasks, r.tasks)
    BY <2>1 DEF DistinctInv, RequestsApart, Unanswered
  <2>5. Apart(setting[d].tasks, r.tasks)
    BY DEF DistinctInv, SettingsApart, Apart
  <2>6. Apart(Live(d)', r.tasks)
    BY <1>1, <2>4, <2>5 DEF Live, Apart
  <2> QED BY <1>2, <2>3, <2>6 DEF Apart
<1> QED BY <1>7, <1>8, <1>9, <1>10 DEF DistinctInv

\* Ids stay spent and apart in a step that moves no task and gives no id.
LEMMA IdsFrame ==
    ASSUME SpentInv, DistinctInv, UNCHANGED <<row, next, max, requests, setting,
                                              stored, executed, lateWrites>>
    PROVE SpentInv' /\ DistinctInv'
<1>1. SpentInv'
  BY DEF SpentInv, Spent, Written, Late
<1>2. RequestsApart' /\ SettingsApart'
  BY DEF DistinctInv, RequestsApart, SettingsApart
<1>3. LiveApart'
  BY DEF DistinctInv, LiveApart, Live, Unanswered, Written, Late
<1> QED BY <1>1, <1>2, <1>3 DEF DistinctInv

\* Ids stay spent and apart in every step of a context.
LEMMA IdsContextStep ==
    ASSUME BaseInv, Typed', RangeInv, SpentInv, DistinctInv, NEW c \in Contexts,
           ContextStep(c)
    PROVE SpentInv' /\ DistinctInv'
<1>1. Typed' /\ Typed /\ LifeInv
  BY DEF BaseInv
<1>2. /\ row.rangeID \in Nat /\ next \in [Contexts -> Nat]
      /\ requests \in [Contexts -> SUBSET Request]
      /\ \A d \in Contexts : next[d] <= next[d] /\ row.rangeID <= row.rangeID
  <2>1. row.rangeID \in Nat
    BY <1>1 DEF Typed, TypedStore, ShardInfo
  <2>2. next \in [Contexts -> Nat] /\ requests \in [Contexts -> SUBSET Request]
    BY <1>1 DEF Typed, TypedKeys, TypedCalls
  <2>3. \A d \in Contexts : next[d] <= next[d] /\ row.rangeID <= row.rangeID
    BY <2>1, <2>2, SMT
  <2> QED BY <2>1, <2>2, <2>3
<1> DEFINE Same == UNCHANGED <<row, next, max, requests, setting, stored,
                               executed, lateWrites>>
<1>3. CASE start(c)
  <2>1. Same
    BY <1>3 DEF start, storeVars, keyVars, lockVars, callVars, envVars
  <2> QED BY <2>1, IdsFrame
<1>4. CASE loadShardMetadata(c)
  <2>1. Same
    BY <1>4 DEF loadShardMetadata, storeVars, callVars, envVars
  <2> QED BY <2>1, IdsFrame
<1>5. CASE loadShardMetadataFails(c)
  <2>1. Same
    BY <1>5 DEF loadShardMetadataFails, storeVars, keyVars, lockVars,
       callVars
  <2> QED BY <2>1, IdsFrame
<1>6. CASE acquireShardGivesUp(c)
  <2>1. Same
    BY <1>6 DEF acquireShardGivesUp, storeVars, keyVars, lockVars,
       callVars, envVars
  <2> QED BY <2>1, IdsFrame
<1>7. CASE transitionAcquired(c)
  <2>1. Same
    BY <1>7 DEF transitionAcquired, storeVars, keyVars, lockVars,
       callVars, envVars
  <2> QED BY <2>1, IdsFrame
<1>8. CASE FinishStop(c)
  <2>1. Same
    BY <1>8 DEF FinishStop, storeVars, keyVars, lockVars, callVars, envVars
  <2> QED BY <2>1, IdsFrame
<1>9. CASE renewRangeGranted(c)
  BY <1>1, <1>9, IdsGranted
<1>10. CASE \E answer \in Answers : renewRangeRefused(c, answer)
  <2>1. /\ UNCHANGED <<row, next, max, requests, stored, executed, lateWrites>>
        /\ setting' = [setting EXCEPT ![c] = NotSetting]
    BY <1>10 DEF renewRangeRefused, keyVars, callVars
  <2>2. \A d \in Contexts : setting'[d].tasks \subseteq setting[d].tasks
    BY <1>1, <2>1 DEF Typed, TypedCalls, NotSetting
  <2>3. Written' \subseteq Written
    BY <2>1 DEF Written, Late
  <2> QED BY <1>1, <1>2, <2>1, <2>2, <2>3, IdsKept
<1>11. CASE \E tasks \in Writes[category], now \in Clock : AddTasks(c, tasks, now)
  BY <1>1, <1>11, AddTasksGivesKeys, IdsKeysGiven
<1>12. CASE AddTasksGoesOn(c)
  BY <1>1, <1>12, AddTasksGoesOnGivesKeys, IdsKeysGiven
<1>13. CASE GenerateTaskID(c)
  <2>1. UNCHANGED <<row, max, requests, setting, stored, executed, lateWrites>>
    BY <1>13 DEF GenerateTaskID, storeVars, callVars
  <2>2. next' = next \/ next' = [next EXCEPT ![c] = @ + 1]
    BY <1>13 DEF GenerateTaskID
  <2>3. \A d \in Contexts : next[d] <= next'[d]
    BY <1>2, <2>2, SMT
  <2>4. Written' \subseteq Written
    BY <2>1 DEF Written, Late
  <2> QED BY <1>1, <1>2, <2>1, <2>3, <2>4, IdsKept
<1>14. CASE \E r \in requests[c] : \E answer \in Answers : writeAnswered(c, r, answer)
  BY <1>1, <1>14, IdsWriteAnswered
<1>15. CASE \E r \in requests[c] : writeReturns(c, r)
  <2>1. PICK r \in requests[c] : writeReturns(c, r)
    BY <1>15
  <2>2. /\ UNCHANGED <<row, next, max, setting, stored, executed, lateWrites>>
        /\ requests' = [requests EXCEPT ![c] = @ \ {r}]
    BY <2>1 DEF writeReturns, storeVars, keyVars, lockVars, envVars
  <2>3. \A d \in Contexts : requests'[d] \subseteq requests[d]
    BY <1>2, <2>2
  <2>4. Written' \subseteq Written
    BY <2>2 DEF Written, Late
  <2> QED BY <1>1, <1>2, <2>2, <2>3, <2>4, IdsKept
<1>16. CASE \E now \in Clock : processNewRange(c, now)
  <2>1. /\ UNCHANGED <<row, next, max, requests, setting, stored, lateWrites>>
        /\ executed' \subseteq executed \cup stored
    BY <1>16 DEF processNewRange, storeVars, lockVars, callVars
  <2>2. Written' \subseteq Written
    BY <2>1 DEF Written, Late
  <2> QED BY <1>1, <1>2, <2>1, <2>2, IdsKept
<1>17. CASE checkpoint(c)
  <2>1. /\ UNCHANGED <<row, next, max, requests, setting, executed, lateWrites>>
        /\ stored' \subseteq stored
    BY <1>17 DEF checkpoint, keyVars, lockVars
  <2>2. Written' \subseteq Written
    BY <2>1 DEF Written, Late
  <2> QED BY <1>1, <1>2, <2>1, <2>2, IdsKept
<1>18. CASE \E u \in updates[c] : UpdateShardCommits(c, u)
  <2>1. PICK u \in updates[c] : UpdateShardCommits(c, u)
    BY <1>18
  <2>2. /\ UNCHANGED <<next, max, requests, setting, stored, executed, lateWrites>>
        /\ row' = u.info /\ u.prev = row.rangeID
    BY <2>1 DEF UpdateShardCommits, LeaseHeld, keyVars, lockVars, envVars
  <2>3. row'.rangeID = row.rangeID
    BY <2>2 DEF RangeInv, RangeOf
  <2>4. Written' \subseteq Written
    BY <2>2 DEF Written, Late
  <2> QED BY <1>1, <1>2, <2>2, <2>3, <2>4, IdsKept
<1>19. CASE \E u \in updates[c] : \E answer \in Answers : UpdateShardFails(c, u, answer)
  <2>1. Same
    BY <1>19 DEF UpdateShardFails, keyVars, lockVars
  <2> QED BY <2>1, IdsFrame
<1> HIDE DEF Same
<1> QED BY <1>3, <1>4, <1>5, <1>6, <1>7, <1>8, <1>9, <1>10, <1>11, <1>12,
           <1>13, <1>14, <1>15, <1>16, <1>17, <1>18, <1>19 DEF ContextStep

\* Initially no id is given.
LEMMA IdsInit == Init => SpentInv /\ DistinctInv
<1> SUFFICES ASSUME Init PROVE SpentInv /\ DistinctInv
  OBVIOUS
<1>1. /\ requests = [d \in Contexts |-> {}] /\ lateWrites = {}
      /\ setting = [d \in Contexts |-> NotSetting]
      /\ stored = {} /\ executed = {}
  BY DEF Init
<1>2. \A d \in Contexts : requests[d] = {} /\ setting[d].tasks = {}
  BY <1>1 DEF NotSetting
<1>3. Written = {}
  BY <1>1 DEF Written, Late
<1>4. SpentInv
  BY <1>2, <1>3 DEF SpentInv
<1>5. RequestsApart /\ SettingsApart /\ LiveApart
  BY <1>2, <1>3 DEF RequestsApart, SettingsApart, LiveApart, Apart
<1> QED BY <1>4, <1>5 DEF DistinctInv

\* Ids stay spent and apart in every step.
LEMMA IdsNext ==
    BaseInv /\ RangeInv /\ SpentInv /\ DistinctInv /\ [Next]_vars
        => SpentInv' /\ DistinctInv'
<1> SUFFICES ASSUME BaseInv, RangeInv, SpentInv, DistinctInv, [Next]_vars
             PROVE SpentInv' /\ DistinctInv'
  OBVIOUS
<1>1. Typed' /\ Typed
  BY BaseNext DEF BaseInv
<1>2. /\ row.rangeID \in Nat
      /\ \A d \in Contexts : next[d] <= next[d] /\ row.rangeID <= row.rangeID
  BY <1>1, SMT DEF Typed, TypedStore, TypedKeys, ShardInfo
<1>3. CASE UNCHANGED vars
  <2>1. UNCHANGED <<row, next, max, requests, setting, stored, executed,
                    lateWrites>>
    BY <1>3 DEF vars, storeVars, keyVars, lockVars, callVars, envVars
  <2> QED BY <2>1, IdsFrame
<1>4. CASE \E c \in Contexts : ContextStep(c)
  BY <1>1, <1>4, IdsContextStep
<1>5. CASE \E w \in lateWrites : lateWriteLands(w)
  <2>1. PICK w \in lateWrites : lateWriteLands(w)
    BY <1>5
  <2>2. /\ UNCHANGED <<row, next, max, requests, setting, executed>>
        /\ stored' = stored \cup w.tasks /\ lateWrites' = lateWrites \ {w}
    BY <2>1 DEF lateWriteLands, keyVars, lockVars, callVars, envVars
  <2>3. Written' \subseteq Written
    BY <2>2 DEF Written, Late
  <2>4. row.rangeID <= row'.rangeID /\ \A d \in Contexts : next[d] <= next'[d]
    BY <1>1, <2>2, SMT DEF Typed, TypedStore, TypedKeys, ShardInfo
  <2> QED BY <1>1, <2>2, <2>3, <2>4, IdsKept
<1>6. CASE \E u \in lateUpdates : lateUpdateLands(u)
  <2>1. PICK u \in lateUpdates : lateUpdateLands(u)
    BY <1>6
  <2>2. /\ UNCHANGED <<next, max, requests, setting, stored, executed>>
        /\ row' = u.info /\ lateWrites' \subseteq lateWrites
    BY <2>1 DEF lateUpdateLands, FenceLateCalls, keyVars, lockVars,
       callVars, envVars
  <2>3. Written' \subseteq Written
    BY <2>2 DEF Written, Late
  <2>4. row'.rangeID \in {row.rangeID, row.rangeID + 1}
    BY <2>2 DEF RangeInv, LateCalls
  <2>5. row.rangeID <= row'.rangeID /\ \A d \in Contexts : next[d] <= next'[d]
    BY <1>2, <2>2, <2>4, SMT
  <2> QED BY <1>1, <2>2, <2>3, <2>5, IdsKept
<1> QED BY <1>3, <1>4, <1>5, <1>6 DEF Next

-----------------------------------------------------------------------------
(* The count of requests in flight *)

\* A step that answers or sends at most one request of one context, and counts
\* it, keeps the count right.
LEMMA CountKept ==
    ASSUME CountInv, NEW c \in Contexts,
           \A d \in Contexts \ {c} : /\ Unanswered(d)' = Unanswered(d)
                                     /\ inflight'[d] = inflight[d],
           \/ Unanswered(c)' = Unanswered(c) /\ inflight'[c] = inflight[c]
           \/ \E q : /\ q \notin Unanswered(c)
                     /\ Unanswered(c)' = Unanswered(c) \cup {q}
                     /\ inflight'[c] = inflight[c] + 1
           \/ \E q \in Unanswered(c) : /\ Unanswered(c)' = Unanswered(c) \ {q}
                                       /\ inflight'[c] = inflight[c] - 1
    PROVE CountInv'
<1> DEFINE U == Unanswered(c)
<1>1. IsFiniteSet(U) /\ inflight[c] = Cardinality(U)
  BY DEF CountInv
<1>2. \A d \in Contexts \ {c} : /\ IsFiniteSet(Unanswered(d)')
                                /\ inflight'[d] = Cardinality(Unanswered(d)')
  BY DEF CountInv
<1>3. IsFiniteSet(Unanswered(c)') /\ inflight'[c] = Cardinality(Unanswered(c)')
  <2>1. CASE Unanswered(c)' = U /\ inflight'[c] = inflight[c]
    BY <1>1, <2>1
  <2>2. CASE \E q : /\ q \notin U /\ Unanswered(c)' = U \cup {q}
                    /\ inflight'[c] = inflight[c] + 1
    <3>1. PICK q : /\ q \notin U /\ Unanswered(c)' = U \cup {q}
                   /\ inflight'[c] = inflight[c] + 1
      BY <2>2
    <3> HIDE DEF U
    <3>2. IsFiniteSet(U \cup {q}) /\ Cardinality(U \cup {q}) = Cardinality(U) + 1
      BY <1>1, <3>1, FS_AddElement
    <3> QED BY <1>1, <3>1, <3>2
  <2>3. CASE \E q \in U : /\ Unanswered(c)' = U \ {q}
                          /\ inflight'[c] = inflight[c] - 1
    <3>1. PICK q \in U : /\ Unanswered(c)' = U \ {q}
                         /\ inflight'[c] = inflight[c] - 1
      BY <2>3
    <3> HIDE DEF U
    <3>2. IsFiniteSet(U \ {q}) /\ Cardinality(U \ {q}) = Cardinality(U) - 1
      BY <1>1, <3>1, FS_RemoveElement
    <3> QED BY <1>1, <3>1, <3>2
  <2> QED BY <2>1, <2>2, <2>3
<1> QED BY <1>2, <1>3 DEF CountInv

\* Steps that neither send nor answer a request.
LEMMA CountFrame ==
    ASSUME CountInv, UNCHANGED <<requests, inflight>>
    PROVE CountInv'
BY DEF CountInv, Unanswered

\* A write that is sent is a request that was not there: it has a number of its
\* own.
LEMMA CountSent ==
    ASSUME BaseInv, CountInv, NEW c \in Contexts, NEW call,
           \A r \in requests[c] : r.call # call, NEW tasks,
           inflight' = [inflight EXCEPT ![c] = @ + 1],
           requests' = [requests EXCEPT ![c] = @ \cup
               {[call |-> call, range |-> info[c].rangeID, tasks |-> tasks,
                 answer |-> "none"]}]
    PROVE CountInv'
<1> DEFINE q == [call |-> call, range |-> info[c].rangeID, tasks |-> tasks,
                 answer |-> "none"]
<1>1. /\ requests \in [Contexts -> SUBSET Request] /\ inflight \in [Contexts -> Int]
      /\ requests' = [requests EXCEPT ![c] = requests[c] \cup {q}]
  BY DEF BaseInv, Typed, TypedCalls, TypedKeys
<1>2. q.call = call /\ q.answer = "none"
  OBVIOUS
<1> HIDE DEF q
<1>3. q \notin Unanswered(c)
  BY <1>2 DEF Unanswered
<1>4. /\ requests'[c] = requests[c] \cup {q} /\ inflight'[c] = inflight[c] + 1
      /\ \A d \in Contexts \ {c} : /\ requests'[d] = requests[d]
                                   /\ inflight'[d] = inflight[d]
  BY <1>1
<1>5. Unanswered(c)' = Unanswered(c) \cup {q}
  BY <1>2, <1>4 DEF Unanswered
<1>6. \A d \in Contexts \ {c} : Unanswered(d)' = Unanswered(d)
  BY <1>4 DEF Unanswered
<1> QED BY <1>3, <1>4, <1>5, <1>6, CountKept

\* AddTasks, at once or after a renewal, counts the request that it sends.
LEMMA CountAddTasks ==
    ASSUME BaseInv, CountInv, NEW c \in Contexts,
           \/ \E tasks \in Writes[category], now \in Clock : AddTasks(c, tasks, now)
           \/ AddTasksGoesOn(c)
    PROVE CountInv'
<1>1. calls \in Nat
  BY ShardAssumption, SMT DEF BaseInv, Typed, TypedStore
<1>2. \A r \in requests[c] : r.call # calls /\ (lock[c] = "write" => r.call # setting[c].call)
  BY <1>1, SMT DEF BaseInv, CallInv
<1> DEFINE Sends(call) ==
             \E tasks :
               /\ inflight' = [inflight EXCEPT ![c] = @ + 1]
               /\ requests' = [requests EXCEPT ![c] = @ \cup
                      {[call |-> call, range |-> info[c].rangeID, tasks |-> tasks,
                        answer |-> "none"]}]
<1>3. \A call : Sends(call) /\ (\A r \in requests[c] : r.call # call) => CountInv'
  BY CountSent
<1>4. CASE \E tasks \in Writes[category], now \in Clock : AddTasks(c, tasks, now)
  <2>1. UNCHANGED <<requests, inflight>> \/ Sends(calls)
    BY <1>4 DEF AddTasks, SetTaskKeys
  <2> QED BY <1>2, <1>3, <2>1, CountFrame
<1>5. CASE AddTasksGoesOn(c)
  <2>1. UNCHANGED <<requests, inflight>> \/ Sends(setting[c].call)
    BY <1>5 DEF AddTasksGoesOn, SetTaskKeys
  <2>2. lock[c] = "write"
    BY <1>5 DEF AddTasksGoesOn
  <2> HIDE DEF Sends
  <2> QED BY <1>2, <1>3, <2>1, <2>2, CountFrame
<1> QED BY <1>4, <1>5

\* An answered request is counted as completed at once, whatever the answer.
LEMMA CountWriteAnswered ==
    ASSUME BaseInv, CountInv, NEW c \in Contexts, NEW r \in requests[c],
           NEW answer \in Answers, writeAnswered(c, r, answer)
    PROVE CountInv'
<1>1. Answered(c, r)
  BY WriteAnsweredFacts DEF BaseInv
<1>2. inflight' = [inflight EXCEPT ![c] = @ - 1] /\ inflight \in [Contexts -> Int]
  BY DEF writeAnswered, Completed, BaseInv, Typed, TypedKeys
<1>3. inflight'[c] = inflight[c] - 1
      /\ \A d \in Contexts \ {c} : inflight'[d] = inflight[d]
  BY <1>2
<1>4. \A d \in Contexts \ {c} : Unanswered(d)' = Unanswered(d)
  BY <1>1 DEF Answered, Unanswered
<1> QED BY <1>1, <1>3, <1>4, CountKept DEF Answered

\* A caller that learns of its answer was counted before.
LEMMA CountWriteReturns ==
    ASSUME BaseInv, CountInv, NEW c \in Contexts, NEW r \in requests[c],
           writeReturns(c, r)
    PROVE CountInv'
<1>1. /\ r.answer # "none" /\ inflight' = inflight
      /\ requests' = [requests EXCEPT ![c] = @ \ {r}]
      /\ requests \in [Contexts -> SUBSET Request]
  BY DEF writeReturns, keyVars, BaseInv, Typed, TypedCalls
<1>2. requests'[c] = requests[c] \ {r}
      /\ \A d \in Contexts \ {c} : requests'[d] = requests[d]
  BY <1>1
<1>3. Unanswered(c)' = Unanswered(c)
  BY <1>1, <1>2 DEF Unanswered
<1>4. \A d \in Contexts \ {c} : Unanswered(d)' = Unanswered(d)
  BY <1>2 DEF Unanswered
<1> QED BY <1>1, <1>3, <1>4, CountKept

\* A renewal clears a count that is zero already.
LEMMA CountGranted ==
    ASSUME BaseInv, CountInv, NEW c \in Contexts, renewRangeGranted(c)
    PROVE CountInv'
<1>1. requests' = requests /\ inflight[c] = 0 /\ inflight' = [inflight EXCEPT ![c] = 0]
  BY DEF renewRangeGranted, Drained, setRangeID, callVars
<1>2. inflight' = inflight
  BY <1>1 DEF BaseInv, Typed, TypedKeys
<1> QED BY <1>1, <1>2, CountFrame

\* The count is right after every step.
LEMMA CountNext == BaseInv /\ CountInv /\ [Next]_vars => CountInv'
<1> SUFFICES ASSUME BaseInv, CountInv, [Next]_vars PROVE CountInv'
  OBVIOUS
<1>1. CASE UNCHANGED vars
  BY <1>1, CountFrame DEF vars, keyVars, callVars
<1>2. CASE \/ \E w \in lateWrites : lateWriteLands(w)
           \/ \E u \in lateUpdates : lateUpdateLands(u)
  <2>1. UNCHANGED <<requests, inflight>>
    BY <1>2 DEF lateWriteLands, lateUpdateLands, keyVars, callVars
  <2> QED BY <2>1, CountFrame
<1>3. ASSUME NEW c \in Contexts, ContextStep(c) PROVE CountInv'
  <2>1. CASE \/ start(c) \/ loadShardMetadata(c) \/ loadShardMetadataFails(c)
             \/ acquireShardGivesUp(c) \/ transitionAcquired(c) \/ FinishStop(c)
    <3>1. UNCHANGED <<requests, inflight>>
      BY <2>1 DEF start, loadShardMetadata, loadShardMetadataFails,
         acquireShardGivesUp, transitionAcquired, FinishStop, keyVars, callVars
    <3> QED BY <3>1, CountFrame
  <2>2. CASE \/ \E answer \in Answers : renewRangeRefused(c, answer)
             \/ GenerateTaskID(c) \/ checkpoint(c)
             \/ \E now \in Clock : processNewRange(c, now)
             \/ \E u \in updates[c] :
                    \/ UpdateShardCommits(c, u)
                    \/ \E answer \in Answers : UpdateShardFails(c, u, answer)
    <3>1. UNCHANGED <<requests, inflight>>
      BY <2>2 DEF renewRangeRefused, GenerateTaskID, processNewRange,
         checkpoint, UpdateShardCommits, UpdateShardFails, keyVars, callVars
    <3> QED BY <3>1, CountFrame
  <2>3. CASE renewRangeGranted(c)
    BY <2>3, CountGranted
  <2>4. CASE \/ \E tasks \in Writes[category], now \in Clock : AddTasks(c, tasks, now)
             \/ AddTasksGoesOn(c)
    BY <2>4, CountAddTasks
  <2>5. CASE \E r \in requests[c] :
               \/ \E answer \in Answers : writeAnswered(c, r, answer)
               \/ writeReturns(c, r)
    BY <2>5, CountWriteAnswered, CountWriteReturns
  <2> QED BY <1>3, <2>1, <2>2, <2>3, <2>4, <2>5 DEF ContextStep
<1> QED BY <1>1, <1>2, <1>3 DEF Next

\* Nothing is in flight initially.
LEMMA CountInit == Init => CountInv
<1> SUFFICES ASSUME Init PROVE CountInv
  OBVIOUS
<1>1. \A c \in Contexts : Unanswered(c) = {} /\ inflight[c] = 0
  BY DEF Init, Unanswered
<1> QED BY <1>1, FS_EmptySet DEF CountInv

\* When the count is zero, no request waits for the store.
LEMMA CountDrains == CountInv => DrainInv
BY FS_EmptySet DEF CountInv, DrainInv

-----------------------------------------------------------------------------
(* The inductive invariant *)

\* Every reachable state of ShardTasks satisfies all layers of the invariant:
\* each is kept given those before it, and the marks given all others.
THEOREM ShardInvariant == Spec => []ShardInv
<1>1. Init => ShardInv
  BY BaseInit, CountInit, RangeInit, IdsInit, MarksInit DEF ShardInv
<1>2. ShardInv /\ [Next]_vars => ShardInv'
  <2> SUFFICES ASSUME ShardInv, [Next]_vars PROVE ShardInv'
    OBVIOUS
  <2>1. BaseInv /\ CountInv /\ RangeInv /\ SpentInv /\ DistinctInv /\ MarksInv
    BY DEF ShardInv
  <2>2. DrainInv
    BY <2>1, CountDrains
  <2>3. BaseInv' /\ CountInv'
    BY <2>1, BaseNext, CountNext
  <2>4. RangeInv'
    BY <2>1, <2>2, RangeNext
  <2>5. SpentInv' /\ DistinctInv'
    BY <2>1, IdsNext
  <2>6. Typed'
    BY <2>3 DEF BaseInv
  <2>7. MarksInv'
    BY <2>1, <2>2, <2>4, <2>6, MarksNext
  <2> QED BY <2>3, <2>4, <2>5, <2>7 DEF ShardInv
<1> QED BY <1>1, <1>2, PTL DEF Spec

-----------------------------------------------------------------------------
(* What the invariant says *)

\* Every variable of a shard holds values of its kind; inflightRequestCount of
\* taskRequestTracker never falls below zero.
THEOREM TypeCorrect == Spec => []TypeOK
<1>1. ShardInv => TypeOK
  <2> SUFFICES ASSUME ShardInv PROVE TypeOK
    OBVIOUS
  <2>1. Typed /\ CountInv
    BY DEF ShardInv, BaseInv
  <2>2. inflight \in [Contexts -> Int] /\ \A c \in Contexts : inflight[c] \in Nat
    BY <2>1, FS_CardinalityType DEF CountInv, Typed, TypedKeys
  <2>3. inflight \in [Contexts -> Nat]
    BY <2>2
  <2> QED BY <2>1, <2>3 DEF TypeOK, Typed, TypedStore, TypedLife, TypedKeys,
             TypedCalls, TypedQueue
<1> QED BY <1>1, ShardInvariant, PTL

\* A context in state Acquiring has acquireShard running, and one that is
\* acquired has its engine: what transition() of the shard context promises.
THEOREM AcquiringAttended == Spec => []AcquiringIsAttended
<1>1. ShardInv => AcquiringIsAttended
  BY DEF ShardInv, BaseInv, LifeInv, Life, AcquiringIsAttended
<1> QED BY <1>1, ShardInvariant, PTL

\* Once a context is stopped and acquireShard is over, no engine of it runs:
\* either FinishStop or transitionAcquired has stopped it.
THEOREM StoppedIsQuiet == Spec => []StoppedHasNoEngine
<1>1. ShardInv => StoppedHasNoEngine
  <2> SUFFICES ASSUME ShardInv, NEW c \in Contexts, state[c] = "stopped",
                      acq[c] # "engine"
               PROVE ~Running(c)
    BY DEF StoppedHasNoEngine
  <2>1. engine[c] # "set" /\ engine[c] # "started"
    BY DEF ShardInv, BaseInv, LifeInv, Life
  <2> QED BY <2>1 DEF Running
<1> QED BY <1>1, ShardInvariant, PTL

\* renewRangeLocked never fences a write of its own context: what drain is for.
THEOREM RenewalIsSafe == Spec => []RenewalFencesNoOwnWrite
<1>1. ShardInv => RenewalFencesNoOwnWrite
  BY DEF ShardInv, RangeInv, RangeOf, Unanswered, RenewalFencesNoOwnWrite
<1> QED BY <1>1, ShardInvariant, PTL

\* drain, which runs under rwLock, waits only for answers of the store.
THEOREM DrainIsBounded == Spec => []DrainWaitsForStore
<1>1. ShardInv => DrainWaitsForStore
  BY DEF ShardInv, CountInv, Unanswered, DrainWaitsForStore
<1> QED BY <1>1, ShardInvariant, PTL

\* The shard never gives a task id to two writes that are on their way, nor to
\* one that follows a stored task: generateTaskIDLocked takes ids of a block
\* that UpdateShard has granted once.
THEOREM IdsUnique == Spec => []TaskIDsUnique
<1>1. ShardInv => TaskIDsUnique
  <2> SUFFICES ASSUME ShardInv, NEW c \in Contexts, NEW d \in Contexts,
                      NEW r \in requests[c], NEW s \in requests[d]
               PROVE /\ (c = d /\ r = s) \/ Ids(r.tasks) \cap Ids(s.tasks) = {}
                     /\ r.answer = "none" =>
                          Ids(r.tasks) \cap Ids(stored \cup executed) = {}
    BY DEF TaskIDsUnique
  <2>1. (c = d /\ r = s) \/ Apart(r.tasks, s.tasks)
    BY DEF ShardInv, DistinctInv, RequestsApart
  <2>2. r.answer = "none" => Apart(r.tasks, stored \cup executed)
    <3> SUFFICES ASSUME r.answer = "none", NEW t \in r.tasks,
                        NEW v \in stored \cup executed
                 PROVE t.id # v.id
      BY DEF Apart
    <3>1. t \in Live(c)
      BY DEF Live, Unanswered
    <3>2. v \in Written
      BY DEF Written
    <3> QED BY <3>1, <3>2 DEF ShardInv, DistinctInv, LiveApart, Apart
  <2>3. \A ts, vs : Apart(ts, vs) => Ids(ts) \cap Ids(vs) = {}
    BY DEF Apart, Ids
  <2> QED BY <2>1, <2>2, <2>3
<1> QED BY <1>1, ShardInvariant, PTL

\* What can still be written was given its key by the owner of the range.
LEMMA WritableCases ==
    ASSUME ShardInv, NEW t \in Writable
    PROVE t \in Late \/ \E d \in Contexts : Owns(d) /\ t \in Live(d)
<1>1. CASE \E w \in lateWrites : t \in w.tasks
  BY <1>1 DEF Late
<1>2. CASE \E s \in Sent : /\ s.answer = "none" /\ s.range = row.rangeID
                           /\ t \in s.tasks
  <2>1. PICK s \in Sent : /\ s.answer = "none" /\ s.range = row.rangeID
                          /\ t \in s.tasks
    BY <1>2
  <2>2. PICK d \in Contexts : s \in requests[d]
    BY <2>1 DEF Sent
  <2>3. s \in Unanswered(d) /\ t \in Live(d)
    BY <2>1, <2>2 DEF Unanswered, Live
  <2>4. info[d].rangeID = row.rangeID
    BY <2>1, <2>3 DEF ShardInv, RangeInv, RangeOf
  <2>5. max[d] # 0
    BY <2>2 DEF ShardInv, BaseInv, LifeInv, Life
  <2> QED BY <2>3, <2>4, <2>5 DEF Owns
<1> QED BY <1>1, <1>2 DEF Writable

\* No task reaches the store below what the queue of the owner has taken over,
\* nor, for immediate tasks, below that of any context: the promise of
\* getExclusiveReaderHighWatermark.
THEOREM WatermarkIsSafe == Spec => []NoWriteBelowWatermark
<1>1. ShardInv => NoWriteBelowWatermark
  <2> SUFFICES ASSUME ShardInv, NEW c \in Contexts, Running(c), NEW t \in Writable,
                      ~(category = "scheduled" /\ info[c].rangeID # row.rangeID)
               PROVE queue[c].high <= Position(t)
    BY DEF NoWriteBelowWatermark
  <2>1. /\ Typed /\ LifeInv /\ RangeInv /\ QueueInv /\ BehindInv
        /\ category \in Categories
    BY DEF ShardInv, BaseInv, MarksInv, Typed, TypedStore
  <2>2. max[c] # 0
    BY <2>1, RunningFacts
  <2>3. Owns(c) \/ category = "immediate"
    BY <2>1, <2>2 DEF Owns, Categories
  <2> QED BY <2>1, <2>3, AboveHigh, WritableCases
<1> QED BY <1>1, ShardInvariant, PTL

\* A context that loads the shards row starts its queue at or below every task
\* that is stored or can still be: SetQueueState saves no mark above one.
THEOREM RowIsSafe == Spec => []RowCoversTasks
<1>1. ShardInv => RowCoversTasks
  <2> SUFFICES ASSUME ShardInv, NEW t \in stored \cup Writable
               PROVE row.done <= Position(t)
    BY DEF RowCoversTasks
  <2>1. Covers(row)
    BY MarkCases DEF ShardInv, MarksInv, CoverInv
  <2> QED BY <2>1, WritableCases DEF Covers
<1> QED BY <1>1, ShardInvariant, PTL

\* Only checkpoint deletes rows.
LEMMA OnlyCheckpointDeletes ==
    ASSUME [Next]_vars
    PROVE stored \subseteq stored' \/ \E c \in Contexts : checkpoint(c)
<1>1. CASE UNCHANGED vars
  BY <1>1 DEF vars, storeVars
<1>2. CASE \/ \E w \in lateWrites : lateWriteLands(w)
           \/ \E u \in lateUpdates : lateUpdateLands(u)
  BY <1>2 DEF lateWriteLands, lateUpdateLands
<1>3. ASSUME NEW c \in Contexts, ContextStep(c), ~checkpoint(c)
      PROVE stored \subseteq stored'
  <2>1. CASE \/ start(c) \/ loadShardMetadata(c) \/ loadShardMetadataFails(c)
             \/ acquireShardGivesUp(c) \/ transitionAcquired(c) \/ FinishStop(c)
             \/ renewRangeGranted(c) \/ AddTasksGoesOn(c) \/ GenerateTaskID(c)
    BY <2>1 DEF start, loadShardMetadata, loadShardMetadataFails,
       acquireShardGivesUp, transitionAcquired, FinishStop, renewRangeGranted,
       AddTasksGoesOn, GenerateTaskID, storeVars
  <2>2. CASE \/ \E answer \in Answers : renewRangeRefused(c, answer)
             \/ \E tasks \in Writes[category], now \in Clock : AddTasks(c, tasks, now)
             \/ \E now \in Clock : processNewRange(c, now)
    BY <2>2 DEF renewRangeRefused, AddTasks, processNewRange, storeVars
  <2>3. CASE \E r \in requests[c] :
               \/ \E answer \in Answers : writeAnswered(c, r, answer)
               \/ writeReturns(c, r)
    BY <2>3 DEF writeAnswered, writeReturns, storeVars
  <2>4. CASE \E u \in updates[c] :
               \/ UpdateShardCommits(c, u)
               \/ \E answer \in Answers : UpdateShardFails(c, u, answer)
    BY <2>4 DEF UpdateShardCommits, UpdateShardFails
  <2> QED BY <1>3, <2>1, <2>2, <2>3, <2>4 DEF ContextStep
<1> QED BY <1>1, <1>2, <1>3 DEF Next

\* A row of an immediate queue is deleted only after its task was executed,
\* though nothing fences the deletions of a context that has lost the shard.
THEOREM DeletionIsSafe == Spec => DeletedWereExecuted
<1>1. ShardInv /\ [Next]_vars =>
        [category = "immediate" => stored \ stored' \subseteq executed]_vars
  <2> SUFFICES ASSUME ShardInv, [Next]_vars, category = "immediate",
                      NEW t \in stored, t \notin stored'
               PROVE t \in executed
    OBVIOUS
  <2>1. PICK c \in Contexts : checkpoint(c)
    BY OnlyCheckpointDeletes
  <2>2. Running(c) /\ Position(t) \in queue[c].deleted..queue[c].done - 1
    BY <2>1 DEF checkpoint
  <2> QED BY <2>2 DEF ShardInv, MarksInv, DeletedInv
<1> QED BY <1>1, ShardInvariant, PTL DEF Spec, DeletedWereExecuted
=============================================================================
