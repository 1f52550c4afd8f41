----------------------- MODULE TaskQueueBacklogProofs -----------------------
(***************************************************************************)
(* Every step preserves OwedInv: the ids of the holder of the lease stay   *)
(* ahead of every ack level, a request to rewrite a task carries that      *)
(* task, what the holder of the lease stores is kept, and so are owed      *)
(* tasks. Then what the three invariants say of the reachable states of    *)
(* the backlog, for any number of hosts and tasks.                         *)
(***************************************************************************)
EXTENDS BacklogLayers, FiniteSetTheorems

(* Zenon is the prover of a step that names no other. *)
USE Zenon

-----------------------------------------------------------------------------
(* The holder of the lease is ahead of every ack level *)

\* A level above all ack levels stays above them.
LEMMA AcksBelow ==
    ASSUME LevelsInv, FreshInv, CommitShape, NEW i \in Nat, row.ackLevel < i,
           \A w \in Committable : w.ack < i,
           \A q \in Owners : Running(q) /\ Holder(q) => ackLevel[q] < i
    PROVE  row'.ackLevel < i /\ \A w \in Committable' : w.ack < i
<1>1. row'.ackLevel < i
  BY DEF CommitShape
<1>2. row.ackLevel \in Nat
  BY DEF LevelsInv, TypeOK
<1>3. 0 < i
  BY <1>2, SMT
<1>4. ASSUME NEW q \in Owners, Running(q), Holder(q) PROVE dbAck[q] < i
  <2>1. /\ dbAck[q] \in Nat /\ ackLevel[q] \in Nat /\ dbAck[q] <= ackLevel[q]
        /\ ackLevel[q] < i
    BY <1>4, RunningLevels DEF LevelsInv, FreshInv, AckFresh
  <2> QED
    BY <2>1, SMT
<1>5. ASSUME NEW a, AckSource(a) PROVE a < i
  BY <1>3, <1>4, <1>5 DEF AckSource
<1> QED
  BY <1>1, <1>5 DEF CommitShape

\* The levels of an owner lie within the blocks it has had, so below an id that
\* the holder of a later lease has given out.
LEMMA OtherLevels ==
    ASSUME LevelsInv, NEW p \in Owners, NEW i \in Nat, BlockEnd(rangeID[p]) < i
    PROVE  /\ ackLevel[p] < i /\ readLevel[p] < i
           /\ \A s \in batch[p] : s.id < i
<1>0. TypeOK /\ OwnerOK(p) /\ UnloadedOK(p) /\ ReaderOK(p)
  BY DEF LevelsInv, OwnerOK
<1>1. CASE ~Running(p)
  <2>1. ackLevel[p] = -1 /\ readLevel[p] = -1 /\ batch[p] = {}
    BY <1>0, <1>1 DEF UnloadedOK
  <2> QED
    BY <2>1, SMT
<1>2. CASE Running(p)
  <2>1. /\ BlockEnd(rangeID[p]) \in Nat /\ ackLevel[p] \in Nat /\ readLevel[p] \in Nat
        /\ maxReadLevel[p] \in Nat /\ next[p] \in Nat
        /\ ackLevel[p] <= readLevel[p] /\ readLevel[p] <= maxReadLevel[p]
        /\ maxReadLevel[p] < next[p] /\ next[p] <= BlockEnd(rangeID[p]) + 1
    BY <1>0, <1>2, RunningLevels
  <2>2. \A s \in batch[p] : s.id <= maxReadLevel[p]
    BY <1>0 DEF ReaderOK
  <2>3. batch[p] \in SUBSET StoredTask
    BY <1>0 DEF TypeOK
  <2>4. \A s \in batch[p] : s.id \in Nat
    BY <2>3 DEF StoredTask
  <2>5. maxReadLevel[p] < i /\ ackLevel[p] < i /\ readLevel[p] < i
    BY <2>1, SMT
  <2> QED
    BY <2>1, <2>2, <2>4, <2>5, SMT
<1> QED
  BY <1>1, <1>2

\* The ids of the batch and the next id are above the levels of their owner.
LEMMA OwnLevels ==
    ASSUME LevelsInv, NEW p \in Owners, Running(p), NEW i \in Nat,
           maxReadLevel[p] < i
    PROVE  /\ ackLevel[p] < i /\ readLevel[p] < i
           /\ \A s \in batch[p] : s.id < i
<1>0. TypeOK /\ OwnerOK(p) /\ ReaderOK(p)
  BY DEF LevelsInv, OwnerOK
<1>1. /\ ackLevel[p] \in Nat /\ readLevel[p] \in Nat /\ maxReadLevel[p] \in Nat
      /\ ackLevel[p] <= readLevel[p] /\ readLevel[p] <= maxReadLevel[p]
  BY <1>0, RunningLevels
<1>2. \A s \in batch[p] : s.id <= maxReadLevel[p]
  BY <1>0 DEF ReaderOK
<1>3. batch[p] \in SUBSET StoredTask
  BY <1>0 DEF TypeOK
<1>4. \A s \in batch[p] : s.id \in Nat
  BY <1>3 DEF StoredTask
<1> QED
  BY <1>1, <1>2, <1>4, SMT

\* The holder of the lease runs.
LEMMA HolderRuns ==
    ASSUME LevelsInv, NEW p \in Owners, Holder(p)
    PROVE  Running(p) /\ \A q \in Owners : Holder(q) => q = p
<1>1. UnloadedOK(p) /\ OneOwnerPerLease
  BY DEF LevelsInv, OwnerOK
<1> QED
  BY <1>1 DEF Holder, UnloadedOK, OneOwnerPerLease

\* An id that is ahead stays ahead as long as its owner holds the lease.
LEMMA StaysAhead ==
    ASSUME LevelsInv, FreshInv, CommitShape, NEW p \in Owners, Holder(p),
           NEW i \in Nat, maxReadLevel[p] < i, Unpassed(p, i),
           \A q \in Owners : rangeID'[q] = rangeID[q] \/ rangeID'[q] = 0
    PROVE  Unpassed(p, i)'
<1>1. /\ row.ackLevel < i /\ \A w \in Committable : w.ack < i
      /\ \A q \in Owners \ {p} : BlockEnd(rangeID[q]) < i
  BY DEF Unpassed
<1>2. Running(p) /\ ackLevel[p] < i
  BY HolderRuns, OwnLevels
<1>3. \A q \in Owners : Running(q) /\ Holder(q) => ackLevel[q] < i
  BY <1>2, HolderRuns
<1>4. row'.ackLevel < i /\ \A w \in Committable' : w.ack < i
  BY <1>1, <1>3, AcksBelow
<1>5. BlockEnd(0) < i
  <2>1. BlockEnd(0) = 0
    BY ConstantsAssumption, SMT DEF BlockEnd
  <2>2. maxReadLevel[p] \in Nat
    BY DEF LevelsInv, TypeOK
  <2> QED
    BY <2>1, <2>2, SMT
<1>6. \A q \in Owners \ {p} : BlockEnd(rangeID'[q]) < i
  BY <1>1, <1>5
<1>7. \A q : BlockEnd(rangeID[q])' = BlockEnd(rangeID'[q])
  BY DEF BlockEnd
<1> QED
  BY <1>4, <1>6, <1>7 DEF Unpassed

\* A level above one that is ahead is ahead.
LEMMA AheadAbove ==
    ASSUME LevelsInv', NEW p \in Owners, NEW i \in Nat, NEW j \in Nat, i <= j,
           Unpassed(p, i)'
    PROVE  Unpassed(p, j)'
<1>1. row'.ackLevel \in Nat /\ row'.ackLevel < i
  BY DEF LevelsInv, TypeOK, Unpassed
<1>2. row'.ackLevel < j
  BY <1>1, SMT
<1>3. ASSUME NEW w \in Committable' PROVE w.ack < j
  <2>1. w \in Write
    <3>1. w # NoOp /\ (w \in late' \/ \E q \in Owners : w = op'[q])
      BY DEF Committable
    <3>2. late' \in SUBSET Write /\ \A q \in Owners : op'[q] \in Write \cup {NoOp}
      BY DEF LevelsInv, TypeOK
    <3> QED
      BY <3>1, <3>2
  <2>2. w.ack \in Nat /\ w.ack < i
    BY <2>1 DEF Write, Unpassed
  <2> QED
    BY <2>2, SMT
<1>4. ASSUME NEW q \in Owners \ {p} PROVE BlockEnd(rangeID'[q]) < j
  <2>1. BlockEnd(rangeID'[q]) \in Nat /\ BlockEnd(rangeID'[q]) < i
    BY Blocks DEF LevelsInv, TypeOK, Unpassed
  <2> QED
    BY <2>1, SMT
<1> QED
  BY <1>2, <1>3, <1>4 DEF Unpassed

\* What a step that grants no lease does to the holder's ids.
HolderShape(p) ==
    Holder(p)' =>
        /\ Holder(p)
        /\ next'[p] = next[p] \/ next'[p] = next[p] + 1
        /\ \A r \in wtasks'[p] : r \in wtasks[p] \/ r.id = next[p]

\* Every step has one of these shapes.
LEMMA HolderShapes ==
    ASSUME LevelsInv, WriteShape, \A o \in Owners : ~LeaseGranted(o)
    PROVE  /\ \A q \in Owners : rangeID'[q] = rangeID[q] \/ rangeID'[q] = 0
           /\ \A p \in Owners : HolderShape(p)
<1>0. TypeOK /\ OneOwnerPerLease /\ LateOK
  BY DEF LevelsInv
<1>1. CASE WritesNothing
  BY <1>1 DEF WritesNothing, HolderShape, Holder
<1>2. ASSUME NEW o \in Owners, NEW w, BatchLeaves(o, w)
      PROVE  /\ \A q \in Owners : rangeID'[q] = rangeID[q] \/ rangeID'[q] = 0
             /\ \A p \in Owners : HolderShape(p)
  BY <1>2 DEF BatchLeaves, HolderShape, Holder
<1>3. ASSUME NEW o \in Owners, assignTaskID(o)
      PROVE  /\ \A q \in Owners : rangeID'[q] = rangeID[q] \/ rangeID'[q] = 0
             /\ \A p \in Owners : HolderShape(p)
  <2>1. UNCHANGED <<row, rangeID>>
    BY <1>3 DEF assignTaskID, storeVars, dbVars
  <2>2. \A p \in Owners : p # o => wtasks'[p] = wtasks[p] /\ next'[p] = next[p]
    BY <1>0, <1>3 DEF assignTaskID, TypeOK
  <2> DEFINE n == [id |-> next[o], data |-> Head(appendCh[o]).data,
                   src |-> Head(appendCh[o]).src]
  <2>3. wtasks'[o] = wtasks[o] \cup {n} /\ n.id = next[o] /\ next'[o] = next[o] + 1
    BY <1>0, <1>3 DEF assignTaskID, TypeOK
  <2> HIDE DEF n
  <2>4. HolderShape(o)
    BY <2>1, <2>3 DEF HolderShape, Holder
  <2> QED
    BY <2>1, <2>2, <2>4 DEF HolderShape, Holder
<1>4. ASSUME NEW w \in late, LateCommit(w)
      PROVE  /\ \A q \in Owners : rangeID'[q] = rangeID[q] \/ rangeID'[q] = 0
             /\ \A p \in Owners : HolderShape(p)
  <2>1. UNCHANGED <<rangeID, next, wtasks>> /\ row' = Committed(w)
    BY <1>4 DEF LateCommit, dbVars, writerVars
  <2>2. WriteOK(w) /\ w.prev = row.rangeID
    BY <1>0 DEF LateOK
  <2>3. row' = row \/ row'.rangeID = w.new
    BY <2>1 DEF Committed
  <2>4. row'.rangeID = row.rangeID \/ row'.rangeID = row.rangeID + 1
    BY <2>2, <2>3 DEF WriteOK
  <2>5. ASSUME NEW p \in Owners, Holder(p)' PROVE Holder(p)
    <3>1. rangeID[p] \in Nat /\ row.rangeID \in Nat /\ rangeID[p] <= row.rangeID
      BY <1>0 DEF TypeOK, OneOwnerPerLease
    <3>2. rangeID[p] = row'.rangeID /\ rangeID[p] # 0
      BY <2>1, <2>5 DEF Holder
    <3>3. rangeID[p] = row.rangeID
      BY <2>4, <3>1, <3>2, SMT
    <3> QED
      BY <3>2, <3>3 DEF Holder
  <2> QED
    BY <2>1, <2>5 DEF HolderShape
<1> QED
  BY <1>1, <1>2, <1>3, <1>4 DEF WriteShape

\* So the holder stays ahead.
LEMMA AheadFrame ==
    ASSUME LevelsInv, LevelsInv', FreshInv, OwedInv, [Next]_vars,
           \A o \in Owners : ~LeaseGranted(o), NEW p \in Owners
    PROVE  HolderAhead(p)'
<1> SUFFICES ASSUME Holder(p)'
             PROVE  Unpassed(p, next[p])' /\ \A r \in wtasks'[p] : Unpassed(p, r.id)'
  BY DEF HolderAhead
<1>1. /\ \A q \in Owners : rangeID'[q] = rangeID[q] \/ rangeID'[q] = 0
      /\ HolderShape(p) /\ CommitShape
  BY WriteShapes, HolderShapes, CommitShapes
<1>2. /\ Holder(p) /\ (next'[p] = next[p] \/ next'[p] = next[p] + 1)
      /\ \A r \in wtasks'[p] : r \in wtasks[p] \/ r.id = next[p]
  BY <1>1 DEF HolderShape
<1>3. Unpassed(p, next[p]) /\ \A r \in wtasks[p] : Unpassed(p, r.id)
  BY <1>2 DEF OwedInv, HolderAhead
<1>4. TypeOK /\ OwnerOK(p) /\ WriterOK(p) /\ Running(p)
  BY <1>2, HolderRuns DEF LevelsInv, OwnerOK
<1>5. next[p] \in Nat /\ maxReadLevel[p] < next[p]
  BY <1>4, RunningLevels
<1>6. \A r \in wtasks[p] : r.id \in Nat /\ maxReadLevel[p] < r.id
  <2>1. wtasks[p] \in SUBSET AssignedRequest
    BY <1>4 DEF TypeOK
  <2> QED
    BY <1>4, <2>1 DEF WriterOK, AssignedRequest
<1>7. ASSUME NEW i \in Nat, i = next[p] \/ \E r \in wtasks[p] : i = r.id
      PROVE  Unpassed(p, i)'
  <2>1. Unpassed(p, i) /\ maxReadLevel[p] < i
    BY <1>3, <1>5, <1>6, <1>7
  <2> QED
    BY <1>1, <1>2, <2>1, StaysAhead
<1>8. Unpassed(p, next[p])'
  <2>1. PICK n \in Nat : n = next[p]
    BY <1>5
  <2>2. PICK m \in Nat : m = next'[p]
    BY DEF LevelsInv, TypeOK
  <2>3. n <= m
    BY <1>2, <2>1, <2>2, SMT
  <2>4. Unpassed(p, n)'
    BY <1>7, <2>1
  <2>5. Unpassed(p, m)'
    BY <2>3, <2>4, AheadAbove
  <2> QED
    BY <2>2, <2>5 DEF Unpassed
<1>9. ASSUME NEW r \in wtasks'[p] PROVE Unpassed(p, r.id)'
  <2>1. PICK n \in Nat : n = r.id /\ (n = next[p] \/ \E x \in wtasks[p] : n = x.id)
    BY <1>2, <1>5, <1>6
  <2>2. Unpassed(p, n)'
    BY <1>7, <2>1
  <2> QED
    BY <2>1, <2>2
<1> QED
  BY <1>8, <1>9

\* What a granted lease does to rows, leases and ids.
LEMMA Granted ==
    ASSUME LevelsInv, NEW o \in Owners, LeaseGranted(o)
    PROVE  /\ op[o] \in Committable /\ op[o].ack \in Nat
           /\ op[o].ack <= BlockEnd(row.rangeID)
           /\ row'.ackLevel = op[o].ack /\ Committable' = {} /\ stored' = stored
           /\ row.rangeID \in Nat /\ BlockEnd(row.rangeID) \in Nat
           /\ row'.rangeID = row.rangeID + 1 /\ rangeID'[o] = row.rangeID + 1
           /\ next'[o] = BlockEnd(row.rangeID) + 1 /\ wtasks' = wtasks
           /\ \A p \in Owners : p # o => rangeID'[p] = rangeID[p]
           /\ Running(o) => Holder(o)
<1>0. TypeOK /\ LoadedOK(o) /\ op[o].kind = "lease" /\ lockTaskQueue(op[o])
  BY DEF LeaseGranted, LevelsInv, OwnerOK
<1>1. /\ op[o] # NoOp /\ op[o].tasks = {} /\ op[o].prev = row.rangeID
      /\ op[o].new = row.rangeID + 1 /\ op[o].ack \in Nat
      /\ op[o].ack <= BlockEnd(row.rangeID)
      /\ Running(o) => rangeID[o] = row.rangeID
  BY <1>0, OpKinds DEF WriteOK, lockTaskQueue
<1>2. /\ row'.rangeID = op[o].new /\ row'.ackLevel = op[o].ack /\ late' = {}
      /\ stored' = stored
  BY <1>0, <1>1 DEF LeaseGranted, Commit, Committed
<1>3. /\ \A q \in Owners : op'[q] = op[q] \/ op'[q] = NoOp
      /\ wtasks' = wtasks /\ rangeID'[o] = op[o].new
      /\ next'[o] = BlockStart(op[o].new)
      /\ \A p \in Owners : p # o => rangeID'[p] = rangeID[p]
  BY <1>0 DEF LeaseGranted, TypeOK
<1>4. row.rangeID \in Nat
  BY <1>0 DEF TypeOK
<1>5. Committable' = {} /\ op[o] \in Committable
  BY <1>0, <1>1, <1>2, <1>3, NewLease, CanCommit
<1>6. /\ BlockEnd(row.rangeID) \in Nat
      /\ BlockStart(row.rangeID + 1) = BlockEnd(row.rangeID) + 1
  BY <1>4, Blocks
<1>7. Running(o) => rangeID[o] # 0
  <2>1. Running(o) => rangeID[o] \in Nat /\ 1 <= rangeID[o]
    BY <1>0 DEF TypeOK, LoadedOK
  <2> QED
    BY <2>1, SMT
<1> QED
  BY <1>1, <1>2, <1>3, <1>4, <1>5, <1>6, <1>7 DEF Holder

\* A new holder is ahead of what was granted, issued and acknowledged before.
LEMMA AheadGranted ==
    ASSUME LevelsInv, OwedInv, NEW o \in Owners, LeaseGranted(o), NEW p \in Owners
    PROVE  HolderAhead(p)'
<1>0. TypeOK /\ OneOwnerPerLease /\ UnloadedOK(o) /\ HolderAhead(o)
  BY DEF LevelsInv, OwnerOK, OwedInv
<1>1. /\ op[o] \in Committable /\ op[o].ack \in Nat
      /\ op[o].ack <= BlockEnd(row.rangeID)
      /\ row'.ackLevel = op[o].ack /\ Committable' = {}
      /\ row.rangeID \in Nat /\ BlockEnd(row.rangeID) \in Nat
      /\ row'.rangeID = row.rangeID + 1 /\ rangeID'[o] = row.rangeID + 1
      /\ next'[o] = BlockEnd(row.rangeID) + 1 /\ wtasks' = wtasks
      /\ \A q \in Owners : q # o => rangeID'[q] = rangeID[q]
      /\ Running(o) => Holder(o)
  BY Granted
<1>2. \A q \in Owners : rangeID[q] \in Nat /\ rangeID[q] <= row.rangeID
  BY <1>0 DEF TypeOK, OneOwnerPerLease
<1>3. CASE p # o
  <2>1. rangeID'[p] # row'.rangeID
    <3>1. rangeID[p] # row.rangeID + 1
      BY <1>1, <1>2, SMT
    <3> QED
      BY <1>1, <1>3, <3>1
  <2> QED
    BY <2>1 DEF HolderAhead, Holder
<1>4. CASE p = o
  <2>1. ASSUME NEW i \in Nat, op[o].ack < i,
               \A q \in Owners \ {o} : BlockEnd(rangeID[q]) < i
        PROVE  Unpassed(o, i)'
    <3>1. \A q \in Owners \ {o} : BlockEnd(rangeID'[q]) < i
      BY <1>1, <2>1
    <3>2. \A q : BlockEnd(rangeID[q])' = BlockEnd(rangeID'[q])
      BY DEF BlockEnd
    <3> QED
      BY <1>1, <2>1, <3>1, <3>2 DEF Unpassed
  <2>2. Unpassed(o, next[o])'
    <3>1. PICK n \in Nat : n = next'[o]
      BY <1>1, SMT
    <3>2. op[o].ack < n
      BY <1>1, <3>1, SMT
    <3>3. ASSUME NEW q \in Owners \ {o} PROVE BlockEnd(rangeID[q]) < n
      <4>1. BlockEnd(rangeID[q]) \in Nat /\ BlockEnd(rangeID[q]) <= BlockEnd(row.rangeID)
        BY <1>1, <1>2, Blocks
      <4> QED
        BY <1>1, <3>1, <4>1, SMT
    <3>4. Unpassed(o, n)'
      BY <2>1, <3>2, <3>3
    <3> QED
      BY <3>1, <3>4 DEF Unpassed
  <2>3. ASSUME NEW r \in wtasks'[o] PROVE Unpassed(o, r.id)'
    <3>1. r \in wtasks[o]
      BY <1>1, <2>3
    <3>2. wtasks[o] \in SUBSET AssignedRequest
      BY <1>0 DEF TypeOK
    <3>3. Holder(o)
      BY <1>0, <1>1, <3>1 DEF UnloadedOK
    <3>4. Unpassed(o, r.id)
      BY <1>0, <3>1, <3>3 DEF HolderAhead
    <3>5. PICK n \in Nat : n = r.id
      BY <3>1, <3>2 DEF AssignedRequest
    <3>6. op[o].ack < n /\ \A q \in Owners \ {o} : BlockEnd(rangeID[q]) < n
      BY <1>1, <3>4, <3>5 DEF Unpassed
    <3> QED
      BY <2>1, <3>5, <3>6
  <2> QED
    BY <1>4, <2>2, <2>3 DEF HolderAhead
<1> QED
  BY <1>3, <1>4

\* Hence the holder of the lease is ahead after every step.
LEMMA AheadStep ==
    ASSUME LevelsInv, LevelsInv', FreshInv, OwedInv, [Next]_vars, NEW p \in Owners
    PROVE  HolderAhead(p)'
BY AheadFrame, AheadGranted

-----------------------------------------------------------------------------
(* The second invariant *)

\* Every step keeps the second invariant.
LEMMA FreshStep == LevelsInv /\ LevelsInv' /\ FreshInv /\ [Next]_vars => FreshInv'
<1> SUFFICES ASSUME LevelsInv, LevelsInv', FreshInv, [Next]_vars PROVE FreshInv'
  OBVIOUS
<1>1. RowsAndWriters'
  <2>1. RowsAndWriters
    BY DEF FreshInv, RowsAndWriters
  <2> QED
    BY <2>1, RowsStep
<1>2. ASSUME NEW p \in Owners PROVE ReaderFresh(p)' /\ AckFresh(p)'
  BY ReaderFreshStep, AckFreshStep
<1> QED
  BY <1>1, <1>2 DEF FreshInv, RowsAndWriters

-----------------------------------------------------------------------------
(* Requests to rewrite a task *)

\* What is in an append channel after a send, and after a receive.
LEMMA SentRequest ==
    ASSUME NEW q \in Seq(AppendRequest), NEW x \in AppendRequest, NEW t, t = Append(q, x)
    PROVE  \A i \in DOMAIN t : t[i] = x \/ \E j \in DOMAIN q : t[i] = q[j]
  BY SMT

\* The writer takes the head of the channel; the others were in it before.
LEMMA ReceivedRequest ==
    ASSUME NEW q \in Seq(AppendRequest), q # <<>>, NEW t, t = Tail(q)
    PROVE  /\ \A i \in DOMAIN t : \E j \in DOMAIN q : t[i] = q[j]
           /\ \E j \in DOMAIN q : Head(q) = q[j]
<1>1. Len(q) \in Nat /\ Len(q) >= 1 /\ DOMAIN q = 1..Len(q)
  BY SMT
<1>2. Head(q) = q[1] /\ 1 \in DOMAIN q
  BY <1>1, SMT
<1>3. ASSUME NEW i \in DOMAIN t PROVE t[i] = q[i + 1] /\ i + 1 \in DOMAIN q
  BY <1>1, SMT
<1> QED
  BY <1>2, <1>3

\* What the pending requests are.
LEMMA Pending ==
    ASSUME NEW p \in Owners
    PROVE  /\ \A r : r \in PendingAppends(p) <=>
                \/ \E i \in DOMAIN appendCh[p] : r = appendCh[p][i]
                \/ \E x \in wtasks[p] : r = [data |-> x.data, src |-> x.src]
           /\ \A r : r \in PendingAppends(p)' <=>
                \/ \E i \in DOMAIN appendCh'[p] : r = appendCh'[p][i]
                \/ \E x \in wtasks'[p] : r = [data |-> x.data, src |-> x.src]
BY DEF PendingAppends

\* A request of the next state was pending, is of SpoolTask, or is for a task
\* that is loaded.
AppendShape(p) ==
    \A r \in PendingAppends(p)' :
        \/ r \in PendingAppends(p) \/ r.src = 0
        \/ \E e \in outstanding[p] : r.src = e.id /\ r.data = e.data

\* The writer takes nothing and is sent nothing, or answers its batch.
LEMMA AppendFrame ==
    ASSUME NEW p \in Owners, wtasks'[p] = wtasks[p] \/ wtasks'[p] = {},
           \A i \in DOMAIN appendCh'[p] :
                \E j \in DOMAIN appendCh[p] : appendCh'[p][i] = appendCh[p][j]
    PROVE  AppendShape(p)
<1> SUFFICES ASSUME NEW r \in PendingAppends(p)' PROVE r \in PendingAppends(p)
  BY DEF AppendShape
<1>1. CASE \E i \in DOMAIN appendCh'[p] : r = appendCh'[p][i]
  <2>1. \E i \in DOMAIN appendCh[p] : r = appendCh[p][i]
    BY <1>1
  <2> QED
    BY <2>1, Pending
<1>2. CASE \E x \in wtasks'[p] : r = [data |-> x.data, src |-> x.src]
  <2>1. \E x \in wtasks[p] : r = [data |-> x.data, src |-> x.src]
    BY <1>2
  <2> QED
    BY <2>1, Pending
<1> QED
  BY <1>1, <1>2, Pending

\* The steps that touch neither.
LEMMA AppendQuietSteps ==
    ASSUME \/ \E o \in Owners :
                \/ Load(o) \/ takeOverTaskQueue(o)
                \/ LeaseGranted(o) \/ allocTaskIDBlock(o) \/ appendTasks(o)
                \/ ReadBegin(o) \/ ReadSome(o) \/ ReadNone(o) \/ ReadError(o)
                \/ AddTask(o) \/ persistAck(o) \/ AckAnswered(o)
                \/ ProcessSpooledTask(o)
                \/ \E e \in outstanding[o] :
                     \/ RecordTaskStarted(o, e) \/ RecordTaskStartedError(o, e)
                     \/ completeTask(o, e)
                \/ Stop(o) \/ FinalAnswered(o)
           \/ \E w \in late : LateCommit(w)
           \/ \E t \in Tasks : Expire(t)
           \/ UNCHANGED vars
    PROVE  \A p \in Owners : AppendShape(p)
<1> DEFINE Q == UNCHANGED <<appendCh, wtasks>>
<1> USE DEF writerVars
<1>1. ASSUME NEW o \in Owners, Load(o) \/ takeOverTaskQueue(o) PROVE Q
  BY <1>1 DEF Load, takeOverTaskQueue
<1>2. ASSUME NEW o \in Owners, LeaseGranted(o) \/ allocTaskIDBlock(o) PROVE Q
  BY <1>2 DEF LeaseGranted, allocTaskIDBlock
<1>3. ASSUME NEW o \in Owners, appendTasks(o) \/ ReadBegin(o) PROVE Q
  BY <1>3 DEF appendTasks, ReadBegin
<1>4. ASSUME NEW o \in Owners, ReadSome(o) \/ ReadNone(o) PROVE Q
  BY <1>4 DEF ReadSome, ReadNone
<1>5. ASSUME NEW o \in Owners, ReadError(o) \/ AddTask(o) PROVE Q
  BY <1>5 DEF ReadError, AddTask
<1>6. ASSUME NEW o \in Owners, persistAck(o) \/ AckAnswered(o) PROVE Q
  BY <1>6 DEF persistAck, AckAnswered
<1>7. ASSUME NEW o \in Owners, ProcessSpooledTask(o) PROVE Q
  BY <1>7 DEF ProcessSpooledTask
<1>8. ASSUME NEW o \in Owners, NEW e \in outstanding[o],
             \/ RecordTaskStarted(o, e) \/ RecordTaskStartedError(o, e)
             \/ completeTask(o, e)
      PROVE  Q
  BY <1>8 DEF RecordTaskStarted, RecordTaskStartedError, completeTask
<1>9. ASSUME NEW o \in Owners, Stop(o) \/ FinalAnswered(o) PROVE Q
  BY <1>9 DEF Stop, FinalAnswered
<1>10. ASSUME NEW w \in late, LateCommit(w) PROVE Q
  BY <1>10 DEF LateCommit
<1>11. ASSUME NEW t \in Tasks, Expire(t) PROVE Q
  BY <1>11 DEF Expire
<1>12. ASSUME UNCHANGED vars PROVE Q
  BY <1>12 DEF vars
<1>13. Q => \A p \in Owners : AppendShape(p)
  BY AppendFrame
<1> HIDE DEF Q
<1> QED
  BY <1>1, <1>2, <1>3, <1>4, <1>5, <1>6, <1>7, <1>8, <1>9, <1>10, <1>11,
     <1>12, <1>13

\* The steps that send a request.
LEMMA SendingSteps ==
    ASSUME LevelsInv, NEW o \in Owners,
           \/ \E t \in Tasks : SpoolTask(o, t)
           \/ \E e \in outstanding[o] : RewriteTask(o, e),
           NEW p \in Owners
    PROVE  AppendShape(p)
<1>0. TypeOK
  BY DEF LevelsInv
<1>1. UNCHANGED wtasks
  BY DEF SpoolTask, RewriteTask
<1>2. CASE appendCh'[p] = appendCh[p]
  BY <1>1, <1>2, AppendFrame
<1>3. ASSUME NEW x \in AppendRequest, appendCh'[p] = Append(appendCh[p], x),
             x.src = 0 \/ \E e \in outstanding[p] : x.src = e.id /\ x.data = e.data
      PROVE  AppendShape(p)
  <2>1. appendCh[p] \in Seq(AppendRequest)
    BY <1>0 DEF TypeOK
  <2>2. \A i \in DOMAIN appendCh'[p] :
            \/ appendCh'[p][i] = x
            \/ \E j \in DOMAIN appendCh[p] : appendCh'[p][i] = appendCh[p][j]
    BY <1>3, <2>1, SentRequest, SMT
  <2> SUFFICES ASSUME NEW r \in PendingAppends(p)' PROVE r = x \/ r \in PendingAppends(p)
    BY <1>3 DEF AppendShape
  <2>3. CASE \E i \in DOMAIN appendCh'[p] : r = appendCh'[p][i]
    <3>1. r = x \/ \E i \in DOMAIN appendCh[p] : r = appendCh[p][i]
      BY <2>2, <2>3
    <3> QED
      BY <3>1, Pending
  <2>4. CASE \E y \in wtasks'[p] : r = [data |-> y.data, src |-> y.src]
    BY <1>1, <2>4, Pending
  <2> QED
    BY <2>3, <2>4, Pending
<1>4. CASE \E t \in Tasks : SpoolTask(o, t)
  <2>1. PICK t \in Tasks :
            appendCh' = [appendCh EXCEPT ![o] = Append(@, [data |-> t, src |-> 0])]
    BY <1>4 DEF SpoolTask
  <2>2. [data |-> t, src |-> 0] \in AppendRequest /\ [data |-> t, src |-> 0].src = 0
    BY DEF AppendRequest
  <2>3. CASE p = o
    <3>1. appendCh'[p] = Append(appendCh[p], [data |-> t, src |-> 0])
      BY <1>0, <2>1, <2>3 DEF TypeOK
    <3> QED
      BY <1>3, <2>2, <3>1
  <2>4. CASE p # o
    BY <1>0, <1>2, <2>1, <2>4 DEF TypeOK
  <2> QED
    BY <2>3, <2>4
<1>5. ASSUME NEW e \in outstanding[o], RewriteTask(o, e) PROVE AppendShape(p)
  <2> DEFINE x == [data |-> e.data, src |-> e.id]
  <2>1. \/ UNCHANGED appendCh
        \/ appendCh' = [appendCh EXCEPT ![o] = Append(@, x)]
    BY <1>5 DEF RewriteTask
  <2>2. e \in LoadedTask
    BY <1>0 DEF TypeOK
  <2>3. x \in AppendRequest /\ x.src = e.id /\ x.data = e.data
    BY <2>2 DEF AppendRequest, LoadedTask
  <2> HIDE DEF x
  <2>4. CASE p = o
    <3>1. appendCh'[p] = appendCh[p] \/ appendCh'[p] = Append(appendCh[p], x)
      BY <1>0, <2>1, <2>4 DEF TypeOK
    <3> QED
      BY <1>2, <1>3, <2>3, <2>4, <3>1
  <2>5. CASE p # o
    BY <1>0, <1>2, <2>1, <2>5 DEF TypeOK
  <2> QED
    BY <2>4, <2>5
<1> QED
  BY <1>4, <1>5

\* A request that gets an id goes from the channel to the batch.
LEMMA TakingSteps ==
    ASSUME LevelsInv, NEW o \in Owners, assignTaskID(o), NEW p \in Owners
    PROVE  AppendShape(p)
<1>0. TypeOK /\ appendCh[o] # <<>>
  BY DEF LevelsInv, assignTaskID
<1> DEFINE h == Head(appendCh[o])
           n == [id |-> next[o], data |-> h.data, src |-> h.src]
<1>1. CASE p # o
  <2>1. wtasks'[p] = wtasks[p] /\ appendCh'[p] = appendCh[p]
    BY <1>0, <1>1 DEF assignTaskID, TypeOK
  <2> QED
    BY <2>1, AppendFrame
<1>2. CASE p = o
  <2>1. /\ wtasks'[p] = wtasks[p] \cup {n} /\ appendCh'[p] = Tail(appendCh[p])
        /\ appendCh[p] \in Seq(AppendRequest) /\ appendCh[p] # <<>>
    BY <1>0, <1>2 DEF assignTaskID, TypeOK
  <2>2. n.data = h.data /\ n.src = h.src
    OBVIOUS
  <2>3. /\ \A i \in DOMAIN appendCh'[p] :
                \E j \in DOMAIN appendCh[p] : appendCh'[p][i] = appendCh[p][j]
        /\ \E j \in DOMAIN appendCh[p] : h = appendCh[p][j]
    BY <1>2, <2>1, ReceivedRequest, SMT
  <2>4. h \in AppendRequest
    BY <1>2, <2>1, HeadTailSeq
  <2>5. h = [data |-> n.data, src |-> n.src]
    BY <2>2, <2>4 DEF AppendRequest
  <2> HIDE DEF n, h
  <2> SUFFICES ASSUME NEW r \in PendingAppends(p)' PROVE r \in PendingAppends(p)
    BY DEF AppendShape
  <2>6. CASE \E i \in DOMAIN appendCh'[p] : r = appendCh'[p][i]
    <3>1. \E i \in DOMAIN appendCh[p] : r = appendCh[p][i]
      BY <2>3, <2>6
    <3> QED
      BY <3>1, Pending
  <2>7. CASE \E y \in wtasks'[p] : r = [data |-> y.data, src |-> y.src]
    <3>1. r = h \/ \E y \in wtasks[p] : r = [data |-> y.data, src |-> y.src]
      BY <2>1, <2>5, <2>7
    <3>2. \/ \E i \in DOMAIN appendCh[p] : r = appendCh[p][i]
          \/ \E y \in wtasks[p] : r = [data |-> y.data, src |-> y.src]
      BY <2>3, <3>1
    <3> QED
      BY <3>2, Pending
  <2> QED
    BY <2>6, <2>7, Pending
<1> QED
  BY <1>1, <1>2

\* The writer answers its batch, or is gone.
LEMMA AnsweringSteps ==
    ASSUME LevelsInv, NEW o \in Owners,
           \/ LeaseRefused(o) \/ LeaseError(o)
           \/ TasksCreated(o) \/ TasksRefused(o) \/ TasksError(o)
           \/ tqCtxCancel(o) \/ Crash(o),
           NEW p \in Owners
    PROVE  AppendShape(p)
<1>0. TypeOK
  BY DEF LevelsInv
<1>1. CASE Forget(o)
  <2>1. /\ wtasks'[p] = wtasks[p] \/ wtasks'[p] = {}
        /\ appendCh'[p] = appendCh[p] \/ appendCh'[p] = <<>>
    BY <1>0, <1>1 DEF Forget, TypeOK
  <2>2. DOMAIN <<>> = {}
    BY SMT
  <2> QED
    BY <2>1, <2>2, AppendFrame
<1>2. CASE \/ TasksCreated(o) \/ TasksRefused(o) \/ TasksError(o)
           \/ UNCHANGED writerVars
  <2>1. /\ UNCHANGED appendCh
        /\ wtasks' = wtasks \/ wtasks' = [wtasks EXCEPT ![o] = {}]
    BY <1>2 DEF TasksCreated, TasksRefused, TasksError, FailBatch, writerVars
  <2>2. wtasks'[p] = wtasks[p] \/ wtasks'[p] = {}
    BY <1>0, <2>1 DEF TypeOK
  <2> QED
    BY <2>1, <2>2, AppendFrame
<1>3. CASE (\E mayRetry \in BOOLEAN : FailAlloc(o, mayRetry)) /\ op[o].kind = "lease"
                /\ Running(o)
  <2>1. /\ appendCh' = [appendCh EXCEPT ![o] = Tail(@)]
        /\ wtasks' = [wtasks EXCEPT ![o] = {}]
    BY <1>3 DEF FailAlloc, FailBatch
  <2>2. wtasks'[p] = wtasks[p] \/ wtasks'[p] = {}
    BY <1>0, <2>1 DEF TypeOK
  <2>3. appendCh[o] # <<>> /\ appendCh[o] \in Seq(AppendRequest)
    BY <1>0, <1>3, OpKinds DEF LevelsInv, OwnerOK, OpOK, TypeOK
  <2>4. CASE p # o
    <3>1. appendCh'[p] = appendCh[p]
      BY <1>0, <2>1, <2>4 DEF TypeOK
    <3> QED
      BY <2>2, <3>1, AppendFrame
  <2>5. CASE p = o
    <3>1. appendCh'[p] = Tail(appendCh[p])
      BY <1>0, <2>1, <2>5 DEF TypeOK
    <3>2. \A i \in DOMAIN appendCh'[p] :
                \E j \in DOMAIN appendCh[p] : appendCh'[p][i] = appendCh[p][j]
      BY <2>3, <2>5, <3>1, ReceivedRequest, SMT
    <3> QED
      BY <2>2, <3>2, AppendFrame
  <2> QED
    BY <2>4, <2>5
<1>4. CASE LeaseRefused(o) \/ LeaseError(o)
  <2>1. op[o].kind = "lease"
    BY <1>4 DEF LeaseRefused, LeaseError
  <2>2. status[o] # "loading" => Running(o)
    BY <2>1, OpKinds
  <2>3. \/ Forget(o) \/ UNCHANGED writerVars
        \/ status[o] # "loading" /\ \E mayRetry \in BOOLEAN : FailAlloc(o, mayRetry)
    BY <1>4 DEF LeaseRefused, LeaseError
  <2> QED
    BY <1>1, <1>2, <1>3, <2>1, <2>2, <2>3
<1>5. CASE tqCtxCancel(o) \/ Crash(o)
  BY <1>1, <1>5 DEF tqCtxCancel, Crash
<1> QED
  BY <1>2, <1>4, <1>5

\* Every step has the shape.
LEMMA AppendShapes ==
    ASSUME LevelsInv, [Next]_vars, NEW p \in Owners PROVE AppendShape(p)
<1>1. ASSUME NEW o \in Owners,
                \/ Load(o) \/ takeOverTaskQueue(o)
                \/ LeaseGranted(o) \/ allocTaskIDBlock(o) \/ appendTasks(o)
                \/ ReadBegin(o) \/ ReadSome(o) \/ ReadNone(o) \/ ReadError(o)
                \/ AddTask(o) \/ persistAck(o) \/ AckAnswered(o)
                \/ ProcessSpooledTask(o)
                \/ \E e \in outstanding[o] :
                     \/ RecordTaskStarted(o, e) \/ RecordTaskStartedError(o, e)
                     \/ completeTask(o, e)
                \/ Stop(o) \/ FinalAnswered(o)
      PROVE  AppendShape(p)
  BY <1>1, AppendQuietSteps
<1>2. ASSUME \/ \E w \in late : LateCommit(w)
             \/ \E t \in Tasks : Expire(t)
             \/ UNCHANGED vars
      PROVE  AppendShape(p)
  BY <1>2, AppendQuietSteps
<1>3. ASSUME NEW o \in Owners,
             \/ \E t \in Tasks : SpoolTask(o, t)
             \/ \E e \in outstanding[o] : RewriteTask(o, e)
      PROVE  AppendShape(p)
  BY <1>3, SendingSteps
<1>4. ASSUME NEW o \in Owners, assignTaskID(o) PROVE AppendShape(p)
  BY <1>4, TakingSteps
<1>5. ASSUME NEW o \in Owners,
             \/ LeaseRefused(o) \/ LeaseError(o)
             \/ TasksCreated(o) \/ TasksRefused(o) \/ TasksError(o)
             \/ tqCtxCancel(o) \/ Crash(o)
      PROVE  AppendShape(p)
  BY <1>5, AnsweringSteps
<1> QED
  BY <1>1, <1>2, <1>3, <1>4, <1>5 DEF Next

\* A reader that runs on keeps what it has loaded, or adds what lies above its
\* read level.
LEMMA ReadLevelUp ==
    ASSUME LevelsInv, FreshInv, [Next]_vars, NEW p \in Owners, Running(p), Running(p)'
    PROVE  /\ readLevel[p] <= readLevel'[p]
           /\ \A e \in outstanding'[p] :
                \/ readLevel[p] < e.id
                \/ \E f \in outstanding[p] : f.id = e.id /\ f.data = e.data
<1>0. TypeOK /\ OwnerOK(p) /\ readLevel[p] \in Nat
  BY RunningLevels DEF LevelsInv
<1>1. CASE SameReader(p)
  BY <1>0, <1>1, SMT DEF SameReader, SameTasks
<1>2. CASE ReadSome(p)
  BY <1>0, <1>2, SMT DEF ReadSome
<1>3. CASE ReadNone(p)
  <2>1. pump[p] = "reading" /\ UNCHANGED outstanding
    BY <1>3 DEF ReadNone
  <2>2. readLevel'[p] = ReadUpper(p, RangesPerRead)
    BY <1>0, <1>3 DEF ReadNone, TypeOK
  <2>3. RangesPerRead \in 1..RangesPerRead
    BY ConstantsAssumption, SMT
  <2>4. ReadUpper(p, RangesPerRead) \in Nat /\ readLevel[p] < ReadUpper(p, RangesPerRead)
    BY <2>1, <2>3, ReadRange
  <2> QED
    BY <1>0, <2>1, <2>2, <2>4, SMT
<1>4. CASE AddTask(p)
  <2>1. PICK s \in batch[p] :
            /\ \/ UNCHANGED outstanding
               \/ outstanding' = [outstanding EXCEPT ![p] = @ \cup
                        {[id |-> s.id, data |-> s.data, ph |-> "buffered"]}]
            /\ readLevel' = [readLevel EXCEPT ![p] = s.id]
    BY <1>4 DEF AddTask
  <2>2. readLevel'[p] = s.id /\ readLevel[p] < s.id
    BY <1>0, <2>1 DEF TypeOK, FreshInv, ReaderFresh
  <2>3. batch[p] \in SUBSET StoredTask
    BY <1>0 DEF TypeOK
  <2>4. s.id \in Nat
    BY <2>1, <2>3 DEF StoredTask
  <2>5. readLevel[p] <= readLevel'[p]
    BY <1>0, <2>2, <2>4, SMT
  <2> DEFINE n == [id |-> s.id, data |-> s.data, ph |-> "buffered"]
  <2>6. n.id = s.id
    OBVIOUS
  <2>7. outstanding'[p] \in {outstanding[p], outstanding[p] \cup {n}}
    BY <1>0, <2>1 DEF TypeOK
  <2> HIDE DEF n
  <2> QED
    BY <2>2, <2>5, <2>6, <2>7
<1>5. ASSUME NEW e \in outstanding[p], completeTask(p, e)
      PROVE  readLevel[p] <= readLevel'[p] /\ SameTasks(p)
  BY <1>0, <1>5, CompleteFresh, SMT
<1>6. ~ClearedReader(p)
  BY DEF ClearedReader
<1> QED
  BY <1>1, <1>2, <1>3, <1>4, <1>5, <1>6, ReaderShapes
     DEF ReaderShape, SameTasks

\* Hence requests to rewrite carry the tasks they are for.
LEMMA RewritesStep ==
    ASSUME LevelsInv, LevelsInv', FreshInv, OwedInv, [Next]_vars, NEW p \in Owners
    PROVE  RewritesOK(p)'
<1> SUFFICES ASSUME NEW r \in PendingAppends(p)', r.src # 0
             PROVE  /\ r.src <= readLevel'[p]
                    /\ \A e \in outstanding'[p] : e.id = r.src => e.data = r.data
  BY DEF RewritesOK
<1>0. /\ TypeOK /\ UnloadedOK(p) /\ UnloadedOK(p)' /\ OwnerOK(p) /\ ReaderOK(p)
      /\ ReaderFresh(p) /\ RewritesOK(p)
  BY DEF LevelsInv, OwnerOK, FreshInv, OwedInv
<1>1. DOMAIN <<>> = {}
  BY SMT
<1>2. Running(p)'
  BY <1>0, <1>1, Pending DEF UnloadedOK
<1>3. \/ r \in PendingAppends(p)
      \/ \E e \in outstanding[p] : r.src = e.id /\ r.data = e.data
  BY AppendShapes DEF AppendShape
<1>4. Running(p)
  BY <1>0, <1>1, <1>3, Pending DEF UnloadedOK
<1>5. /\ r.src <= readLevel[p]
      /\ \A e \in outstanding[p] : e.id = r.src => e.data = r.data
  BY <1>0, <1>3 DEF RewritesOK, ReaderOK, ReaderFresh
<1>6. /\ readLevel[p] <= readLevel'[p]
      /\ \A e \in outstanding'[p] :
            \/ readLevel[p] < e.id
            \/ \E f \in outstanding[p] : f.id = e.id /\ f.data = e.data
  BY <1>2, <1>4, ReadLevelUp
<1>7. readLevel[p] \in Nat /\ readLevel'[p] \in Int /\ r.src \in Nat
  <2>1. readLevel[p] \in Nat
    BY <1>0, <1>4, RunningLevels
  <2>2. readLevel'[p] \in Nat \cup {-1}
    BY DEF LevelsInv, TypeOK
  <2>3. r.src \in Nat
    <3>1. outstanding[p] \in SUBSET LoadedTask /\ wtasks[p] \in SUBSET AssignedRequest
      BY <1>0 DEF TypeOK
    <3>2. CASE \E e \in outstanding[p] : r.src = e.id
      BY <3>1, <3>2 DEF LoadedTask
    <3>3. CASE \E i \in DOMAIN appendCh[p] : r = appendCh[p][i]
      <4>1. appendCh[p] \in Seq(AppendRequest)
        BY <1>0 DEF TypeOK
      <4>2. r \in AppendRequest
        BY <3>3, <4>1, SMT
      <4> QED
        BY <4>2 DEF AppendRequest
    <3>4. CASE \E x \in wtasks[p] : r = [data |-> x.data, src |-> x.src]
      <4>1. PICK x \in wtasks[p] : r = [data |-> x.data, src |-> x.src]
        BY <3>4
      <4>2. x.src \in Nat
        BY <3>1, <4>1 DEF AssignedRequest
      <4> QED
        BY <4>1, <4>2
    <3>5. CASE r \in PendingAppends(p)
      <4>1. \/ \E i \in DOMAIN appendCh[p] : r = appendCh[p][i]
            \/ \E x \in wtasks[p] : r = [data |-> x.data, src |-> x.src]
        BY <3>5 DEF PendingAppends
      <4> QED
        BY <3>3, <3>4, <4>1
    <3> QED
      BY <1>3, <3>2, <3>5
  <2> QED
    BY <2>1, <2>2, <2>3, SMT
<1>8. r.src <= readLevel'[p]
  BY <1>5, <1>6, <1>7, SMT
<1>9. ASSUME NEW e \in outstanding'[p], e.id = r.src PROVE e.data = r.data
  <2>1. ~(readLevel[p] < e.id)
    BY <1>5, <1>7, <1>9, SMT
  <2> QED
    BY <1>5, <1>6, <1>9, <2>1
<1> QED
  BY <1>8, <1>9

-----------------------------------------------------------------------------
(* Owed tasks *)

\* The batch being stored holds a rewrite of row s.
RewrittenAs(s, p) == TasksCreated(p) /\ \E r \in wtasks[p] : r.data = s.data

\* A row that is loaded stays loaded, is forgotten with everything else, or is
\* stored once more.
LEMMA LoadedStep ==
    ASSUME LevelsInv, OwedInv, [Next]_vars, NEW p \in Owners, NEW s,
           s.data \in Owed', Loaded(s, p)
    PROVE  Loaded(s, p)' \/ ClearedReader(p) \/ RewrittenAs(s, p)
<1>1. PICK e \in outstanding[p] : e.id = s.id /\ e.data = s.data /\ e.ph \in InHand
  BY DEF Loaded
<1>2. \/ ClearedReader(p)
      \/ \E f \in outstanding'[p] : f.id = e.id /\ f.data = e.data /\ f.ph \in InHand
      \/ Rewritten(p, e.id)
  BY <1>1, HandShapes DEF KeepsHand
<1>3. ASSUME Rewritten(p, e.id) PROVE RewrittenAs(s, p)
  <2>1. PICK r \in wtasks[p] : r.src = e.id /\ r.src # 0
    BY <1>3 DEF Rewritten
  <2> DEFINE q == [data |-> r.data, src |-> r.src]
  <2>2. q \in PendingAppends(p)
    BY Pending
  <2>3. q.src = e.id /\ q.src # 0 /\ q.data = r.data
    BY <2>1
  <2> HIDE DEF q
  <2>4. RewritesOK(p)
    BY DEF OwedInv
  <2>5. e.data = r.data
    BY <2>2, <2>3, <2>4 DEF RewritesOK
  <2> QED
    BY <1>1, <1>3, <2>5 DEF Rewritten, RewrittenAs
<1> QED
  BY <1>1, <1>2, <1>3 DEF Loaded

\* taskGC deletes up to an ack level that its owner has.
LEMMA StoredStep ==
    ASSUME LevelsInv, LevelsInv', FreshInv, [Next]_vars, NEW s \in stored,
           \A p \in Owners : ackLevel[p] < s.id /\ ackLevel'[p] < s.id
    PROVE  s \in stored'
<1>0. TypeOK /\ TypeOK'
  BY DEF LevelsInv
<1>1. stored \in SUBSET StoredTask
  BY <1>0 DEF TypeOK
<1>2. s.id \in Nat
  BY <1>1 DEF StoredTask
<1>3. ASSUME NEW level \in Int, level < s.id, CompleteTasksLessThan(level)
      PROVE  s \in stored'
  <2>1. PICK cut \in 0..level : stored' = {x \in stored : x.id > cut}
    BY <1>3 DEF CompleteTasksLessThan
  <2>2. s.id > cut
    BY <1>2, <1>3, SMT
  <2> QED
    BY <2>1, <2>2
<1>4. ASSUME IdsQuiet PROVE s \in stored'
  BY <1>4 DEF IdsQuiet
<1>5. ASSUME NEW o \in Owners, NEW e \in outstanding[o], completeTask(o, e)
      PROVE  s \in stored'
  <2>1. PICK level \in {ackLevel[o]} \cup
                {x.id : x \in AckedPrefix((outstanding[o] \ {e}) \cup {[e EXCEPT !.ph = "acked"]})} :
            ackLevel' = [ackLevel EXCEPT ![o] = level] /\ CompleteTasksLessThan(level)
    BY <1>5 DEF completeTask
  <2>2. ackLevel'[o] = level /\ ackLevel'[o] < s.id /\ ackLevel'[o] \in Nat \cup {-1}
    BY <1>0, <2>1 DEF TypeOK
  <2>3. level \in Int
    BY <2>2, SMT
  <2> QED
    BY <1>3, <2>1, <2>2, <2>3
<1>6. ASSUME NEW o \in Owners, FinalAnswered(o) PROVE s \in stored'
  <2>1. CompleteTasksLessThan(op[o].ack) /\ op[o].kind = "final"
    BY <1>6 DEF FinalAnswered
  <2>2. op[o] # NoOp /\ Running(o) /\ op[o].ack \in Nat
    BY <2>1, OpKinds
  <2>3. op[o].ack <= ackLevel[o] /\ ackLevel[o] < s.id /\ ackLevel[o] \in Nat \cup {-1}
    BY <1>0, <2>2 DEF FreshInv, AckFresh, TypeOK
  <2>4. op[o].ack \in Int /\ op[o].ack < s.id
    BY <1>2, <2>2, <2>3, SMT
  <2> QED
    BY <1>3, <2>1, <2>4
<1>7. ASSUME NEW o \in Owners,
             LeaseGranted(o) \/ TasksCreated(o) \/ AckAnswered(o)
      PROVE  s \in stored'
  <2>1. Commit(op[o]) \/ stored' = stored
    BY <1>7 DEF LeaseGranted, TasksCreated, AckAnswered, storeVars
  <2> QED
    BY <2>1 DEF Commit
<1>8. ASSUME NEW o \in Owners,
             \/ LeaseRefused(o) \/ LeaseError(o) \/ TasksRefused(o)
             \/ TasksError(o) \/ tqCtxCancel(o) \/ Crash(o) \/ assignTaskID(o)
      PROVE  s \in stored'
  BY <1>8 DEF LeaseRefused, LeaseError, TasksRefused, TasksError,
     tqCtxCancel, Crash, assignTaskID, storeVars
<1>9. ASSUME NEW w \in late, LateCommit(w) PROVE s \in stored'
  BY <1>9 DEF LateCommit
<1>10. ASSUME NEW o \in Owners,
             \/ Load(o) \/ takeOverTaskQueue(o)
             \/ \E t \in Tasks : SpoolTask(o, t)
             \/ allocTaskIDBlock(o) \/ appendTasks(o)
             \/ ReadBegin(o) \/ ReadSome(o) \/ ReadNone(o) \/ ReadError(o)
             \/ AddTask(o) \/ persistAck(o) \/ ProcessSpooledTask(o)
             \/ \E e \in outstanding[o] :
                  \/ RecordTaskStarted(o, e) \/ RecordTaskStartedError(o, e)
                  \/ RewriteTask(o, e)
             \/ Stop(o)
      PROVE  s \in stored'
  BY <1>4, <1>10, IdsQuietSteps
<1>11. ASSUME (\E t \in Tasks : Expire(t)) \/ UNCHANGED vars PROVE s \in stored'
  BY <1>4, <1>11, IdsQuietSteps
<1> QED
  BY <1>5, <1>6, <1>7, <1>8, <1>9, <1>10, <1>11 DEF Next

\* A row that the holder of the lease stores is ahead of everyone.
LEMMA NewRowKept ==
    ASSUME LevelsInv, FreshInv, OwedInv, [Next]_vars,
           NEW o \in Owners, TasksCreated(o), NEW r \in wtasks[o]
    PROVE  \E s \in stored' : s.data = r.data /\ Kept(s)'
<1> DEFINE s == [id |-> r.id, data |-> r.data]
<1>0. s.id = r.id /\ s.data = r.data
  OBVIOUS
<1>1. /\ op[o].tasks = BatchTasks(o) /\ Holder(o) /\ stored' = stored \cup op[o].tasks
      /\ UNCHANGED <<ackLevel, readLevel, batch>>
  BY TasksOp DEF TasksCreated, Commit
<1>2. s \in BatchTasks(o)
  BY DEF BatchTasks
<1>3. s \in stored'
  BY <1>1, <1>2
<1> HIDE DEF s
<1>4. Running(o) /\ \A q \in Owners : Holder(q) => q = o
  BY <1>1, HolderRuns
<1>5. TypeOK /\ WriterOK(o) /\ HolderAhead(o)
  BY DEF LevelsInv, OwnerOK, OwedInv
<1>6. wtasks[o] \in SUBSET AssignedRequest
  BY <1>5 DEF TypeOK
<1>7. r.id \in Nat
  BY <1>6 DEF AssignedRequest
<1>8. maxReadLevel[o] < r.id /\ Unpassed(o, r.id)
  BY <1>1, <1>5 DEF WriterOK, HolderAhead
<1>9. ASSUME NEW p \in Owners
      PROVE  /\ ackLevel[p] < r.id /\ readLevel[p] < r.id
             /\ \A b \in batch[p] : b.id < r.id
  <2>1. CASE p = o
    BY <1>4, <1>7, <1>8, <2>1, OwnLevels
  <2>2. CASE p # o
    BY <1>7, <1>8, <2>2, OtherLevels DEF Unpassed
  <2> QED
    BY <2>1, <2>2
<1>10. row'.ackLevel < r.id /\ \A w \in Committable' : w.ack < r.id
  BY <1>7, <1>8, <1>9, CommitShapes, AcksBelow DEF Unpassed
<1>11. \A p \in Owners : ackLevel'[p] < s.id /\ Held(s, p)'
  BY <1>0, <1>1, <1>9 DEF Held
<1>12. Kept(s)'
  BY <1>0, <1>3, <1>10, <1>11 DEF Kept
<1> QED
  BY <1>0, <1>3, <1>12

\* A step adds to what is owed only what the holder of the lease stores.
OwedShape ==
    /\ done \subseteq done' /\ expired \subseteq expired'
    /\ \A t \in accepted' : t \in accepted \/
            \E o \in Owners : TasksCreated(o) /\ \E r \in wtasks[o] : r.data = t

\* Every step has that shape.
LEMMA OwedShapes == ASSUME [Next]_vars PROVE OwedShape
<1> USE DEF OwedShape, envVars
<1>1. ASSUME NEW o \in Owners, TasksCreated(o) PROVE OwedShape
  <2>1. /\ accepted' = accepted \cup {r.data : r \in {x \in wtasks[o] : x.src = 0}}
        /\ UNCHANGED <<done, expired>>
    BY <1>1 DEF TasksCreated
  <2>2. \A t \in accepted' : t \in accepted \/ \E r \in wtasks[o] : r.data = t
    BY <2>1
  <2> QED
    BY <1>1, <2>1, <2>2
<1>2. ASSUME NEW o \in Owners, NEW e, RecordTaskStarted(o, e) PROVE OwedShape
  BY <1>2 DEF RecordTaskStarted
<1>3. ASSUME NEW t \in Tasks, Expire(t) PROVE OwedShape
  BY <1>3 DEF Expire
<1>4. ASSUME UNCHANGED <<accepted, done, expired>> PROVE OwedShape
  BY <1>4
<1>5. ASSUME NEW o \in Owners,
             \/ Load(o) \/ takeOverTaskQueue(o) \/ LeaseGranted(o)
             \/ LeaseRefused(o) \/ LeaseError(o)
             \/ \E t \in Tasks : SpoolTask(o, t)
             \/ assignTaskID(o) \/ allocTaskIDBlock(o) \/ appendTasks(o)
             \/ TasksRefused(o) \/ TasksError(o)
      PROVE  OwedShape
  BY <1>4, <1>5 DEF Load, takeOverTaskQueue, LeaseGranted, LeaseRefused,
     LeaseError, SpoolTask, assignTaskID, allocTaskIDBlock, appendTasks,
     TasksRefused, TasksError
<1>6. ASSUME NEW o \in Owners,
             \/ ReadBegin(o) \/ ReadSome(o) \/ ReadNone(o) \/ ReadError(o)
             \/ AddTask(o) \/ persistAck(o) \/ AckAnswered(o)
             \/ ProcessSpooledTask(o)
      PROVE  OwedShape
  BY <1>4, <1>6 DEF ReadBegin, ReadSome, ReadNone, ReadError, AddTask,
     persistAck, AckAnswered, ProcessSpooledTask
<1>7. ASSUME NEW o \in Owners, NEW e \in outstanding[o],
             RecordTaskStartedError(o, e) \/ RewriteTask(o, e) \/ completeTask(o, e)
      PROVE  OwedShape
  BY <1>4, <1>7 DEF RecordTaskStartedError, RewriteTask, completeTask
<1>8. ASSUME NEW o \in Owners,
             Stop(o) \/ FinalAnswered(o) \/ tqCtxCancel(o) \/ Crash(o)
      PROVE  OwedShape
  BY <1>4, <1>8 DEF Stop, FinalAnswered, tqCtxCancel, Crash
<1>9. ASSUME NEW w \in late, LateCommit(w) PROVE OwedShape
  BY <1>4, <1>9 DEF LateCommit
<1>10. ASSUME UNCHANGED vars PROVE OwedShape
  BY <1>4, <1>10 DEF vars
<1> QED
  BY <1>1, <1>2, <1>3, <1>5, <1>6, <1>7, <1>8, <1>9, <1>10 DEF Next

\* Nothing is owed at first.
LEMMA OwedInit == Init => OwedInv
<1> SUFFICES ASSUME Init PROVE OwedInv
  OBVIOUS
<1>1. accepted = {} /\ \A o \in Owners : rangeID[o] = 0 /\ appendCh[o] = <<>> /\ wtasks[o] = {}
  BY DEF Init
<1>2. \A o \in Owners : ~Holder(o)
  BY <1>1 DEF Holder
<1>3. \A o \in Owners : PendingAppends(o) = {}
  BY <1>1, SMT DEF PendingAppends
<1> QED
  BY <1>1, <1>2, <1>3 DEF OwedInv, RewritesOK, HolderAhead, Owed

\* A row that is kept is one that NoTaskLost and NoTaskSkipped ask for.
LEMMA KeptTasks == ASSUME LevelsInv, OwedInv PROVE NoTaskLost /\ NoTaskSkipped
<1>1. ASSUME NEW s \in stored PROVE s.id \in Nat
  <2>1. stored \in SUBSET StoredTask
    BY DEF LevelsInv, TypeOK
  <2> QED
    BY <2>1 DEF StoredTask
<1>2. /\ row.ackLevel \in Int
      /\ \A o \in Owners : ackLevel[o] \in Int /\ readLevel[o] \in Int
  <2>1. TypeOK
    BY DEF LevelsInv
  <2>2. /\ row.ackLevel \in Nat
        /\ \A o \in Owners : ackLevel[o] \in Nat \cup {-1} /\ readLevel[o] \in Nat \cup {-1}
    BY <2>1 DEF TypeOK
  <2> QED
    BY <2>2, SMT
<1>3. ASSUME NEW t \in Owed
      PROVE  \E s \in stored :
                /\ s.data = t /\ s.id > row.ackLevel
                /\ \A o \in Owners : s.id > ackLevel[o]
  <2>1. PICK s \in stored : s.data = t /\ Kept(s)
    BY <1>3 DEF OwedInv
  <2>2. row.ackLevel < s.id /\ \A o \in Owners : ackLevel[o] < s.id
    BY <2>1 DEF Kept
  <2>3. s.id > row.ackLevel /\ \A o \in Owners : s.id > ackLevel[o]
    BY <1>1, <1>2, <2>2
  <2> QED
    BY <2>1, <2>3
<1>4. ASSUME NEW t \in Owed, NEW o \in Owners
      PROVE  \E s \in stored :
                /\ s.data = t
                /\ \/ s.id > readLevel[o]
                   \/ \E e \in outstanding[o] : e.id = s.id /\ e.ph \in InHand
  <2>1. PICK s \in stored : s.data = t /\ Kept(s)
    BY <1>4 DEF OwedInv
  <2>2. \/ readLevel[o] < s.id
        \/ \E e \in outstanding[o] : e.id = s.id /\ e.ph \in InHand
    BY <2>1 DEF Kept, Held
  <2>3. readLevel[o] < s.id => s.id > readLevel[o]
    BY <1>1, <1>2
  <2> QED
    BY <2>1, <2>2, <2>3
<1> QED
  BY <1>3, <1>4 DEF NoTaskLost, NoTaskSkipped

-----------------------------------------------------------------------------
(* Owed tasks are kept *)

\* The table is finite, since every row has its own id.
LEMMA StoredFinite == ASSUME LevelsInv, FreshInv PROVE IsFiniteSet(stored)
<1> DEFINE top == BlockEnd(row.rangeID)
           f == [s \in stored |-> s.id]
<1>1. TypeOK /\ RowOK /\ UniqueIds(stored)
  BY DEF LevelsInv, FreshInv, RowsFresh
<1>2. stored \in SUBSET StoredTask
  BY <1>1 DEF TypeOK
<1>3. \A s \in stored : s.id \in Nat /\ s.id <= top
  BY <1>1, <1>2 DEF RowOK, StoredTask
<1>4. row.rangeID \in Nat
  BY <1>1 DEF TypeOK
<1>5. top \in Nat
  BY <1>4, ConstantsAssumption, SMT DEF BlockEnd
<1> HIDE DEF top
<1>6. \A s \in stored : s.id \in 0..top
  BY <1>3, <1>5, SMT
<1>7. f \in [stored -> 0..top]
  BY <1>6
<1>8. f \in Injection(stored, 0..top)
  BY <1>1, <1>7 DEF Injection, IsInjective, UniqueIds
<1>9. IsFiniteSet(0..top)
  BY <1>5, FS_Interval, SMT
<1> QED
  BY <1>8, <1>9, FS_Injection

\* A row that a page leaves out is above the whole page.
LEMMA PageIsLow ==
    ASSUME NEW S \in SUBSET StoredTask, IsFiniteSet(S), NEW s \in S,
           s \notin FirstPage(S), NEW b \in FirstPage(S)
    PROVE  b.id < s.id
<1> DEFINE Below(x) == {y \in S : y.id < x.id}
<1>1. b \in S /\ s.id \in Nat /\ b.id \in Nat /\ \A y \in S : y.id \in Nat
  BY DEF FirstPage, StoredTask
<1>2. /\ Cardinality(Below(b)) < GetTasksBatchSize
      /\ ~(Cardinality(Below(s)) < GetTasksBatchSize)
  BY DEF FirstPage
<1>3. SUFFICES ASSUME s.id <= b.id PROVE FALSE
  BY <1>1, SMT
<1>4. Below(s) \in SUBSET Below(b)
  BY <1>1, <1>3, SMT
<1>5. IsFiniteSet(Below(s)) /\ IsFiniteSet(Below(b))
  <2>1. Below(s) \in SUBSET S /\ Below(b) \in SUBSET S
    OBVIOUS
  <2> QED
    BY <2>1, FS_Subset
<1>6. /\ Cardinality(Below(s)) <= Cardinality(Below(b))
      /\ Cardinality(Below(s)) \in Nat /\ Cardinality(Below(b)) \in Nat
  BY <1>4, <1>5, FS_Subset, FS_CardinalityType
<1> HIDE DEF Below
<1> QED
  BY <1>2, <1>6, ConstantsAssumption, SMT

\* getTaskBatch returns the row, or only rows below it.
LEMMA ReadSomeHeld ==
    ASSUME LevelsInv, FreshInv, NEW p \in Owners, ReadSome(p), NEW s \in stored,
           Ahead(s, p)
    PROVE  Ahead(s, p)'
<1>0. TypeOK /\ pump[p] = "reading" /\ readLevel' = readLevel
  BY DEF LevelsInv, ReadSome
<1>1. PICK k \in 1..RangesPerRead :
        batch' = [batch EXCEPT ![p] = FirstPage(InRanges(p, k))]
  BY DEF ReadSome
<1>2. batch'[p] = FirstPage(InRanges(p, k))
  BY <1>0, <1>1 DEF TypeOK
<1>3. /\ ReadUpper(p, k) \in Nat /\ InRanges(p, k) \in SUBSET StoredTask
      /\ \A x \in InRanges(p, k) : x.id \in Nat /\ x.id <= ReadUpper(p, k)
  BY <1>0, ReadRange
<1>4. IsFiniteSet(InRanges(p, k))
  <2>1. InRanges(p, k) \in SUBSET stored
    BY DEF InRanges
  <2> QED
    BY <2>1, StoredFinite, FS_Subset
<1>5. stored \in SUBSET StoredTask
  BY <1>0 DEF TypeOK
<1>6. s.id \in Nat
  BY <1>5 DEF StoredTask
<1>7. readLevel'[p] < s.id
  BY <1>0 DEF Ahead
<1>8. FirstPage(InRanges(p, k)) \subseteq InRanges(p, k)
  BY DEF FirstPage
<1>9. CASE s.id <= ReadUpper(p, k)
  <2>1. s \in InRanges(p, k)
    BY <1>9 DEF InRanges, Ahead
  <2>2. s \in batch'[p] \/ \A b \in batch'[p] : b.id < s.id
    BY <1>2, <1>3, <1>4, <2>1, PageIsLow
  <2> QED
    BY <1>7, <2>2 DEF Ahead
<1>10. CASE ~(s.id <= ReadUpper(p, k))
  <2>1. \A b \in InRanges(p, k) : b.id < s.id
    BY <1>3, <1>6, <1>10, SMT
  <2> QED
    BY <1>2, <1>7, <1>8, <2>1 DEF Ahead
<1> QED
  BY <1>9, <1>10

\* An owner keeps hold of the row, or stores its task once more.
LEMMA HeldStep ==
    ASSUME LevelsInv, LevelsInv', FreshInv, FreshInv', OwedInv, [Next]_vars,
           NEW p \in Owners, NEW s \in stored, s.data \in Owed',
           row'.ackLevel < s.id, ackLevel[p] < s.id, Held(s, p)
    PROVE  RewrittenAs(s, p) \/ (ackLevel'[p] < s.id /\ Held(s, p)')
<1>0. (Held(s, p) <=> Loaded(s, p) \/ Ahead(s, p)) /\ (Ahead(s, p)' \/ Loaded(s, p)' => Held(s, p)')
  BY DEF Held, Loaded, Ahead
<1>1. stored \in SUBSET StoredTask
  BY DEF LevelsInv, TypeOK
<1>2. s.id \in Nat
  BY <1>1 DEF StoredTask
<1>3. CASE ClearedReader(p)
  BY <1>0, <1>2, <1>3, ClearedHeld
<1>4. CASE Loaded(s, p)
  <2>1. Loaded(s, p)' \/ ClearedReader(p) \/ RewrittenAs(s, p)
    BY <1>4, LoadedStep
  <2>2. Loaded(s, p)' => ackLevel'[p] < s.id
    <3>1. ReaderFresh(p)'
      BY DEF FreshInv
    <3> QED
      BY <3>1 DEF ReaderFresh, Loaded
  <2> QED
    BY <1>0, <1>3, <2>1, <2>2
<1>5. CASE Ahead(s, p)
  <2>1. ReaderShape(p)
    BY ReaderShapes
  <2>2. CASE SameReader(p)
    BY <1>0, <1>5, <2>2 DEF SameReader, Ahead
  <2>3. CASE ReadSome(p)
    <3>1. ackLevel' = ackLevel
      BY <2>3 DEF ReadSome
    <3> QED
      BY <1>0, <1>5, <2>3, <3>1, ReadSomeHeld
  <2>4. CASE ReadNone(p)
    BY <1>0, <1>5, <2>4, ReadNoneHeld
  <2>5. CASE AddTask(p)
    <3>1. ackLevel' = ackLevel
      BY <2>5 DEF AddTask
    <3> QED
      BY <1>0, <1>5, <2>5, <3>1, AddTaskHeld
  <2>6. ASSUME NEW e \in outstanding[p], completeTask(p, e)
        PROVE  ackLevel'[p] < s.id /\ Held(s, p)'
    BY <1>0, <1>2, <1>5, <2>6, CompletedHeld
  <2> QED
    BY <1>3, <2>1, <2>2, <2>3, <2>4, <2>5, <2>6 DEF ReaderShape
<1> QED
  BY <1>0, <1>4, <1>5

\* The row of an owed task is kept, or its task is stored once more.
LEMMA KeptStep ==
    ASSUME LevelsInv, LevelsInv', FreshInv, FreshInv', OwedInv, [Next]_vars,
           NEW s, Kept(s), s.data \in Owed'
    PROVE  Kept(s)' \/ \E o \in Owners : RewrittenAs(s, o)
<1>1. /\ s \in stored /\ row.ackLevel < s.id /\ \A w \in Committable : w.ack < s.id
      /\ \A p \in Owners : ackLevel[p] < s.id /\ Held(s, p)
  BY DEF Kept
<1>2. stored \in SUBSET StoredTask
  BY DEF LevelsInv, TypeOK
<1>3. s.id \in Nat
  BY <1>1, <1>2 DEF StoredTask
<1>4. row'.ackLevel < s.id /\ \A w \in Committable' : w.ack < s.id
  BY <1>1, <1>3, CommitShapes, AcksBelow
<1>5. \A p \in Owners : RewrittenAs(s, p) \/ (ackLevel'[p] < s.id /\ Held(s, p)')
  BY <1>1, <1>4, HeldStep
<1>6. (\A p \in Owners : ackLevel'[p] < s.id) => s \in stored'
  BY <1>1, StoredStep
<1> QED
  BY <1>4, <1>5, <1>6 DEF Kept

\* Every step keeps the third invariant.
LEMMA OwedStep ==
    LevelsInv /\ LevelsInv' /\ FreshInv /\ FreshInv' /\ OwedInv /\ [Next]_vars => OwedInv'
<1> SUFFICES ASSUME LevelsInv, LevelsInv', FreshInv, FreshInv', OwedInv, [Next]_vars
             PROVE  OwedInv'
  OBVIOUS
<1>1. \A o \in Owners : RewritesOK(o)' /\ HolderAhead(o)'
  BY RewritesStep, AheadStep
<1>2. ASSUME NEW t \in Owed' PROVE \E s \in stored' : s.data = t /\ Kept(s)'
  <2>1. CASE t \in Owed
    <3>1. PICK s \in stored : s.data = t /\ Kept(s)
      BY <2>1 DEF OwedInv
    <3>2. Kept(s)' \/ \E o \in Owners : RewrittenAs(s, o)
      BY <1>2, <3>1, KeptStep
    <3>3. Kept(s)' => s \in stored'
      BY DEF Kept
    <3> QED
      BY <3>1, <3>2, <3>3, NewRowKept DEF RewrittenAs
  <2>2. CASE t \notin Owed
    <3>1. t \in accepted' /\ t \notin done /\ t \notin expired
      BY <1>2, OwedTask, OwedShapes DEF OwedShape
    <3>2. PICK o \in Owners : TasksCreated(o) /\ \E r \in wtasks[o] : r.data = t
      BY <2>2, <3>1, OwedShapes DEF OwedShape, Owed
    <3> QED
      BY <3>2, NewRowKept
  <2> QED
    BY <2>1, <2>2
<1> QED
  BY <1>1, <1>2 DEF OwedInv

-----------------------------------------------------------------------------
(* The theorems *)

\* The levels and leases are in order in every reachable state.
THEOREM LevelsCorrect == Spec => []LevelsInv
BY LevelsInit, LevelsStep, PTL DEF Spec

\* Every variable of TaskQueueBacklog keeps its type.
THEOREM TypeCorrect == Spec => []TypeOK
<1>1. LevelsInv => TypeOK
  BY DEF LevelsInv
<1> QED
  BY <1>1, LevelsCorrect, PTL

\* No two hosts ever hold the same lease, whatever crashes, moves and late
\* writes happen: the row's conditional update fences them.
THEOREM LeaseCorrect == Spec => []OneOwnerPerLease
<1>1. LevelsInv => OneOwnerPerLease
  BY DEF LevelsInv
<1> QED
  BY <1>1, LevelsCorrect, PTL

\* Ids are used once and the reader goes up, in every reachable state.
THEOREM FreshCorrect == Spec => []FreshInv
BY LevelsCorrect, FreshInit, FreshStep, PTL DEF Spec

\* No two tasks are ever written under one id, however many hosts assign ids
\* from the blocks of the leases they had, and whichever writes commit late.
THEOREM TaskIDsCorrect == Spec => []TaskIDsFresh
<1>1. LevelsInv /\ FreshInv => TaskIDsFresh
  BY IdsFresh
<1> QED
  BY <1>1, LevelsCorrect, FreshCorrect, PTL

\* The Fatal calls of ackManager.addTask are unreachable.
THEOREM AddTaskCorrect == Spec => []AddTaskNeverFatal
<1>1. LevelsInv /\ FreshInv => AddTaskNeverFatal
  BY AddAbove
<1> QED
  BY <1>1, LevelsCorrect, FreshCorrect, PTL

\* The ack level, the read level, the max read level and the next id of a
\* loaded queue are in order, and no task that is not acked is below the first.
THEOREM LevelsOrderedCorrect == Spec => []LevelsOrdered
<1>1. LevelsInv /\ FreshInv => LevelsOrdered
  BY InOrder
<1> QED
  BY <1>1, LevelsCorrect, FreshCorrect, PTL

\* The ack level of a loaded queue never moves back, whatever completeTask,
\* addTask and setReadLevelAfterGap do to it.
THEOREM AckLevelCorrect == Spec => AckLevelNeverMovesBack
<1>1. ASSUME LevelsInv, LevelsInv', FreshInv, [Next]_vars
      PROVE  [\A o \in Owners : status[o] # "off" /\ status'[o] # "off"
                => ackLevel'[o] >= ackLevel[o]]_vars
  BY <1>1, AckMovesUp
<1> QED
  BY <1>1, LevelsCorrect, FreshCorrect, PTL DEF Spec, AckLevelNeverMovesBack

\* Every owed task has a row that nobody has passed, in every reachable state.
THEOREM OwedCorrect == Spec => []OwedInv
BY LevelsCorrect, FreshCorrect, OwedInit, OwedStep, PTL DEF Spec

\* Once SpoolTask has answered nil, a row of the task is left that no ack level,
\* neither the one in the store nor that of any owner, has passed, until history
\* answers for good or the task expires: through every move of the queue, every
\* crash, every rewrite and every write that is answered with an error and
\* commits all the same.
THEOREM NoTaskLostCorrect == Spec => []NoTaskLost
<1>1. LevelsInv /\ OwedInv => NoTaskLost
  BY KeptTasks
<1> QED
  BY <1>1, LevelsCorrect, OwedCorrect, PTL

\* The owner of the lease never reads past an owed task without having it in
\* hand: getTaskBatch, setReadLevelAfterGap and addTask skip no row of it.
THEOREM NoTaskSkippedCorrect == Spec => []NoTaskSkipped
<1>1. LevelsInv /\ OwedInv => NoTaskSkipped
  BY KeptTasks
<1> QED
  BY <1>1, LevelsCorrect, OwedCorrect, PTL
=============================================================================
