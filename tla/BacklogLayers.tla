--------------------------- MODULE BacklogLayers ----------------------------
(***************************************************************************)
(* LevelsInv (types, leases, and the levels and ids of each owner) holds   *)
(* initially and is preserved by every step: the writer, the reader, the   *)
(* hand-over of tasks to pollers, the issue of every write to the store,   *)
(* the store's answers, and a host giving the queue up. This is for any    *)
(* number of hosts, tasks and faults, and any block and batch sizes.       *)
(*                                                                         *)
(* Then every step keeps the parts of FreshInv, given that LevelsInv holds *)
(* before and after it. First the reader of an owner and the ack levels it *)
(* knows: the rows of owed tasks that are loaded or still to be read are   *)
(* kept hold of. Then the rows in the store, the ids of the writers and    *)
(* the writes that can still commit. Last, where the ack levels of those   *)
(* writes come from.                                                       *)
(***************************************************************************)
EXTENDS BacklogInvariants, TLAPS

(* Zenon is the prover of a step that names no other. *)
USE Zenon

-----------------------------------------------------------------------------
(* The order of ids and levels *)

\* A level stays below what is not below a larger one, and below what a lower
\* level is at most: how ids and ack levels are compared at every step.
LEMMA LevelOrder ==
    /\ \A i, j, k \in Nat : i < j /\ ~(k < j) => i < k
    /\ \A i, j, k \in Nat : i <= j /\ j < k => i < k /\ i # k
    /\ \A i, j \in Nat, k \in Int : i <= j /\ j <= k => i <= k
    /\ \A i \in Int : i <= i /\ \A j \in Nat : i < j => i <= j
    /\ \A i \in Nat \cup {-1} : i \in Int
<1> QED BY SMT

-----------------------------------------------------------------------------
(* Blocks of task ids *)

\* What appending to and taking from an append channel (a sequence) gives.
LEMMA AppendSeq ==
    ASSUME NEW S, NEW q \in Seq(S), NEW x \in S
    PROVE  Append(q, x) \in Seq(S) /\ Append(q, x) # <<>>
<1>1. Append(q, x) \in Seq(S)
  BY SMT
<1>2. Len(Append(q, x)) = Len(q) + 1 /\ Len(q) \in Nat
  BY SMT
<1>3. Append(q, x) # <<>>
  BY <1>2, SMT
<1> QED
  BY <1>1, <1>3

\* An append channel that was just made is empty, and well typed.
LEMMA NilSeq == ASSUME NEW S PROVE <<>> \in Seq(S)
  BY SMT

\* What getWriteBatch takes off a channel is a request, and leaves a channel.
LEMMA HeadTailSeq ==
    ASSUME NEW S, NEW q \in Seq(S), q # <<>>
    PROVE  Head(q) \in S /\ Tail(q) \in Seq(S)
  BY SMT

\* Blocks are made of natural numbers, follow each other without a gap, and
\* a later block ends later (rangeIDToTaskIDBlock).
LEMMA Blocks ==
    /\ \A r \in Nat : BlockEnd(r) \in Nat
    /\ \A r \in Nat : BlockStart(r + 1) = BlockEnd(r) + 1
    /\ \A r \in Nat : TakeOverReadLevel(r + 1) = BlockEnd(r)
    /\ \A r \in Nat : BlockEnd(r) < BlockEnd(r + 1)
    /\ \A r, q \in Nat : r <= q => BlockEnd(r) <= BlockEnd(q)
    /\ \A r, q \in Nat : r < q => BlockEnd(r) < BlockEnd(q)
<1>1. RangeSize \in Nat /\ RangeSize >= 1
  BY ConstantsAssumption, SMT
<1>2. \A r \in Nat : r * RangeSize \in Nat
  BY <1>1, SMT
<1>3. \A r \in Nat : (r + 1) * RangeSize = r * RangeSize + RangeSize
  BY <1>1, SMT
<1>4. \A r, q \in Nat : r <= q => r * RangeSize <= q * RangeSize
  BY <1>1, SMT
<1>5. \A r, q \in Nat : r < q => r * RangeSize < q * RangeSize
  BY <1>1, SMT
<1>6. \A r \in Nat : ((r + 1) - 1) * RangeSize = r * RangeSize
  BY <1>1, SMT
<1> QED
  BY <1>1, <1>2, <1>3, <1>4, <1>5, <1>6, SMT
  DEF BlockEnd, BlockStart, TakeOverReadLevel

-----------------------------------------------------------------------------
(* LevelsInv holds initially, and what it takes to keep it *)

\* The initial state satisfies it.
LEMMA LevelsInit == Init => LevelsInv
<1> SUFFICES ASSUME Init PROVE LevelsInv
  OBVIOUS
<1> USE DEF Init
<1>1. TypeOK
  BY ConstantsAssumption, SMT DEF TypeOK
<1>2. RowOK /\ LateOK
  BY Blocks, SMT DEF RowOK, LateOK
<1>3. OneOwnerPerLease
  BY SMT DEF OneOwnerPerLease
<1>4. ASSUME NEW o \in Owners PROVE OwnerOK(o)
  BY DEF OwnerOK, OpOK, UnloadedOK, LoadedOK, WriterOK, ReaderOK, Running
<1> QED
  BY <1>1, <1>2, <1>3, <1>4 DEF LevelsInv

\* Nothing an owner knows changes.
Untouched(p) ==
    /\ status'[p] = status[p] /\ rangeID'[p] = rangeID[p]
    /\ dbAck'[p] = dbAck[p] /\ maxReadLevel'[p] = maxReadLevel[p]
    /\ op'[p] = op[p]
    /\ next'[p] = next[p] /\ appendCh'[p] = appendCh[p]
    /\ wtasks'[p] = wtasks[p]
    /\ pump'[p] = pump[p] /\ readTo'[p] = readTo[p] /\ batch'[p] = batch[p]
    /\ ackLevel'[p] = ackLevel[p] /\ readLevel'[p] = readLevel[p]
    /\ outstanding'[p] = outstanding[p]

\* A step that does not touch an owner keeps its part of the invariant, since
\* the rangeID of the row only grows.
LEMMA UntouchedOwner ==
    ASSUME NEW p \in Owners, TypeOK, row' \in [rangeID : Nat, ackLevel : Nat],
           row.rangeID <= row'.rangeID, OwnerOK(p), Untouched(p)
    PROVE  OwnerOK(p)'
<1> USE DEF Untouched, OwnerOK
<1>1. OpOK(p)'
  <2>1. row.rangeID \in Nat /\ row'.rangeID \in Nat
    BY DEF TypeOK
  <2>2. op[p] # NoOp => op[p].prev \in Nat /\ op[p].prev <= row.rangeID
    BY DEF TypeOK, Write, OpOK, WriteOK
  <2>3. op[p] # NoOp => op[p].prev <= row'.rangeID
    BY <2>1, <2>2, SMT
  <2> QED
    BY <2>3 DEF OpOK, WriteOK, Running
<1>2. UnloadedOK(p)' /\ LoadedOK(p)'
  BY DEF UnloadedOK, LoadedOK, Running
<1>3. WriterOK(p)' /\ ReaderOK(p)'
  BY DEF WriterOK, ReaderOK
<1> QED
  BY <1>1, <1>2, <1>3

\* What is left to show for a step of owner o.
LEMMA OwnerStep ==
    ASSUME LevelsInv, NEW o \in Owners,
           TypeOK', RowOK', LateOK', OneOwnerPerLease',
           row.rangeID <= row'.rangeID,
           \A p \in Owners : p # o => Untouched(p),
           OwnerOK(o)'
    PROVE  LevelsInv'
<1>1. row' \in [rangeID : Nat, ackLevel : Nat]
  BY DEF TypeOK
<1>2. ASSUME NEW p \in Owners, p # o PROVE OwnerOK(p)'
  BY <1>1, <1>2, UntouchedOwner DEF LevelsInv
<1> QED
  BY <1>2 DEF LevelsInv

\* SpoolTask only queues a request.
LEMMA SpoolTaskLevels ==
    ASSUME LevelsInv, NEW o \in Owners, NEW t \in Tasks, SpoolTask(o, t)
    PROVE  LevelsInv'
<1> USE DEF SpoolTask, storeVars, dbVars, readerVars, envVars
<1>0. TypeOK /\ RowOK /\ LateOK /\ OneOwnerPerLease /\ OwnerOK(o)
  BY DEF LevelsInv
<1>1. [data |-> t, src |-> 0] \in AppendRequest
  BY DEF AppendRequest
<1>2. /\ Append(appendCh[o], [data |-> t, src |-> 0]) \in Seq(AppendRequest)
      /\ Append(appendCh[o], [data |-> t, src |-> 0]) # <<>>
  BY <1>0, <1>1, AppendSeq DEF TypeOK
<1>3. TypeOK'
  BY <1>0, <1>2 DEF TypeOK
<1>4. RowOK' /\ LateOK' /\ OneOwnerPerLease' /\ row.rangeID <= row'.rangeID
  BY <1>0, SMT DEF RowOK, LateOK, WriteOK, OneOwnerPerLease, TypeOK
<1>5. \A p \in Owners : p # o => Untouched(p)
  BY <1>0 DEF TypeOK, Untouched
<1>6. OwnerOK(o)'
  BY <1>0, <1>2
     DEF OwnerOK, OpOK, WriteOK, UnloadedOK, LoadedOK, WriterOK, ReaderOK, Running, TypeOK
<1> QED
  BY <1>3, <1>4, <1>5, <1>6, OwnerStep

\* The same for a step that leaves the store and every lease alone.
LEMMA LocalStep ==
    ASSUME LevelsInv, NEW o \in Owners, UNCHANGED <<storeVars, rangeID>>,
           TypeOK', \A p \in Owners : p # o => Untouched(p), OwnerOK(o)'
    PROVE  LevelsInv'
<1>1. RowOK' /\ LateOK' /\ OneOwnerPerLease' /\ row.rangeID <= row'.rangeID
  <2>1. row.rangeID \in Nat /\ row' = row
    BY DEF LevelsInv, TypeOK, storeVars
  <2>2. row.rangeID <= row'.rangeID
    BY <2>1, SMT
  <2> QED
    BY <2>2 DEF LevelsInv, storeVars, RowOK, LateOK, WriteOK, OneOwnerPerLease
<1> QED
  BY <1>1, OwnerStep

\* The levels of a running owner, in order and in the naturals.
LEMMA RunningLevels ==
    ASSUME NEW o \in Owners, TypeOK, OwnerOK(o), Running(o)
    PROVE  /\ rangeID[o] \in Nat /\ 1 <= rangeID[o]
           /\ BlockEnd(rangeID[o]) \in Nat
           /\ dbAck[o] \in Nat /\ ackLevel[o] \in Nat /\ readLevel[o] \in Nat
           /\ maxReadLevel[o] \in Nat /\ next[o] \in Nat
           /\ dbAck[o] <= BlockEnd(rangeID[o]) /\ ackLevel[o] <= readLevel[o]
           /\ readLevel[o] <= maxReadLevel[o] /\ maxReadLevel[o] < next[o]
           /\ next[o] <= BlockEnd(rangeID[o]) + 1
           /\ ackLevel[o] <= BlockEnd(rangeID[o])
<1>1. rangeID[o] \in Nat /\ BlockEnd(rangeID[o]) \in Nat
  BY Blocks DEF TypeOK
<1>2. /\ dbAck[o] \in Nat /\ ackLevel[o] \in Nat \cup {-1}
      /\ readLevel[o] \in Nat \cup {-1} /\ maxReadLevel[o] \in Nat
      /\ next[o] \in Nat
  BY DEF TypeOK
<1>3. LoadedOK(o)
  BY DEF OwnerOK
<1> QED
  BY <1>1, <1>2, <1>3, SMT DEF LoadedOK

\* The fault counter stays within its bound.
LEMMA FaultType == ASSUME TypeOK, NEW k, Fault(k) PROVE faults' \in 0..MaxFaults
BY ConstantsAssumption, SMT DEF TypeOK, Fault

\* Steps of loading and of the writer that only start something.
LEMMA LoadLevels ==
    ASSUME LevelsInv, NEW o \in Owners, Load(o)
    PROVE  LevelsInv'
<1> USE DEF Load, storeVars, writerVars, readerVars
<1>0. TypeOK /\ OwnerOK(o)
  BY DEF LevelsInv
<1>1. TypeOK'
  BY <1>0, FaultType DEF TypeOK
<1>2. \A p \in Owners : p # o => Untouched(p)
  BY <1>0 DEF TypeOK, Untouched
<1>3. OwnerOK(o)'
  BY <1>0
     DEF OwnerOK, OpOK, UnloadedOK, LoadedOK, WriterOK, ReaderOK, Running, TypeOK
<1> QED
  BY <1>1, <1>2, <1>3, LocalStep

\* Asking for the lease again (renewal or first take-over) writes the ack level
\* that the owner knows, which lies in the blocks handed out so far.
LEMMA takeOverLevels ==
    ASSUME LevelsInv, NEW o \in Owners, takeOverTaskQueue(o)
    PROVE  LevelsInv'
<1> USE DEF takeOverTaskQueue, storeVars, writerVars, readerVars, envVars
<1>0. TypeOK /\ RowOK /\ OwnerOK(o)
  BY DEF LevelsInv
<1>1. LeaseWrite(row.rangeID, row.ackLevel) \in Write
  BY <1>0, SMT DEF TypeOK, LeaseWrite, Write
<1>2. TypeOK'
  BY <1>0, <1>1 DEF TypeOK
<1>3. \A p \in Owners : p # o => Untouched(p)
  BY <1>0 DEF TypeOK, Untouched
<1>4. OpOK(o)'
  BY <1>0, SMT DEF OpOK, WriteOK, LeaseWrite, RowOK, Running, TypeOK
<1>5. OwnerOK(o)'
  BY <1>0, <1>4 DEF OwnerOK, UnloadedOK, LoadedOK, WriterOK, ReaderOK, Running
<1> QED
  BY <1>2, <1>3, <1>5, LocalStep

\* allocTaskIDBlock asks for the next lease with the ack level of this owner.
LEMMA allocLevels ==
    ASSUME LevelsInv, NEW o \in Owners, allocTaskIDBlock(o)
    PROVE  LevelsInv'
<1> USE DEF allocTaskIDBlock, storeVars, writerVars, readerVars, envVars
<1>0. TypeOK /\ OneOwnerPerLease /\ OwnerOK(o)
  BY DEF LevelsInv
<1>1. LeaseWrite(rangeID[o], dbAck[o]) \in Write
  BY <1>0, SMT DEF TypeOK, LeaseWrite, Write
<1>2. TypeOK'
  BY <1>0, <1>1 DEF TypeOK
<1>3. \A p \in Owners : p # o => Untouched(p)
  BY <1>0 DEF TypeOK, Untouched
<1>4. OpOK(o)'
  <2>1. dbAck[o] <= BlockEnd(rangeID[o])
    BY <1>0, RunningLevels
  <2> QED
    BY <1>0, <2>1
       DEF OpOK, WriteOK, LeaseWrite, Running, TypeOK, OneOwnerPerLease
<1>5. OwnerOK(o)'
  BY <1>0, <1>4 DEF OwnerOK, UnloadedOK, LoadedOK, WriterOK, ReaderOK, Running
<1> QED
  BY <1>2, <1>3, <1>5, LocalStep

\* CreateTasks is issued with the lease the ids were assigned under.
LEMMA appendTasksLevels ==
    ASSUME LevelsInv, NEW o \in Owners, appendTasks(o)
    PROVE  LevelsInv'
<1> USE DEF appendTasks, storeVars, writerVars, readerVars, envVars
<1> DEFINE ts == {[id |-> r.id, data |-> r.data] : r \in wtasks[o]}
<1>0. TypeOK /\ OneOwnerPerLease /\ OwnerOK(o)
  BY DEF LevelsInv
<1>1. ts \in SUBSET StoredTask
  BY <1>0, SMT DEF TypeOK, AssignedRequest, StoredTask
<1>2. TasksWrite(rangeID[o], ts) \in Write
  BY <1>0, <1>1 DEF TypeOK, TasksWrite, Write
<1>3. TypeOK'
  BY <1>0, <1>2 DEF TypeOK
<1>4. \A p \in Owners : p # o => Untouched(p)
  BY <1>0 DEF TypeOK, Untouched
<1>5. OpOK(o)'
  <2>1. 0 <= ackLevel[o] /\ 0 <= BlockEnd(rangeID[o])
    BY <1>0, RunningLevels, SMT
  <2> QED
    BY <1>0, <2>1
       DEF OpOK, WriteOK, TasksWrite, Running, TypeOK, OneOwnerPerLease
<1>6. OwnerOK(o)'
  BY <1>0, <1>5 DEF OwnerOK, UnloadedOK, LoadedOK, WriterOK, ReaderOK, Running
<1> QED
  BY <1>3, <1>4, <1>6, LocalStep

\* assignTaskID takes the next id of the block.
LEMMA assignLevels ==
    ASSUME LevelsInv, NEW o \in Owners, assignTaskID(o)
    PROVE  LevelsInv'
<1> USE DEF assignTaskID, storeVars, dbVars, readerVars, envVars
<1> DEFINE r == [id |-> next[o], data |-> Head(appendCh[o]).data,
                 src |-> Head(appendCh[o]).src]
<1>0. TypeOK /\ OwnerOK(o)
  BY DEF LevelsInv
<1>1. Head(appendCh[o]) \in AppendRequest /\ Tail(appendCh[o]) \in Seq(AppendRequest)
  BY <1>0, HeadTailSeq DEF TypeOK
<1>2. r \in AssignedRequest
  BY <1>0, <1>1 DEF AppendRequest, AssignedRequest, TypeOK
<1>n. /\ next'[o] = next[o] + 1 /\ next[o] \in Nat /\ maxReadLevel[o] \in Nat
      /\ wtasks'[o] = wtasks[o] \cup {r} /\ wtasks[o] \in SUBSET AssignedRequest
      /\ next[o] <= BlockEnd(rangeID[o])
  BY <1>0 DEF TypeOK
<1>u. UNCHANGED <<status, dbAck, maxReadLevel, rangeID, ackLevel, readLevel>>
  OBVIOUS
<1>3. TypeOK'
  <2>1. wtasks' \in [Owners -> SUBSET AssignedRequest]
    BY <1>0, <1>2 DEF TypeOK
  <2>2. next' \in [Owners -> Nat \ {0}]
    BY <1>0, SMT DEF TypeOK
  <2> QED
    BY <1>0, <1>1, <2>1, <2>2 DEF TypeOK
<1>4. \A p \in Owners : p # o => Untouched(p)
  BY <1>0 DEF TypeOK, Untouched
<1>5. OpOK(o)' /\ UnloadedOK(o)'
  BY <1>0 DEF OwnerOK, OpOK, WriteOK, UnloadedOK, Running, TypeOK
<1>6. LoadedOK(o)'
  <2>1. LoadedOK(o) /\ BlockEnd(rangeID[o]) \in Nat
    BY <1>0, RunningLevels DEF OwnerOK
  <2> HIDE DEF assignTaskID
  <2> QED
    BY <1>n, <1>u, <2>1, SMT DEF LoadedOK, Running
<1>8. WriterOK(o)'
  <2> HIDE DEF assignTaskID, r
  <2> SUFFICES ASSUME NEW q \in wtasks'[o]
               PROVE  maxReadLevel'[o] < q.id /\ q.id < next'[o]
    BY DEF WriterOK
  <2>1. q \in wtasks[o] \/ q = r
    BY <1>n
  <2>2. q.id \in Nat
    BY <1>2, <1>n, <2>1 DEF AssignedRequest
  <2>3. CASE q \in wtasks[o]
    BY <1>0, <1>n, <1>u, <2>2, <2>3, SMT DEF OwnerOK, WriterOK
  <2>4. CASE q = r
    <3>1. q.id = next[o] /\ Running(o)
      BY <2>4 DEF r, assignTaskID
    <3> QED
      BY <1>0, <1>n, <1>u, <3>1, SMT DEF OwnerOK, LoadedOK
  <2> QED
    BY <2>1, <2>3, <2>4
<1>7. ReaderOK(o)'
  BY <1>0 DEF OwnerOK, ReaderOK
<1> QED
  BY <1>3, <1>4, <1>5, <1>6, <1>7, <1>8, LocalStep DEF OwnerOK

\* Moving a loaded task to another phase.
LEMMA MovedTask ==
    ASSUME TypeOK, NEW o \in Owners, OwnerOK(o), NEW e \in outstanding[o],
           NEW ph \in Phases, MoveTask(o, e, ph)
    PROVE  /\ outstanding' \in [Owners -> SUBSET LoadedTask]
           /\ \A f \in outstanding'[o] : f.id <= readLevel[o]
           /\ \A p \in Owners : p # o => outstanding'[p] = outstanding[p]
<1>1. e \in LoadedTask
  BY DEF TypeOK
<1>2. [e EXCEPT !.ph = ph] \in LoadedTask /\ [e EXCEPT !.ph = ph].id = e.id
  BY <1>1 DEF LoadedTask
<1>3. outstanding'[o] = (outstanding[o] \ {e}) \cup {[e EXCEPT !.ph = ph]}
  BY DEF MoveTask, TypeOK
<1>4. outstanding' \in [Owners -> SUBSET LoadedTask]
  BY <1>2 DEF MoveTask, TypeOK
<1>5. \A p \in Owners : p # o => outstanding'[p] = outstanding[p]
  BY DEF MoveTask, TypeOK
<1>6. \A f \in outstanding'[o] : f.id <= readLevel[o]
  BY <1>2, <1>3 DEF OwnerOK, ReaderOK
<1> QED
  BY <1>4, <1>5, <1>6

\* Steps that only move one loaded task along.
LEMMA DispatchLevels ==
    ASSUME LevelsInv, NEW o \in Owners, NEW e \in outstanding[o],
           NEW ph \in Phases, MoveTask(o, e, ph),
           UNCHANGED <<storeVars, status, rangeID, dbAck, maxReadLevel, op, next,
                       wtasks, pump, readTo, batch, signal, ackLevel, readLevel>>,
           fatal' \in [Owners -> BOOLEAN],
           appendCh' \in [Owners -> Seq(AppendRequest)],
           Running(o), appendCh[o] # <<>> => appendCh'[o] # <<>>,
           \A p \in Owners : p # o => appendCh'[p] = appendCh[p],
           accepted' \in SUBSET Tasks, done' \in SUBSET Tasks,
           expired' \in SUBSET Tasks, faults' \in 0..MaxFaults
    PROVE  LevelsInv'
<1> USE DEF storeVars
<1>0. TypeOK /\ OwnerOK(o)
  BY DEF LevelsInv
<1>1. TypeOK'
  BY <1>0, MovedTask DEF TypeOK
<1>2. \A p \in Owners : p # o => Untouched(p)
  BY <1>0, MovedTask DEF Untouched
<1>3. OpOK(o)' /\ UnloadedOK(o)' /\ LoadedOK(o)' /\ WriterOK(o)'
  BY <1>0 DEF OwnerOK, OpOK, WriteOK, UnloadedOK, LoadedOK, WriterOK, Running
<1>4. ReaderOK(o)'
  BY <1>0, MovedTask DEF OwnerOK, ReaderOK
<1> QED
  BY <1>1, <1>2, <1>3, <1>4, LocalStep DEF OwnerOK

\* A task is loaded only while its owner runs.
LEMMA LoadedIsRunning ==
    ASSUME LevelsInv, NEW o \in Owners, outstanding[o] # {} PROVE Running(o)
BY DEF LevelsInv, OwnerOK, UnloadedOK

\* Starting or matching a loaded task changes its phase, never its id.
LEMMA ProcessLevels ==
    ASSUME LevelsInv, NEW o \in Owners, ProcessSpooledTask(o)
    PROVE  LevelsInv'
<1> USE DEF ProcessSpooledTask, storeVars, dbVars, writerVars, envVars
<1>1. PICK e \in Buffered(o) :
        MoveTask(o, e, IF e.data \in expired THEN "finished" ELSE "polled")
  OBVIOUS
<1>2. e \in outstanding[o]
  BY <1>1 DEF Buffered
<1>3. PICK ph \in Phases : MoveTask(o, e, ph)
  BY <1>1 DEF Phases
<1>4. TypeOK
  BY DEF LevelsInv, TypeOK
<1> QED
  BY <1>2, <1>3, <1>4, DispatchLevels DEF TypeOK

\* Handing a task to history changes its phase, never its id.
LEMMA RecordLevels ==
    ASSUME LevelsInv, NEW o \in Owners, NEW e \in outstanding[o],
           RecordTaskStarted(o, e) \/ RecordTaskStartedError(o, e)
    PROVE  LevelsInv'
<1> USE DEF RecordTaskStarted, RecordTaskStartedError, storeVars, dbVars,
            writerVars
<1>1. TypeOK
  BY DEF LevelsInv
<1>2. e.data \in Tasks
  BY <1>1, SMT DEF TypeOK, LoadedTask
<1>3. PICK ph \in Phases : MoveTask(o, e, ph)
  BY DEF Phases
<1>4. faults' \in 0..MaxFaults
  BY <1>1, FaultType DEF TypeOK
<1>5. Running(o)
  BY LoadedIsRunning
<1> QED
  BY <1>1, <1>2, <1>3, <1>4, <1>5, DispatchLevels DEF TypeOK

\* Writing a task back to the queue appends a request and keeps the levels.
LEMMA RewriteLevels ==
    ASSUME LevelsInv, NEW o \in Owners, NEW e \in outstanding[o], RewriteTask(o, e)
    PROVE  LevelsInv'
<1> USE DEF RewriteTask, storeVars
<1> DEFINE r == [data |-> e.data, src |-> e.id]
<1>1. TypeOK /\ Running(o)
  BY LoadedIsRunning DEF LevelsInv
<1>2. r \in AppendRequest
  BY <1>1, SMT DEF TypeOK, LoadedTask, AppendRequest
<1>3. Append(appendCh[o], r) \in Seq(AppendRequest) /\ Append(appendCh[o], r) # <<>>
  <2>1. appendCh[o] \in Seq(AppendRequest)
    BY <1>1 DEF TypeOK
  <2> HIDE DEF r, RewriteTask
  <2> QED
    BY <1>2, <2>1, AppendSeq
<1>4. PICK ph \in Phases : MoveTask(o, e, ph)
  BY DEF Phases
<1>5. faults' \in 0..MaxFaults /\ fatal' \in [Owners -> BOOLEAN]
  BY <1>1, FaultType DEF TypeOK
<1>6. /\ appendCh' \in [Owners -> Seq(AppendRequest)]
      /\ appendCh[o] # <<>> => appendCh'[o] # <<>>
      /\ \A p \in Owners : p # o => appendCh'[p] = appendCh[p]
  <2> DEFINE ch == Append(appendCh[o], r)
  <2>1. appendCh' = appendCh \/ appendCh' = [appendCh EXCEPT ![o] = ch]
    OBVIOUS
  <2>2. appendCh \in [Owners -> Seq(AppendRequest)]
    BY <1>1 DEF TypeOK
  <2>3. ch \in Seq(AppendRequest) /\ ch # <<>>
    BY <1>3
  <2> HIDE DEF ch, RewriteTask
  <2> QED
    BY <2>1, <2>2, <2>3
<1> QED
  BY <1>1, <1>4, <1>5, <1>6, DispatchLevels DEF TypeOK

\* persistAck and Stop capture the ack level in a write.
LEMMA AckWriteOK ==
    ASSUME LevelsInv, NEW o \in Owners, Running(o), NEW kind \in {"ack", "final"}
    PROVE  LET w == AckWrite(kind, rangeID[o], ackLevel[o])
           IN  /\ w \in Write /\ WriteOK(w) /\ w # NoOp
               /\ w.prev = rangeID[o] /\ w.kind = kind
<1>1. TypeOK /\ OneOwnerPerLease /\ OwnerOK(o)
  BY DEF LevelsInv
<1>2. /\ rangeID[o] \in Nat /\ ackLevel[o] \in Nat
      /\ ackLevel[o] <= BlockEnd(rangeID[o]) /\ rangeID[o] <= row.rangeID
  BY <1>1, RunningLevels DEF OneOwnerPerLease
<1> QED
  BY <1>2 DEF AckWrite, Write, WriteOK, NoOp

\* UpdateTaskQueue is issued with an ack level no higher than the read level.
LEMMA persistAckLevels ==
    ASSUME LevelsInv, NEW o \in Owners, persistAck(o)
    PROVE  LevelsInv'
<1> USE DEF storeVars, writerVars, envVars
<1> DEFINE w == AckWrite("ack", rangeID[o], ackLevel[o])
<1>0. TypeOK /\ OwnerOK(o) /\ Running(o)
  BY DEF LevelsInv, persistAck
<1>1. w \in Write /\ WriteOK(w) /\ w # NoOp /\ w.prev = rangeID[o] /\ w.kind = "ack"
  BY <1>0, AckWriteOK
<1> HIDE DEF w
<1>2. /\ UNCHANGED <<storeVars, status, rangeID, dbAck, maxReadLevel, fatal,
                     writerVars, readTo, batch, signal, ackLevel, readLevel,
                     outstanding, envVars>>
      /\ pump[o] = "idle" /\ pump' = [pump EXCEPT ![o] = "persisting"]
      /\ op' = [op EXCEPT ![o] = w]
  BY DEF persistAck, w
<1>3. TypeOK'
  BY <1>0, <1>1, <1>2 DEF TypeOK
<1>4. \A p \in Owners : p # o => Untouched(p)
  BY <1>0, <1>2 DEF TypeOK, Untouched
<1>5. OpOK(o)'
  BY <1>0, <1>1, <1>2 DEF OpOK, WriteOK, Running, TypeOK
<1>6. UnloadedOK(o)' /\ LoadedOK(o)' /\ WriterOK(o)' /\ ReaderOK(o)'
  BY <1>0, <1>2
  DEF OwnerOK, UnloadedOK, LoadedOK, WriterOK, ReaderOK, Running, TypeOK
<1> QED
  BY <1>2, <1>3, <1>4, <1>5, <1>6, LocalStep DEF OwnerOK

\* The last UpdateTaskQueue of a queue that unloads is issued the same way.
LEMMA StopLevels ==
    ASSUME LevelsInv, NEW o \in Owners, Stop(o)
    PROVE  LevelsInv'
<1> USE DEF storeVars, writerVars, readerVars
<1> DEFINE w == AckWrite("final", rangeID[o], ackLevel[o])
<1>0. TypeOK /\ OwnerOK(o) /\ Running(o)
  BY DEF LevelsInv, Stop, Running
<1>1. w \in Write /\ WriteOK(w) /\ w # NoOp /\ w.prev = rangeID[o] /\ w.kind = "final"
  BY <1>0, AckWriteOK
<1> HIDE DEF w
<1>2. /\ UNCHANGED <<storeVars, rangeID, dbAck, maxReadLevel, fatal, writerVars,
                     readerVars, accepted, done, expired>>
      /\ \E st \in {"stopping", "closing"} : status' = [status EXCEPT ![o] = st]
      /\ op' = op \/ op' = [op EXCEPT ![o] = w]
  BY DEF Stop, w
<1>3. TypeOK'
  <2>1. faults' \in 0..MaxFaults
    BY <1>0, FaultType DEF Stop, TypeOK
  <2>2. status' \in [Owners -> {"off", "loading", "on", "stopping", "closing"}]
    BY <1>0, <1>2 DEF TypeOK
  <2>3. op' \in [Owners -> Write \cup {NoOp}]
    BY <1>0, <1>1, <1>2 DEF TypeOK
  <2> QED
    BY <1>0, <1>2, <2>1, <2>2, <2>3 DEF TypeOK
<1>4. \A p \in Owners : p # o => Untouched(p)
  BY <1>0, <1>2 DEF TypeOK, Untouched
<1>5. Running(o)' /\ op'[o] \in {op[o], w}
  BY <1>0, <1>2 DEF Running, TypeOK
<1>6. OpOK(o)'
  <2>1. status'[o] \in {"stopping", "closing"}
    BY <1>0, <1>2 DEF TypeOK
  <2> QED
    BY <1>0, <1>1, <1>2, <1>5, <2>1 DEF OwnerOK, OpOK, WriteOK, TypeOK
<1>7. UnloadedOK(o)' /\ LoadedOK(o)' /\ WriterOK(o)' /\ ReaderOK(o)'
  BY <1>0, <1>2, <1>5 DEF OwnerOK, UnloadedOK, LoadedOK, WriterOK, ReaderOK
<1> QED
  BY <1>2, <1>3, <1>4, <1>6, <1>7, LocalStep DEF OwnerOK

\* The pump works only while its owner runs.
LEMMA PumpIsRunning ==
    ASSUME LevelsInv, NEW o \in Owners, pump[o] # "idle" PROVE Running(o)
BY DEF LevelsInv, OwnerOK, UnloadedOK

\* What getTaskBatch scans lies above the read level and within readTo.
LEMMA ReadRange ==
    ASSUME LevelsInv, NEW o \in Owners, pump[o] = "reading",
           NEW k \in 1..RangesPerRead
    PROVE  /\ ReadUpper(o, k) \in Nat
           /\ readLevel[o] < ReadUpper(o, k) /\ ReadUpper(o, k) <= maxReadLevel[o]
           /\ InRanges(o, k) \in SUBSET StoredTask
           /\ \A s \in InRanges(o, k) :
                s.id \in Nat /\ readLevel[o] < s.id /\ s.id <= ReadUpper(o, k)
<1>1. TypeOK /\ OwnerOK(o) /\ Running(o)
  BY PumpIsRunning DEF LevelsInv
<1>2. k \in Nat /\ 1 <= k /\ RangeSize \in Nat /\ 1 <= RangeSize
  BY ConstantsAssumption, SMT
<1>3. k * RangeSize \in Nat /\ 1 <= k * RangeSize
  BY <1>2, SMT
<1>4. /\ readLevel[o] \in Nat /\ maxReadLevel[o] \in Nat
      /\ readTo[o] \in Nat /\ readLevel[o] < readTo[o]
      /\ readTo[o] <= maxReadLevel[o]
  BY <1>1, RunningLevels DEF OwnerOK, ReaderOK, TypeOK
<1>5. /\ ReadUpper(o, k) \in Nat
      /\ readLevel[o] < ReadUpper(o, k) /\ ReadUpper(o, k) <= maxReadLevel[o]
  BY <1>3, <1>4, SMT DEF ReadUpper
<1> QED
  BY <1>1, <1>5 DEF InRanges, TypeOK, StoredTask

\* The pump fixes the end of what it will read at the max read level.
LEMMA ReadBeginLevels ==
    ASSUME LevelsInv, NEW o \in Owners, ReadBegin(o) \/ ReadError(o)
    PROVE  LevelsInv'
<1> USE DEF storeVars, dbVars, writerVars, envVars
<1>0. TypeOK /\ OwnerOK(o) /\ Running(o)
  BY PumpIsRunning DEF LevelsInv, ReadBegin, ReadError
<1>1. UNCHANGED <<storeVars, dbVars, writerVars, batch, ackLevel, readLevel,
                  outstanding, accepted, done, expired>>
  BY DEF ReadBegin, ReadError
<1>2. /\ \/ pump' = pump /\ readTo' = readTo
         \/ /\ pump' = [pump EXCEPT ![o] = "idle"]
            /\ readTo' = [readTo EXCEPT ![o] = 0]
         \/ /\ pump' = [pump EXCEPT ![o] = "reading"]
            /\ readTo' = [readTo EXCEPT ![o] = maxReadLevel[o]]
            /\ readLevel[o] < maxReadLevel[o]
      /\ pump[o] \in {"idle", "reading"}
      /\ \E b \in BOOLEAN : signal' = [signal EXCEPT ![o] = b]
  BY DEF ReadBegin, ReadError
<1>3. TypeOK'
  <2>1. faults' \in 0..MaxFaults
    BY <1>0, FaultType DEF TypeOK, ReadBegin, ReadError
  <2>2. /\ pump' \in [Owners -> {"idle", "reading", "adding", "persisting"}]
        /\ readTo' \in [Owners -> Nat]
    <3>1. /\ pump \in [Owners -> {"idle", "reading", "adding", "persisting"}]
          /\ readTo \in [Owners -> Nat] /\ maxReadLevel[o] \in Nat
      BY <1>0 DEF TypeOK
    <3> QED
      BY <1>2, <3>1, SMT
  <2>3. signal' \in [Owners -> BOOLEAN]
    BY <1>0, <1>2 DEF TypeOK
  <2> QED
    BY <1>0, <1>1, <2>1, <2>2, <2>3 DEF TypeOK
<1>4. \A p \in Owners : p # o => Untouched(p)
  <2>1. \A p \in Owners : p # o => pump'[p] = pump[p] /\ readTo'[p] = readTo[p]
    BY <1>0, <1>2 DEF TypeOK
  <2> QED
    BY <1>1, <2>1 DEF Untouched
<1>5. OpOK(o)' /\ UnloadedOK(o)' /\ LoadedOK(o)' /\ WriterOK(o)'
  BY <1>0, <1>1
     DEF OwnerOK, OpOK, WriteOK, UnloadedOK, LoadedOK, WriterOK, Running
<1>6. ReaderOK(o)'
  <2>1. maxReadLevel[o] <= maxReadLevel[o]
    BY <1>0, RunningLevels, SMT
  <2> QED
    BY <1>0, <1>1, <1>2, <2>1 DEF OwnerOK, ReaderOK, TypeOK
<1> QED
  BY <1>1, <1>3, <1>4, <1>5, <1>6, LocalStep DEF OwnerOK

\* What is read lies above the read level, which does not move yet.
LEMMA ReadSomeLevels ==
    ASSUME LevelsInv, NEW o \in Owners, ReadSome(o)
    PROVE  LevelsInv'
<1> USE DEF ReadSome, storeVars, dbVars, writerVars, envVars
<1>0. TypeOK /\ OwnerOK(o) /\ Running(o)
  BY PumpIsRunning DEF LevelsInv
<1>1. PICK k \in 1..RangesPerRead :
        batch' = [batch EXCEPT ![o] = FirstPage(InRanges(o, k))]
  OBVIOUS
<1>2. FirstPage(InRanges(o, k)) \subseteq InRanges(o, k)
  BY DEF FirstPage
<1>3. FirstPage(InRanges(o, k)) \in SUBSET StoredTask
  BY <1>2, ReadRange
<1>4. ASSUME NEW s \in FirstPage(InRanges(o, k))
      PROVE  readLevel[o] <= s.id /\ s.id <= maxReadLevel[o]
  <2> HIDE DEF ReadSome
  <2>1. pump[o] = "reading"
    BY DEF ReadSome
  <2>2. /\ ReadUpper(o, k) \in Nat /\ ReadUpper(o, k) <= maxReadLevel[o]
        /\ s.id \in Nat /\ readLevel[o] < s.id /\ s.id <= ReadUpper(o, k)
    BY <1>2, <2>1, ReadRange
  <2> QED
    BY <1>0, <2>2, RunningLevels, SMT
<1>5. TypeOK'
  BY <1>0, <1>1, <1>3 DEF TypeOK
<1>6. \A p \in Owners : p # o => Untouched(p)
  BY <1>0, <1>1 DEF TypeOK, Untouched
<1>7. OpOK(o)' /\ UnloadedOK(o)' /\ LoadedOK(o)' /\ WriterOK(o)'
  BY <1>0 DEF OwnerOK, OpOK, WriteOK, UnloadedOK, LoadedOK, WriterOK, Running
<1>8. ReaderOK(o)'
  BY <1>0, <1>1, <1>4 DEF OwnerOK, ReaderOK, TypeOK
<1> QED
  BY <1>5, <1>6, <1>7, <1>8, LocalStep DEF OwnerOK

\* A gap moves the read level up, and the ack level when nothing is loaded in
\* between.
LEMMA ReadNoneLevels ==
    ASSUME LevelsInv, NEW o \in Owners, ReadNone(o)
    PROVE  LevelsInv' /\ ackLevel[o] <= ackLevel'[o]
<1> USE DEF ReadNone, storeVars, dbVars, writerVars, envVars
<1> DEFINE upper == ReadUpper(o, RangesPerRead)
<1>0. TypeOK /\ OwnerOK(o) /\ Running(o)
  BY PumpIsRunning DEF LevelsInv
<1>1. upper \in Nat /\ readLevel[o] < upper /\ upper <= maxReadLevel[o]
  BY ReadRange, ConstantsAssumption, SMT
<1>2. /\ ackLevel' = [ackLevel EXCEPT ![o] = IF @ = readLevel[o] THEN upper ELSE @]
      /\ readLevel' = [readLevel EXCEPT ![o] = upper]
  OBVIOUS
<1> HIDE DEF upper
<1>3. readLevel'[o] = upper /\ ackLevel'[o] \in {ackLevel[o], upper}
  BY <1>0, <1>2 DEF TypeOK
<1>r. /\ ackLevel[o] \in Nat /\ readLevel[o] \in Nat
      /\ ackLevel[o] <= readLevel[o]
  BY <1>0, RunningLevels
<1>4. ackLevel[o] <= ackLevel'[o] /\ ackLevel'[o] <= upper /\ ackLevel'[o] \in Nat
  <2> HIDE DEF ReadNone
  <2> QED
    BY <1>1, <1>3, <1>r, SMT
<1>p. pump'[o] = "idle" /\ batch'[o] = {}
  BY <1>0 DEF OwnerOK, ReaderOK, TypeOK
<1>5. TypeOK'
  <2>1. ackLevel' \in [Owners -> Nat \cup {-1}]
    <3> DEFINE a == IF ackLevel[o] = readLevel[o] THEN upper ELSE ackLevel[o]
    <3>1. a \in Nat
      BY <1>1, <1>r
    <3>2. ackLevel' = [ackLevel EXCEPT ![o] = a]
      BY <1>2
    <3> HIDE DEF a
    <3>3. ackLevel \in [Owners -> Nat \cup {-1}]
      BY <1>0 DEF TypeOK
    <3> QED
      BY <3>1, <3>2, <3>3
  <2>2. readLevel' \in [Owners -> Nat \cup {-1}]
    <3>1. readLevel \in [Owners -> Nat \cup {-1}]
      BY <1>0 DEF TypeOK
    <3> QED
      BY <1>1, <1>2, <3>1
  <2>3. pump' \in [Owners -> {"idle", "reading", "adding", "persisting"}]
    BY <1>0 DEF TypeOK
  <2> QED
    BY <1>0, <2>1, <2>2, <2>3 DEF TypeOK
<1>6. \A p \in Owners : p # o => Untouched(p)
  BY <1>0, <1>2, SMT DEF TypeOK, Untouched
<1>7. OpOK(o)'
  BY <1>0 DEF OwnerOK, OpOK, WriteOK, Running
<1>8. UnloadedOK(o)' /\ LoadedOK(o)'
  BY <1>0, <1>1, <1>3, <1>4, RunningLevels, SMT
     DEF UnloadedOK, LoadedOK, Running
<1>9. WriterOK(o)'
  BY <1>0 DEF OwnerOK, WriterOK
<1>10. ReaderOK(o)'
  <2>1. UNCHANGED outstanding
    OBVIOUS
  <2> HIDE DEF ReadNone
  <2>2. ASSUME NEW e \in outstanding[o]
        PROVE  e.id <= readLevel'[o]
    <3>1. e.id \in Nat
      BY <1>0, SMT DEF TypeOK, LoadedTask
    <3>2. e.id <= readLevel[o]
      BY <1>0 DEF OwnerOK, ReaderOK
    <3> QED
      BY <1>1, <1>3, <1>r, <3>1, <3>2, SMT
  <2> QED
    BY <1>p, <2>1, <2>2 DEF ReaderOK
<1> QED
  BY <1>4, <1>5, <1>6, <1>7, <1>8, <1>9, <1>10, LocalStep DEF OwnerOK

\* The batch is added in id order, so the read level never passes a task.
LEMMA AddTaskLevels ==
    ASSUME LevelsInv, NEW o \in Owners, AddTask(o)
    PROVE  LevelsInv'
<1> USE DEF storeVars, dbVars, writerVars, envVars
<1>0. TypeOK /\ OwnerOK(o) /\ Running(o)
  BY PumpIsRunning DEF LevelsInv, AddTask
<1>u. /\ UNCHANGED <<storeVars, dbVars, writerVars, readTo, ackLevel, envVars>>
      /\ pump[o] = "adding"
  BY DEF AddTask
<1>1. PICK s \in batch[o] :
        /\ \A x \in batch[o] : s.id <= x.id
        /\ \/ outstanding' = outstanding
           \/ outstanding' = [outstanding EXCEPT ![o] = @ \cup
                 {[id |-> s.id, data |-> s.data, ph |-> "buffered"]}]
        /\ readLevel' = [readLevel EXCEPT ![o] = s.id]
        /\ batch' = [batch EXCEPT ![o] = @ \ {s}]
        /\ IF batch[o] = {s}
           THEN /\ pump' = [pump EXCEPT ![o] = "idle"]
                /\ signal' = [signal EXCEPT ![o] = TRUE]
           ELSE pump' = pump /\ signal' = signal
  BY DEF AddTask
<1>2. /\ s \in StoredTask /\ s.id \in Nat
      /\ readLevel[o] <= s.id /\ s.id <= maxReadLevel[o]
  BY <1>0, SMT DEF OwnerOK, ReaderOK, TypeOK, StoredTask
<1>r. /\ ackLevel[o] \in Nat /\ readLevel[o] \in Nat
      /\ ackLevel[o] <= readLevel[o]
  BY <1>0, RunningLevels
<1> DEFINE e == [id |-> s.id, data |-> s.data, ph |-> "buffered"]
<1>3. e \in LoadedTask /\ e.id = s.id
  BY <1>2 DEF StoredTask, LoadedTask, Phases
<1>4. readLevel'[o] = s.id /\ batch'[o] = batch[o] \ {s}
  BY <1>0, <1>1 DEF TypeOK
<1>5. outstanding'[o] \subseteq outstanding[o] \cup {e}
  BY <1>0, <1>1 DEF TypeOK
<1>6. TypeOK'
  <2>1. outstanding \in [Owners -> SUBSET LoadedTask]
    BY <1>0 DEF TypeOK
  <2>2. outstanding' \in [Owners -> SUBSET LoadedTask]
    <3> HIDE DEF e
    <3>1. outstanding' = outstanding
          \/ outstanding' = [outstanding EXCEPT ![o] = @ \cup {e}]
      BY <1>1 DEF e
    <3> QED
      BY <1>3, <2>1, <3>1
  <2>3. pump' \in [Owners -> {"idle", "reading", "adding", "persisting"}]
    <3>1. pump' = pump \/ pump' = [pump EXCEPT ![o] = "idle"]
      BY <1>1
    <3> QED
      BY <1>0, <3>1 DEF TypeOK
  <2>4. signal' \in [Owners -> BOOLEAN]
    <3>1. signal' = signal \/ signal' = [signal EXCEPT ![o] = TRUE]
      BY <1>1
    <3> QED
      BY <1>0, <3>1 DEF TypeOK
  <2>5. /\ readLevel' \in [Owners -> Nat \cup {-1}]
        /\ batch' \in [Owners -> SUBSET StoredTask]
    BY <1>0, <1>1, <1>2 DEF TypeOK
  <2> QED
    BY <1>0, <1>u, <2>2, <2>3, <2>4, <2>5 DEF TypeOK
<1>7. \A p \in Owners : p # o => Untouched(p)
  BY <1>0, <1>1, <1>u, SMT DEF TypeOK, Untouched
<1>8. OpOK(o)' /\ UnloadedOK(o)' /\ LoadedOK(o)' /\ WriterOK(o)'
  <2>1. OpOK(o)' /\ UnloadedOK(o)' /\ WriterOK(o)'
    BY <1>0, <1>u DEF OwnerOK, OpOK, WriteOK, UnloadedOK, WriterOK, Running
  <2>2. ackLevel[o] <= s.id
    BY <1>2, <1>r, SMT
  <2>3. LoadedOK(o)'
    BY <1>0, <1>2, <1>4, <1>u, <2>2 DEF OwnerOK, LoadedOK, Running
  <2> QED
    BY <2>1, <2>3
<1>9. ReaderOK(o)'
  <2>1. pump'[o] # "reading" /\ (pump'[o] # "adding" => batch'[o] = {})
    BY <1>0, <1>1, <1>4, <1>u DEF TypeOK
  <2>2. \A x \in batch'[o] : readLevel'[o] <= x.id /\ x.id <= maxReadLevel'[o]
    BY <1>0, <1>1, <1>4, <1>u DEF OwnerOK, ReaderOK
  <2>3. ASSUME NEW f \in outstanding'[o] PROVE f.id <= readLevel'[o]
    <3>1. CASE f \in outstanding[o]
      <4>1. f.id \in Nat /\ f.id <= readLevel[o]
        BY <1>0, <3>1, SMT DEF OwnerOK, ReaderOK, TypeOK, LoadedTask
      <4> QED
        BY <1>2, <1>4, <1>r, <4>1, SMT
    <3>2. CASE f = e
      BY <1>2, <1>4, <3>2, SMT
    <3> QED
      BY <1>5, <3>1, <3>2
  <2> QED
    BY <2>1, <2>2, <2>3 DEF ReaderOK
<1> QED
  BY <1>u, <1>6, <1>7, <1>8, <1>9, LocalStep DEF OwnerOK

\* The writer answers its batch with an error.
LEMMA RewrittenTasks ==
    ASSUME TypeOK, NEW o \in Owners, NEW srcs, NEW ph \in Phases
    PROVE  /\ RewritesBecome(o, srcs, ph) \in [Owners -> SUBSET LoadedTask]
           /\ \A p \in Owners : p # o =>
                RewritesBecome(o, srcs, ph)[p] = outstanding[p]
           /\ RewritesBecome(o, srcs, ph)[o] =
                {IF e.ph = "rewriting" /\ e.id \in srcs
                 THEN [e EXCEPT !.ph = ph] ELSE e : e \in outstanding[o]}
           /\ \A f \in RewritesBecome(o, srcs, ph)[o] :
                \E e \in outstanding[o] : f.id = e.id /\ f.data = e.data
<1> DEFINE g(e) == IF e.ph = "rewriting" /\ e.id \in srcs
                   THEN [e EXCEPT !.ph = ph] ELSE e
           S == {g(e) : e \in outstanding[o]}
<1>1. \A e \in LoadedTask : g(e) \in LoadedTask /\ g(e).id = e.id /\ g(e).data = e.data
  BY DEF LoadedTask
<1>2. outstanding \in [Owners -> SUBSET LoadedTask]
  BY DEF TypeOK
<1>3. RewritesBecome(o, srcs, ph) = [outstanding EXCEPT ![o] = S]
  BY DEF RewritesBecome
<1>4. S \in SUBSET LoadedTask /\ \A f \in S :
        \E e \in outstanding[o] : f.id = e.id /\ f.data = e.data
  <2> HIDE DEF g
  <2> QED
    BY <1>1, <1>2
<1>5. RewritesBecome(o, srcs, ph)[o] = S
  BY <1>2, <1>3
<1>6. RewritesBecome(o, srcs, ph) \in [Owners -> SUBSET LoadedTask]
      /\ \A p \in Owners : p # o => RewritesBecome(o, srcs, ph)[p] = outstanding[p]
  <2> HIDE DEF S
  <2> QED
    BY <1>2, <1>3, <1>4
<1> QED
  BY <1>4, <1>5, <1>6

\* A failed batch gives its requests back: appended again or given up, the
\* levels of the owner stay as they are.
LEMMA FailedBatch ==
    ASSUME LevelsInv, NEW o \in Owners, NEW reqs, NEW mayRetry, FailBatch(o, reqs, mayRetry)
    PROVE  /\ wtasks' = [wtasks EXCEPT ![o] = {}]
           /\ fatal' \in [Owners -> BOOLEAN]
           /\ outstanding' \in [Owners -> SUBSET LoadedTask]
           /\ \A p \in Owners : p # o => outstanding'[p] = outstanding[p]
           /\ \A f \in outstanding'[o] : f.id <= readLevel[o]
<1>1. TypeOK /\ ReaderOK(o)
  BY DEF LevelsInv, OwnerOK
<1> DEFINE srcs == {r.src : r \in reqs} \ {0}
<1>2. PICK ph \in {"failed", "stuck"} : outstanding' = RewritesBecome(o, srcs, ph)
  BY DEF FailBatch
<1> HIDE DEF srcs
<1>p. ph \in Phases
  BY DEF Phases
<1>3. fatal' \in [Owners -> BOOLEAN]
  BY <1>1 DEF FailBatch, signalIfFatal, TypeOK
<1>4. wtasks' = [wtasks EXCEPT ![o] = {}]
  BY DEF FailBatch
<1>5. \A f \in outstanding'[o] : f.id <= readLevel[o]
  BY <1>1, <1>2, <1>p, RewrittenTasks, SMT DEF ReaderOK
<1> QED
  BY <1>1, <1>2, <1>p, <1>3, <1>4, <1>5, RewrittenTasks, SMT

\* After the store has answered the writer.
LEMMA AnsweredWriter ==
    ASSUME LevelsInv, NEW o \in Owners, Running(o),
           row' \in [rangeID : Nat, ackLevel : Nat],
           UNCHANGED <<status, rangeID, dbAck, next, pump, readTo, batch,
                       ackLevel, readLevel>>,
           op' = [op EXCEPT ![o] = NoOp],
           wtasks' = [wtasks EXCEPT ![o] = {}],
           maxReadLevel' \in {maxReadLevel, [maxReadLevel EXCEPT ![o] = next[o] - 1]},
           appendCh' \in {appendCh, [appendCh EXCEPT ![o] = Tail(@)]},
           outstanding' \in [Owners -> SUBSET LoadedTask],
           \A p \in Owners : p # o => outstanding'[p] = outstanding[p],
           \A f \in outstanding'[o] : f.id <= readLevel[o]
    PROVE  /\ OwnerOK(o)'
           /\ \A p \in Owners : p # o => Untouched(p)
           /\ maxReadLevel' \in [Owners -> Nat]
<1>0. TypeOK /\ OwnerOK(o)
  BY DEF LevelsInv
<1>1. /\ op'[o] = NoOp /\ wtasks'[o] = {} /\ Running(o)'
      /\ maxReadLevel'[o] \in {maxReadLevel[o], next[o] - 1}
  BY <1>0 DEF TypeOK, Running
<1>2. maxReadLevel'[o] \in Nat /\ maxReadLevel[o] <= maxReadLevel'[o]
      /\ maxReadLevel'[o] < next[o]
  BY <1>0, <1>1, RunningLevels, SMT
<1>3. maxReadLevel' \in [Owners -> Nat]
  BY <1>0, <1>1, <1>2 DEF TypeOK
<1>4. \A p \in Owners : p # o => Untouched(p)
  BY <1>0 DEF TypeOK, Untouched
<1>5. OpOK(o)' /\ UnloadedOK(o)' /\ WriterOK(o)'
  BY <1>1 DEF OpOK, UnloadedOK, WriterOK
<1>6. LoadedOK(o)'
  BY <1>0, <1>1, <1>2, RunningLevels, SMT DEF LoadedOK
<1>7. ReaderOK(o)'
  <2>1. /\ readTo[o] \in Nat /\ maxReadLevel[o] \in Nat
        /\ \A s \in batch[o] : s.id \in Nat
    BY <1>0, SMT DEF TypeOK, StoredTask
  <2> QED
    BY <1>0, <1>2, <2>1, SMT DEF OwnerOK, ReaderOK
<1> QED
  BY <1>3, <1>4, <1>5, <1>6, <1>7 DEF OwnerOK

\* A write in progress is a write of its owner.
LEMMA OpKinds ==
    ASSUME LevelsInv, NEW o \in Owners,
           op[o].kind \in {"lease", "ack", "final", "tasks"}
    PROVE  /\ op[o] # NoOp /\ op[o] \in Write /\ WriteOK(op[o])
           /\ op[o].prev \in Nat /\ op[o].new \in Nat /\ op[o].ack \in Nat
           /\ op[o].tasks \in SUBSET StoredTask
           /\ op[o].kind # "lease" => Running(o)
           /\ status[o] # "loading" => Running(o)
           /\ Running(o) => op[o].prev = rangeID[o]
           /\ op[o].kind = "lease" /\ Running(o) => appendCh[o] # <<>>
<1>1. TypeOK /\ OpOK(o) /\ UnloadedOK(o)
  BY DEF LevelsInv, OwnerOK
<1>2. op[o] # NoOp
  BY SMT DEF NoOp
<1>3. op[o] \in Write
  BY <1>1, <1>2 DEF TypeOK
<1>4. status[o] # "off" /\ (status[o] = "loading" => op[o].kind = "lease")
  BY <1>1, <1>2 DEF OpOK
<1>5. status[o] \in {"off", "loading", "on", "stopping", "closing"}
  BY <1>1 DEF TypeOK
<1>6. /\ op[o].prev \in Nat /\ op[o].new \in Nat /\ op[o].ack \in Nat
      /\ op[o].tasks \in SUBSET StoredTask
  BY <1>3 DEF Write
<1> QED
  BY <1>1, <1>2, <1>3, <1>4, <1>5, <1>6 DEF OpOK, Running

\* A write whose answer is lost keeps the invariant of the store.
LEMMA LateWrite ==
    ASSUME LevelsInv, NEW w \in Write, WriteOK(w), w.new \in Nat,
           \A s \in w.tasks : s.id <= BlockEnd(w.prev),
           row' = row, stored' = stored, late' \in {late, MayCommitLater(w)}
    PROVE  RowOK' /\ LateOK' /\ late' \in SUBSET Write
<1>1. TypeOK /\ RowOK /\ LateOK
  BY DEF LevelsInv
<1>2. RowOK'
  BY <1>1 DEF RowOK
<1>3. late' = late \/ (late' = late \cup {w} /\ row.rangeID = w.prev)
  BY DEF MayCommitLater, lockTaskQueue
<1>4. LateOK'
  BY <1>1, <1>3 DEF LateOK, WriteOK
<1> QED
  BY <1>1, <1>2, <1>3, <1>4 DEF TypeOK

\* The ids of a write of tasks lie in the blocks its owner has had.
LEMMA OpTasks ==
    ASSUME LevelsInv, NEW o \in Owners,
           op[o].kind \in {"lease", "ack", "final", "tasks"}
    PROVE  \A s \in op[o].tasks : s.id <= BlockEnd(op[o].prev)
<1>1. CASE op[o].kind # "tasks"
  BY <1>1, OpKinds DEF WriteOK
<1>2. CASE op[o].kind = "tasks"
  <2>1. Running(o) /\ op[o].prev = rangeID[o] /\ op[o] # NoOp
    BY <1>2, OpKinds
  <2>2. TypeOK /\ OwnerOK(o)
    BY DEF LevelsInv
  <2>3. op[o].tasks = {[id |-> r.id, data |-> r.data] : r \in wtasks[o]}
    BY <1>2, <2>1, <2>2 DEF OwnerOK, OpOK
  <2>4. ASSUME NEW r \in wtasks[o] PROVE r.id <= BlockEnd(rangeID[o])
    <3>1. r.id \in Nat /\ r.id < next[o]
      BY <2>2, SMT DEF OwnerOK, WriterOK, TypeOK, AssignedRequest
    <3> QED
      BY <2>1, <2>2, <3>1, RunningLevels, SMT
  <2> QED
    BY <2>1, <2>3, <2>4, SMT
<1> QED
  BY <1>1, <1>2

\* The renewal of the lease failed: the batch and one more request fail.
LEMMA FailAllocLevels ==
    ASSUME LevelsInv, NEW o \in Owners, op[o].kind = "lease",
           status[o] # "loading", NEW mayRetry, FailAlloc(o, mayRetry),
           UNCHANGED <<row, stored, status, rangeID, dbAck, maxReadLevel, next,
                       pump, readTo, batch, signal, ackLevel, readLevel,
                       accepted, done, expired>>,
           op' = [op EXCEPT ![o] = NoOp], RowOK', LateOK',
           late' \in SUBSET Write, faults' \in 0..MaxFaults
    PROVE  LevelsInv'
<1>0. TypeOK /\ OneOwnerPerLease /\ Running(o) /\ appendCh[o] # <<>>
  BY OpKinds DEF LevelsInv
<1>1. appendCh' = [appendCh EXCEPT ![o] = Tail(@)]
      /\ FailBatch(o, wtasks[o] \cup {Head(appendCh[o])}, mayRetry)
  BY DEF FailAlloc
<1>2. row' \in [rangeID : Nat, ackLevel : Nat] /\ row.rangeID <= row'.rangeID
  BY <1>0, SMT DEF TypeOK
<1>3. /\ OwnerOK(o)' /\ \A p \in Owners : p # o => Untouched(p)
      /\ maxReadLevel' \in [Owners -> Nat]
  BY <1>0, <1>1, <1>2, FailedBatch, AnsweredWriter
<1>4. TypeOK'
  <2>1. /\ wtasks' \in [Owners -> SUBSET AssignedRequest]
        /\ op' \in [Owners -> Write \cup {NoOp}]
        /\ fatal' \in [Owners -> BOOLEAN]
        /\ outstanding' \in [Owners -> SUBSET LoadedTask]
    BY <1>0, <1>1, FailedBatch DEF TypeOK
  <2>2. Tail(appendCh[o]) \in Seq(AppendRequest)
    BY <1>0, HeadTailSeq DEF TypeOK
  <2>3. appendCh' \in [Owners -> Seq(AppendRequest)]
    BY <1>0, <1>1, <2>2 DEF TypeOK
  <2> QED
    BY <1>0, <1>3, <2>1, <2>3 DEF TypeOK
<1>5. OneOwnerPerLease'
  BY <1>0 DEF OneOwnerPerLease
<1> QED
  BY <1>2, <1>3, <1>4, <1>5, OwnerStep

-----------------------------------------------------------------------------
(* Answers of the store, and giving the queue up *)

\* Forget leaves its owner with nothing.
LEMMA ForgottenOwner ==
    ASSUME LevelsInv, NEW o \in Owners, Forget(o)
    PROVE  /\ OwnerOK(o)'
           /\ \A p \in Owners : p # o => Untouched(p)
           /\ row' = row => OneOwnerPerLease'
<1>0. TypeOK /\ OneOwnerPerLease
  BY DEF LevelsInv
<1>1. /\ status'[o] = "off" /\ rangeID'[o] = 0 /\ dbAck'[o] = 0
      /\ maxReadLevel'[o] = 0 /\ op'[o] = NoOp /\ next'[o] = 1
      /\ appendCh'[o] = <<>> /\ wtasks'[o] = {}
      /\ pump'[o] = "idle" /\ batch'[o] = {} /\ ackLevel'[o] = -1
      /\ readLevel'[o] = -1 /\ outstanding'[o] = {}
  BY <1>0 DEF Forget, TypeOK
<1>2. OwnerOK(o)'
  BY <1>1 DEF OwnerOK, OpOK, UnloadedOK, LoadedOK, WriterOK, ReaderOK, Running
<1>3. \A p \in Owners : p # o => Untouched(p)
  BY <1>0 DEF Forget, TypeOK, Untouched
<1>4. ASSUME row' = row PROVE OneOwnerPerLease'
  <2>1. \A p \in Owners : p # o => rangeID'[p] = rangeID[p]
    BY <1>3 DEF Untouched
  <2>2. row.rangeID \in Nat
    BY <1>0 DEF TypeOK
  <2> QED
    BY <1>0, <1>1, <1>4, <2>1, <2>2, SMT DEF OneOwnerPerLease
<1> QED
  BY <1>2, <1>3, <1>4

\* The types of what Forget resets.
LEMMA ForgetTypes ==
    ASSUME TypeOK, NEW o \in Owners, Forget(o),
           row' = row, stored' = stored, late' \in SUBSET Write,
           UNCHANGED <<accepted, done, expired>>, faults' \in 0..MaxFaults
    PROVE  TypeOK'
<1>1. /\ status' \in [Owners -> {"off", "loading", "on", "stopping", "closing"}]
      /\ rangeID' \in [Owners -> Nat] /\ dbAck' \in [Owners -> Nat]
      /\ maxReadLevel' \in [Owners -> Nat]
      /\ op' \in [Owners -> Write \cup {NoOp}]
  BY DEF Forget, TypeOK
<1>2. fatal' \in [Owners -> BOOLEAN] /\ signal' \in [Owners -> BOOLEAN]
  BY DEF Forget, TypeOK
<1>3. <<>> \in Seq(AppendRequest)
  BY NilSeq
<1>4. /\ next' \in [Owners -> Nat \ {0}]
      /\ appendCh' \in [Owners -> Seq(AppendRequest)]
      /\ wtasks' \in [Owners -> SUBSET AssignedRequest]
  BY <1>3, SMT DEF Forget, TypeOK
<1>5. /\ pump' \in [Owners -> {"idle", "reading", "adding", "persisting"}]
      /\ readTo' \in [Owners -> Nat] /\ batch' \in [Owners -> SUBSET StoredTask]
      /\ ackLevel' \in [Owners -> Nat \cup {-1}]
      /\ readLevel' \in [Owners -> Nat \cup {-1}]
      /\ outstanding' \in [Owners -> SUBSET LoadedTask]
  BY DEF Forget, TypeOK
<1> QED
  BY <1>1, <1>2, <1>4, <1>5 DEF TypeOK

\* tqCtxCancel and Crash: what was on its way to the store may get there.
LEMMA UnloadLevels ==
    ASSUME LevelsInv, NEW o \in Owners, tqCtxCancel(o) \/ Crash(o)
    PROVE  LevelsInv'
<1>0. TypeOK /\ RowOK /\ LateOK /\ OneOwnerPerLease
  BY DEF LevelsInv
<1>1. /\ Forget(o) /\ UNCHANGED <<row, stored, accepted, done, expired>>
  BY DEF tqCtxCancel, Crash, envVars
<1>2. faults' \in 0..MaxFaults
  BY <1>0, FaultType DEF tqCtxCancel, Crash, envVars, TypeOK
<1>3. RowOK' /\ LateOK' /\ late' \in SUBSET Write
  <2>1. CASE op[o] = NoOp
    BY <1>0, <1>1, <2>1 DEF tqCtxCancel, Crash, RowOK, LateOK, WriteOK, TypeOK
  <2>2. CASE op[o] # NoOp
    <3>1. op[o] \in Write
      BY <1>0, <2>2 DEF TypeOK
    <3>2. op[o].kind \in {"lease", "ack", "final", "tasks"}
      BY <3>1 DEF Write
    <3>3. late' = MayCommitLater(op[o])
      BY <2>2 DEF tqCtxCancel, Crash
    <3>4. /\ WriteOK(op[o]) /\ op[o].new \in Nat
          /\ \A s \in op[o].tasks : s.id <= BlockEnd(op[o].prev)
      BY <3>1, <3>2, OpKinds, OpTasks DEF Write
    <3> QED
      BY <1>1, <3>1, <3>3, <3>4, LateWrite
  <2> QED
    BY <2>1, <2>2
<1>4. TypeOK'
  BY <1>0, <1>1, <1>2, <1>3, ForgetTypes
<1>5. row.rangeID <= row'.rangeID
  BY <1>0, <1>1, SMT DEF TypeOK
<1> QED
  BY <1>1, <1>3, <1>4, <1>5, ForgottenOwner, OwnerStep

\* A refused lease changes no row, and its owner unloads the queue.
LEMMA LeaseRefusedLevels ==
    ASSUME LevelsInv, NEW o \in Owners, LeaseRefused(o)
    PROVE  LevelsInv'
<1> USE DEF storeVars, envVars
<1>0. TypeOK /\ RowOK /\ LateOK /\ OneOwnerPerLease /\ op[o].kind = "lease"
  BY DEF LevelsInv, LeaseRefused
<1>1. UNCHANGED <<storeVars, envVars>>
  BY DEF LeaseRefused
<1>2. CASE Forget(o)
  <2>0. row.rangeID <= row'.rangeID /\ faults' \in 0..MaxFaults /\ late' \in SUBSET Write
    BY <1>0, <1>1, SMT DEF TypeOK
  <2>1. TypeOK'
    BY <1>0, <1>1, <1>2, <2>0, ForgetTypes
  <2>2. RowOK' /\ LateOK'
    BY <1>0, <1>1 DEF RowOK, LateOK, WriteOK
  <2> QED
    BY <1>1, <1>2, <2>0, <2>1, <2>2, ForgottenOwner, OwnerStep
<1>3. CASE status[o] # "loading" /\ ~Forget(o)
  <2>1. /\ op' = [op EXCEPT ![o] = NoOp] /\ FailAlloc(o, FALSE)
        /\ UNCHANGED <<status, rangeID, dbAck, maxReadLevel, next, pump,
                       readTo, batch, signal, ackLevel, readLevel>>
    BY <1>3 DEF LeaseRefused
  <2>2. RowOK' /\ LateOK' /\ late' \in SUBSET Write /\ faults' \in 0..MaxFaults
    BY <1>0, <1>1 DEF RowOK, LateOK, WriteOK, TypeOK
  <2> QED
    BY <1>0, <1>1, <1>3, <2>1, <2>2, FailAllocLevels
<1> QED
  BY <1>2, <1>3 DEF LeaseRefused

\* A lease with no answer may still be applied later: it is kept in late.
LEMMA LeaseErrorLevels ==
    ASSUME LevelsInv, NEW o \in Owners, LeaseError(o)
    PROVE  LevelsInv'
<1>0. TypeOK /\ OneOwnerPerLease /\ op[o].kind = "lease"
  BY DEF LevelsInv, LeaseError
<1>1. UNCHANGED <<row, stored, accepted, done, expired>> /\ late' = MayCommitLater(op[o])
  BY DEF LeaseError
<1>2. faults' \in 0..MaxFaults
  BY <1>0, FaultType DEF LeaseError
<1>3. RowOK' /\ LateOK' /\ late' \in SUBSET Write
  BY <1>0, <1>1, OpKinds, OpTasks, LateWrite
<1>4. row.rangeID <= row'.rangeID
  BY <1>0, <1>1, SMT DEF TypeOK
<1>5. CASE Forget(o)
  <2>1. TypeOK'
    BY <1>0, <1>1, <1>2, <1>3, <1>5, ForgetTypes
  <2> QED
    BY <1>1, <1>3, <1>4, <1>5, <2>1, ForgottenOwner, OwnerStep
<1>6. CASE /\ op' = [op EXCEPT ![o] = NoOp]
           /\ UNCHANGED <<status, rangeID, dbAck, maxReadLevel, fatal,
                          writerVars, readerVars>>
  <2> USE DEF writerVars, readerVars
  <2>1. TypeOK'
    BY <1>0, <1>1, <1>2, <1>3, <1>6 DEF TypeOK
  <2>2. \A p \in Owners : p # o => Untouched(p)
    BY <1>0, <1>6 DEF Untouched, TypeOK
  <2>3. OwnerOK(o) /\ op'[o] = NoOp
    BY <1>0, <1>6 DEF LevelsInv, TypeOK
  <2>4. OwnerOK(o)'
    BY <1>6, <2>3
       DEF OwnerOK, OpOK, UnloadedOK, LoadedOK, WriterOK, ReaderOK, Running
  <2>5. OneOwnerPerLease'
    BY <1>0, <1>1, <1>6 DEF OneOwnerPerLease
  <2> QED
    BY <1>3, <1>4, <2>1, <2>2, <2>4, <2>5, OwnerStep
<1>7. CASE /\ status[o] # "loading"
           /\ op' = [op EXCEPT ![o] = NoOp] /\ FailAlloc(o, TRUE)
           /\ UNCHANGED <<status, rangeID, dbAck, maxReadLevel, next, pump,
                          readTo, batch, signal, ackLevel, readLevel>>
  BY <1>0, <1>1, <1>2, <1>3, <1>7, FailAllocLevels
<1> QED
  BY <1>5, <1>6, <1>7 DEF LeaseError

\* What a committed write does to the store.
LEMMA CommittedWrite ==
    ASSUME LevelsInv, NEW w \in Write, WriteOK(w), lockTaskQueue(w),
           \A s \in w.tasks : s.id <= BlockEnd(w.prev),
           row' = Committed(w), stored' \in SUBSET (stored \cup w.tasks),
           late' \in SUBSET late, w.kind = "lease" => late' = {}
    PROVE  /\ row' \in [rangeID : Nat, ackLevel : Nat]
           /\ stored' \in SUBSET StoredTask /\ late' \in SUBSET Write
           /\ RowOK' /\ LateOK'
           /\ row.rangeID <= row'.rangeID
           /\ w.kind # "lease" => row'.rangeID = row.rangeID
           /\ w.kind = "lease" => /\ row'.rangeID = row.rangeID + 1
                                  /\ w.new = row.rangeID + 1
                                  /\ row'.ackLevel = w.ack
<1>0. TypeOK /\ RowOK /\ LateOK
  BY DEF LevelsInv
<1>1. /\ row.rangeID \in Nat /\ row.ackLevel \in Nat /\ w.prev = row.rangeID
      /\ w.new \in Nat /\ w.ack \in Nat /\ w.tasks \in SUBSET StoredTask
      /\ w.ack <= BlockEnd(row.rangeID)
      /\ w.new = IF w.kind = "lease" THEN row.rangeID + 1 ELSE row.rangeID
  BY <1>0 DEF TypeOK, Write, WriteOK, lockTaskQueue
<1>2. /\ row' \in [rangeID : Nat, ackLevel : Nat]
      /\ row'.rangeID = IF w.kind = "lease" THEN row.rangeID + 1 ELSE row.rangeID
      /\ row'.ackLevel \in {row.ackLevel, w.ack}
      /\ w.kind = "lease" => row'.ackLevel = w.ack
  BY <1>0, <1>1 DEF Committed, TypeOK
<1>3. stored' \in SUBSET StoredTask /\ late' \in SUBSET Write
  BY <1>0, <1>1 DEF TypeOK
<1>4. row.rangeID <= row'.rangeID
  BY <1>1, <1>2, SMT
<1>5. /\ BlockEnd(row.rangeID) \in Nat /\ BlockEnd(row'.rangeID) \in Nat
      /\ BlockEnd(row.rangeID) <= BlockEnd(row'.rangeID)
  <2>1. row'.rangeID \in Nat
    BY <1>2
  <2> QED
    BY <1>1, <1>4, <2>1, Blocks
<1>6. RowOK'
  <2>1. row'.ackLevel <= BlockEnd(row'.rangeID)
    BY <1>0, <1>1, <1>2, <1>5, SMT DEF RowOK
  <2>2. ASSUME NEW s \in stored' PROVE s.id <= BlockEnd(row'.rangeID)
    <3>1. s.id \in Nat /\ s.id <= BlockEnd(row.rangeID)
      BY <1>0, <1>1, <1>3 DEF RowOK, StoredTask
    <3> QED
      BY <1>5, <3>1, SMT
  <2> QED
    BY <2>1, <2>2 DEF RowOK
<1>7. LateOK'
  <2>1. CASE w.kind = "lease"
    BY <2>1 DEF LateOK
  <2>2. CASE w.kind # "lease"
    BY <1>0, <1>2, <2>2 DEF LateOK, WriteOK
  <2> QED
    BY <2>1, <2>2
<1> QED
  BY <1>1, <1>2, <1>3, <1>4, <1>6, <1>7

\* The ids of a stored batch lie in the block of the lease in the row.
LEMMA TasksCreatedLevels ==
    ASSUME LevelsInv, NEW o \in Owners, TasksCreated(o)
    PROVE  LevelsInv'
<1>0. TypeOK /\ OneOwnerPerLease /\ Running(o) /\ op[o].kind = "tasks"
  BY OpKinds DEF LevelsInv, TasksCreated
<1>1. /\ UNCHANGED <<status, rangeID, dbAck, fatal, next, appendCh, pump,
                     readTo, batch, ackLevel, readLevel, done, expired, faults>>
      /\ op' = [op EXCEPT ![o] = NoOp]
      /\ wtasks' = [wtasks EXCEPT ![o] = {}]
      /\ maxReadLevel' = [maxReadLevel EXCEPT ![o] = next[o] - 1]
      /\ signal' = [signal EXCEPT ![o] = TRUE]
      /\ outstanding' = RewritesBecome(o, Srcs(o), "finished")
      /\ accepted' = accepted \cup {r.data : r \in {x \in wtasks[o] : x.src = 0}}
  BY DEF TasksCreated, RaiseMaxReadLevel
<1>2. /\ row' = Committed(op[o]) /\ stored' = stored \cup op[o].tasks
      /\ late' = late /\ lockTaskQueue(op[o])
  BY <1>0 DEF TasksCreated, Commit
<1>3. /\ row' \in [rangeID : Nat, ackLevel : Nat]
      /\ stored' \in SUBSET StoredTask /\ late' \in SUBSET Write
      /\ RowOK' /\ LateOK' /\ row.rangeID <= row'.rangeID
      /\ row'.rangeID = row.rangeID
  BY <1>0, <1>2, OpKinds, OpTasks, CommittedWrite
<1>4. /\ outstanding' \in [Owners -> SUBSET LoadedTask]
      /\ \A p \in Owners : p # o => outstanding'[p] = outstanding[p]
      /\ \A f \in outstanding'[o] : f.id <= readLevel[o]
  <2>1. "finished" \in Phases /\ OwnerOK(o)
    BY DEF Phases, LevelsInv
  <2> QED
    BY <1>0, <1>1, <2>1, RewrittenTasks, SMT DEF OwnerOK, ReaderOK
<1>5. /\ OwnerOK(o)' /\ \A p \in Owners : p # o => Untouched(p)
      /\ maxReadLevel' \in [Owners -> Nat]
  BY <1>0, <1>1, <1>3, <1>4, AnsweredWriter
<1>6. TypeOK'
  <2>1. /\ wtasks' \in [Owners -> SUBSET AssignedRequest]
        /\ op' \in [Owners -> Write \cup {NoOp}]
        /\ accepted' \in SUBSET Tasks
    BY <1>0, <1>1, SMT DEF TypeOK, AssignedRequest
  <2>2. signal' \in [Owners -> BOOLEAN]
    BY <1>0, <1>1 DEF TypeOK
  <2> QED
    BY <1>0, <1>1, <1>3, <1>4, <1>5, <2>1, <2>2 DEF TypeOK
<1>7. OneOwnerPerLease'
  BY <1>0, <1>1, <1>3 DEF OneOwnerPerLease
<1> QED
  BY <1>3, <1>5, <1>6, <1>7, OwnerStep

\* The block of the next lease starts where the last one's ended.
LEMMA NextBlock ==
    ASSUME NEW r \in Nat
    PROVE  /\ BlockEnd(r) \in Nat /\ BlockEnd(r + 1) \in Nat
           /\ BlockEnd(r) < BlockEnd(r + 1)
           /\ BlockStart(r + 1) = BlockEnd(r) + 1
           /\ TakeOverReadLevel(r + 1) = BlockEnd(r)
<1>1. r + 1 \in Nat
  BY SMT
<1> QED
  BY <1>1, Blocks

\* A queue just loaded: its ack level is the row's, which lies below its block.
LEMMA TakenOver ==
    ASSUME NEW o \in Owners, NEW r \in Nat, NEW a \in Nat, a <= BlockEnd(r),
           rangeID'[o] = r + 1, next'[o] = BlockEnd(r) + 1,
           dbAck'[o] = a, ackLevel'[o] = a, readLevel'[o] = a,
           maxReadLevel'[o] = BlockEnd(r)
    PROVE  LoadedOK(o)'
<1>1. /\ BlockEnd(r) \in Nat /\ BlockEnd(r + 1) \in Nat
      /\ BlockEnd(r) < BlockEnd(r + 1)
  BY NextBlock
<1> QED
  BY <1>1, SMT DEF LoadedOK

\* The new holder's lease is above all others, and so is its block.
LEMMA LeaseGrantedLevels ==
    ASSUME LevelsInv, NEW o \in Owners, LeaseGranted(o)
    PROVE  LevelsInv'
<1> DEFINE w == op[o]
<1>0. TypeOK /\ OneOwnerPerLease /\ OwnerOK(o) /\ w.kind = "lease"
  BY DEF LevelsInv, LeaseGranted
<1>1. /\ row' = Committed(w) /\ stored' = stored \cup w.tasks /\ late' = {}
      /\ lockTaskQueue(w)
  BY <1>0 DEF LeaseGranted, Commit
<1>2. /\ row' \in [rangeID : Nat, ackLevel : Nat]
      /\ stored' \in SUBSET StoredTask /\ late' \in SUBSET Write
      /\ RowOK' /\ LateOK' /\ row.rangeID <= row'.rangeID
      /\ row'.rangeID = row.rangeID + 1 /\ w.new = row.rangeID + 1
      /\ row'.ackLevel = w.ack
  BY <1>0, <1>1, OpKinds, OpTasks, CommittedWrite
<1>3. /\ row.rangeID \in Nat /\ w.prev = row.rangeID /\ w.ack \in Nat
      /\ w.ack <= BlockEnd(row.rangeID)
  BY <1>0, <1>1, OpKinds DEF WriteOK, lockTaskQueue, TypeOK
<1> DEFINE r == row.rangeID
<1>4. /\ BlockEnd(r) \in Nat /\ BlockEnd(r + 1) \in Nat /\ BlockEnd(r) < BlockEnd(r + 1)
      /\ BlockStart(r + 1) = BlockEnd(r) + 1 /\ TakeOverReadLevel(r + 1) = BlockEnd(r)
  BY <1>3, NextBlock
<1>5. /\ UNCHANGED <<fatal, appendCh, wtasks, pump, readTo, batch, outstanding,
                     envVars>>
      /\ rangeID' = [rangeID EXCEPT ![o] = r + 1]
      /\ next' = [next EXCEPT ![o] = BlockEnd(r) + 1]
      /\ op' = [op EXCEPT ![o] = NoOp]
  BY <1>2, <1>4 DEF LeaseGranted
<1>6. \/ /\ status[o] = "loading"
         /\ status' = [status EXCEPT ![o] = "on"]
         /\ dbAck' = [dbAck EXCEPT ![o] = w.ack]
         /\ maxReadLevel' = [maxReadLevel EXCEPT ![o] = BlockEnd(r)]
         /\ ackLevel' = [ackLevel EXCEPT ![o] = w.ack]
         /\ readLevel' = [readLevel EXCEPT ![o] = w.ack]
         /\ signal' = [signal EXCEPT ![o] = TRUE]
      \/ /\ status[o] # "loading"
         /\ UNCHANGED <<status, dbAck, maxReadLevel, ackLevel, readLevel, signal>>
  BY <1>2, <1>4 DEF LeaseGranted
<1> HIDE DEF r, w
<1>n. r \in Nat
  BY <1>3 DEF r
<1>7. TypeOK'
  <2>1. /\ rangeID' \in [Owners -> Nat] /\ next' \in [Owners -> Nat \ {0}]
        /\ op' \in [Owners -> Write \cup {NoOp}]
    BY <1>0, <1>4, <1>5, <1>n, SMT DEF TypeOK
  <2>2. /\ status' \in [Owners -> {"off", "loading", "on", "stopping", "closing"}]
        /\ dbAck' \in [Owners -> Nat] /\ maxReadLevel' \in [Owners -> Nat]
        /\ ackLevel' \in [Owners -> Nat \cup {-1}]
        /\ readLevel' \in [Owners -> Nat \cup {-1}]
    <3>1. w.ack \in Nat /\ BlockEnd(r) \in Nat
      BY <1>3, <1>4
    <3>2. CASE status[o] = "loading"
      <4>1. /\ status' = [status EXCEPT ![o] = "on"]
            /\ dbAck' = [dbAck EXCEPT ![o] = w.ack]
            /\ maxReadLevel' = [maxReadLevel EXCEPT ![o] = BlockEnd(r)]
        BY <1>6, <3>2
      <4>3. status' \in [Owners -> {"off", "loading", "on", "stopping", "closing"}]
        BY <1>0, <4>1 DEF TypeOK
      <4>4. dbAck' \in [Owners -> Nat] /\ maxReadLevel' \in [Owners -> Nat]
        BY <1>0, <3>1, <4>1 DEF TypeOK
      <4>2. /\ ackLevel' \in [Owners -> Nat \cup {-1}]
            /\ readLevel' \in [Owners -> Nat \cup {-1}]
        BY <1>0, <1>6, <3>1, <3>2 DEF TypeOK
      <4> QED
        BY <4>2, <4>3, <4>4
    <3>3. CASE status[o] # "loading"
      BY <1>0, <1>6, <3>3 DEF TypeOK
    <3> QED
      BY <3>2, <3>3
  <2>3. signal' \in [Owners -> BOOLEAN]
    BY <1>0, <1>6 DEF TypeOK
  <2> QED
    BY <1>0, <1>2, <1>5, <2>1, <2>2, <2>3 DEF TypeOK, envVars
<1>8. \A p \in Owners : p # o => Untouched(p)
  BY <1>0, <1>5, <1>6, SMT DEF TypeOK, Untouched
<1>9. OneOwnerPerLease'
  <2>1. rangeID'[o] = row'.rangeID /\ \A p \in Owners : p # o => rangeID'[p] = rangeID[p]
    BY <1>0, <1>2, <1>5 DEF TypeOK, r
  <2>2. \A p \in Owners : rangeID[p] \in Nat /\ rangeID[p] <= row.rangeID
    BY <1>0 DEF TypeOK, OneOwnerPerLease
  <2> QED
    BY <1>0, <1>2, <1>3, <2>1, <2>2, SMT DEF OneOwnerPerLease
<1>10. /\ rangeID'[o] = r + 1 /\ next'[o] = BlockEnd(r) + 1 /\ op'[o] = NoOp
       /\ Running(o)'
  <2>1. status[o] # "loading" => Running(o)
    BY <1>0, OpKinds DEF w
  <2> QED
    BY <1>0, <1>5, <1>6, <2>1 DEF TypeOK, Running
<1>11. OwnerOK(o)'
  <2>1. CASE status[o] = "loading"
    <3>1. /\ dbAck'[o] = w.ack /\ ackLevel'[o] = w.ack /\ readLevel'[o] = w.ack
          /\ maxReadLevel'[o] = BlockEnd(r)
      BY <1>0, <1>6, <2>1 DEF TypeOK
    <3>2. /\ wtasks'[o] = {} /\ batch'[o] = {} /\ outstanding'[o] = {}
          /\ pump'[o] = "idle"
      BY <1>0, <1>5, <2>1 DEF OwnerOK, UnloadedOK, Running
    <3>3. LoadedOK(o)'
      <4>1. w.ack \in Nat /\ w.ack <= BlockEnd(r)
        BY <1>3 DEF r
      <4> QED
        BY <1>10, <1>n, <3>1, <4>1, TakenOver
    <3> QED
      BY <1>10, <3>2, <3>3 DEF OwnerOK, OpOK, UnloadedOK, WriterOK, ReaderOK
  <2>2. CASE status[o] # "loading"
    <3>1. Running(o) /\ rangeID[o] = r
      BY <1>0, <1>3, <2>2, OpKinds DEF w, r
    <3>2. LoadedOK(o)'
      <4>1. UNCHANGED <<dbAck, maxReadLevel, ackLevel, readLevel>>
        BY <1>6, <2>2
      <4>2. /\ dbAck[o] \in Nat /\ ackLevel[o] \in Nat /\ readLevel[o] \in Nat
            /\ maxReadLevel[o] \in Nat /\ next[o] \in Nat
            /\ dbAck[o] <= BlockEnd(r) /\ ackLevel[o] <= readLevel[o]
            /\ readLevel[o] <= maxReadLevel[o] /\ maxReadLevel[o] < next[o]
            /\ next[o] <= BlockEnd(r) + 1
        BY <1>0, <3>1, RunningLevels
      <4> QED
        BY <1>4, <1>10, <1>n, <4>1, <4>2, SMT DEF LoadedOK
    <3>3. WriterOK(o)'
      <4>1. ASSUME NEW q \in wtasks[o]
            PROVE  maxReadLevel[o] < q.id /\ q.id < BlockEnd(r) + 1
        <5>1. q.id \in Nat /\ maxReadLevel[o] < q.id /\ q.id < next[o]
          BY <1>0, SMT DEF OwnerOK, WriterOK, TypeOK, AssignedRequest
        <5> QED
          BY <1>0, <3>1, <5>1, RunningLevels, SMT
      <4> QED
        BY <1>5, <1>6, <1>10, <2>2, <4>1 DEF WriterOK
    <3>4. ReaderOK(o)'
      BY <1>0, <1>5, <1>6, <2>2 DEF OwnerOK, ReaderOK
    <3> QED
      BY <1>10, <3>2, <3>3, <3>4 DEF OwnerOK, OpOK, UnloadedOK
  <2> QED
    BY <2>1, <2>2
<1> QED
  BY <1>2, <1>7, <1>8, <1>9, <1>11, OwnerStep

\* A refused batch still raises the max read level past its ids.
LEMMA TasksRefusedLevels ==
    ASSUME LevelsInv, NEW o \in Owners, TasksRefused(o)
    PROVE  LevelsInv'
<1> USE DEF storeVars, envVars
<1>0. TypeOK /\ Running(o)
  BY OpKinds DEF LevelsInv, TasksRefused
<1>1. /\ UNCHANGED <<storeVars, status, rangeID, dbAck, next, appendCh, pump,
                     readTo, batch, signal, ackLevel, readLevel, envVars>>
      /\ op' = [op EXCEPT ![o] = NoOp]
      /\ maxReadLevel' = [maxReadLevel EXCEPT ![o] = next[o] - 1]
      /\ FailBatch(o, wtasks[o], FALSE)
  BY DEF TasksRefused, RaiseMaxReadLevel
<1>2. row' \in [rangeID : Nat, ackLevel : Nat]
  BY <1>0, <1>1 DEF TypeOK
<1>3. /\ OwnerOK(o)' /\ \A p \in Owners : p # o => Untouched(p)
      /\ maxReadLevel' \in [Owners -> Nat]
  BY <1>0, <1>1, <1>2, FailedBatch, AnsweredWriter
<1>4. TypeOK'
  <2>1. /\ wtasks' \in [Owners -> SUBSET AssignedRequest]
        /\ op' \in [Owners -> Write \cup {NoOp}]
        /\ fatal' \in [Owners -> BOOLEAN]
        /\ outstanding' \in [Owners -> SUBSET LoadedTask]
    BY <1>0, <1>1, FailedBatch DEF TypeOK
  <2> QED
    BY <1>0, <1>1, <1>3, <2>1 DEF TypeOK
<1> QED
  BY <1>1, <1>3, <1>4, LocalStep

\* A batch with no answer may still be stored: its ids lie in the block of the
\* lease, and the max read level passes them.
LEMMA TasksErrorLevels ==
    ASSUME LevelsInv, NEW o \in Owners, TasksError(o)
    PROVE  LevelsInv'
<1>0. TypeOK /\ OneOwnerPerLease /\ Running(o) /\ op[o].kind = "tasks"
  BY OpKinds DEF LevelsInv, TasksError
<1>1. /\ UNCHANGED <<row, stored, status, rangeID, dbAck, next, appendCh, pump,
                     readTo, batch, signal, ackLevel, readLevel, accepted, done,
                     expired>>
      /\ op' = [op EXCEPT ![o] = NoOp]
      /\ maxReadLevel' = [maxReadLevel EXCEPT ![o] = next[o] - 1]
      /\ FailBatch(o, wtasks[o], TRUE)
      /\ late' = MayCommitLater(op[o])
  BY DEF TasksError, RaiseMaxReadLevel
<1>2. row' \in [rangeID : Nat, ackLevel : Nat] /\ row.rangeID <= row'.rangeID
  BY <1>0, <1>1, SMT DEF TypeOK
<1>3. /\ OwnerOK(o)' /\ \A p \in Owners : p # o => Untouched(p)
      /\ maxReadLevel' \in [Owners -> Nat]
  BY <1>0, <1>1, <1>2, FailedBatch, AnsweredWriter
<1>4. RowOK' /\ LateOK' /\ late' \in SUBSET Write
  BY <1>0, <1>1, OpKinds, OpTasks, LateWrite
<1>5. TypeOK'
  <2>1. /\ wtasks' \in [Owners -> SUBSET AssignedRequest]
        /\ op' \in [Owners -> Write \cup {NoOp}]
        /\ fatal' \in [Owners -> BOOLEAN]
        /\ outstanding' \in [Owners -> SUBSET LoadedTask]
    BY <1>0, <1>1, FailedBatch DEF TypeOK
  <2>2. faults' \in 0..MaxFaults
    BY <1>0, FaultType DEF TasksError
  <2> QED
    BY <1>0, <1>1, <1>3, <1>4, <2>1, <2>2 DEF TypeOK
<1>6. OneOwnerPerLease'
  BY <1>0, <1>1 DEF OneOwnerPerLease
<1> QED
  BY <1>2, <1>3, <1>4, <1>5, <1>6, OwnerStep

\* OldUpdateState: the row takes the ack level, if the lease still stands.
LEMMA AckAnsweredLevels ==
    ASSUME LevelsInv, NEW o \in Owners, AckAnswered(o)
    PROVE  LevelsInv'
<1> DEFINE w == op[o]
<1>0. TypeOK /\ OneOwnerPerLease /\ OwnerOK(o) /\ Running(o) /\ w.kind = "ack"
  BY OpKinds DEF LevelsInv, AckAnswered
<1>1. /\ UNCHANGED <<status, rangeID, maxReadLevel, next, appendCh, wtasks,
                     readTo, batch, ackLevel, readLevel, outstanding, accepted,
                     done, expired>>
      /\ op' = [op EXCEPT ![o] = NoOp]
      /\ pump' = [pump EXCEPT ![o] = "idle"]
      /\ signal' = [signal EXCEPT ![o] = TRUE]
      /\ dbAck' = dbAck \/ dbAck' = [dbAck EXCEPT ![o] = w.ack]
  BY DEF AckAnswered, writerVars
<1>2. /\ w \in Write /\ WriteOK(w) /\ w.prev = rangeID[o] /\ w.ack \in Nat
      /\ w.new \in Nat /\ w.ack <= BlockEnd(rangeID[o])
      /\ \A s \in w.tasks : s.id <= BlockEnd(w.prev)
  BY <1>0, OpKinds, OpTasks DEF WriteOK
<1>3. /\ row' \in [rangeID : Nat, ackLevel : Nat] /\ row'.rangeID = row.rangeID
      /\ stored' \in SUBSET StoredTask /\ late' \in SUBSET Write
      /\ RowOK' /\ LateOK'
  <2>1. CASE lockTaskQueue(w) /\ Commit(w)
    <3>1. row' = Committed(w) /\ stored' = stored \cup w.tasks /\ late' = late
      BY <1>0, <2>1 DEF Commit
    <3> QED
      BY <1>0, <1>2, <2>1, <3>1, CommittedWrite
  <2>2. CASE row' = row /\ stored' = stored /\ late' \in {late, MayCommitLater(w)}
    BY <1>0, <1>2, <2>2, LateWrite DEF TypeOK
  <2> QED
    BY <2>1, <2>2 DEF AckAnswered, storeVars
<1>4. TypeOK'
  <2>1. faults' \in 0..MaxFaults
    BY <1>0, FaultType DEF AckAnswered, TypeOK
  <2>2. fatal' \in [Owners -> BOOLEAN] /\ signal' \in [Owners -> BOOLEAN]
    BY <1>0, <1>1 DEF AckAnswered, signalIfFatal, TypeOK
  <2>3. /\ op' \in [Owners -> Write \cup {NoOp}] /\ dbAck' \in [Owners -> Nat]
        /\ pump' \in [Owners -> {"idle", "reading", "adding", "persisting"}]
    BY <1>0, <1>1, <1>2 DEF TypeOK
  <2> QED
    BY <1>0, <1>1, <1>3, <2>1, <2>2, <2>3 DEF TypeOK
<1>5. \A p \in Owners : p # o => Untouched(p)
  BY <1>0, <1>1 DEF TypeOK, Untouched
<1>6. row.rangeID <= row'.rangeID /\ OneOwnerPerLease'
  BY <1>0, <1>1, <1>3, SMT DEF OneOwnerPerLease, TypeOK
<1>7. /\ op'[o] = NoOp /\ pump'[o] = "idle" /\ Running(o)'
      /\ dbAck'[o] <= BlockEnd(rangeID[o])
  BY <1>0, <1>1, <1>2, RunningLevels DEF TypeOK, Running
<1>8. batch[o] = {}
  BY <1>0, <1>7 DEF OwnerOK, ReaderOK, AckAnswered, TypeOK
<1>9. OwnerOK(o)'
  BY <1>0, <1>1, <1>7, <1>8
  DEF OwnerOK, OpOK, UnloadedOK, LoadedOK, WriterOK, ReaderOK
<1> QED
  BY <1>4, <1>5, <1>6, <1>3, <1>9, OwnerStep

\* Rows that taskGC deletes do not disturb the store.
LEMMA CollectedRows ==
    ASSUME NEW level, CompleteTasksLessThan(level) PROVE stored' \in SUBSET stored
BY DEF CompleteTasksLessThan

\* After its last UpdateTaskQueue the queue is unloaded, whatever the answer.
LEMMA FinalAnsweredLevels ==
    ASSUME LevelsInv, NEW o \in Owners, FinalAnswered(o)
    PROVE  LevelsInv'
<1> DEFINE w == op[o]
<1>0. TypeOK /\ RowOK /\ LateOK /\ OneOwnerPerLease /\ OwnerOK(o) /\ Running(o) /\ w.kind = "final"
  BY OpKinds DEF LevelsInv, FinalAnswered
<1>1. /\ UNCHANGED <<rangeID, maxReadLevel, fatal, writerVars, readerVars,
                     accepted, done, expired>>
      /\ op' = [op EXCEPT ![o] = NoOp]
      /\ status' = [status EXCEPT ![o] = "closing"]
      /\ dbAck' = dbAck \/ dbAck' = [dbAck EXCEPT ![o] = w.ack]
      /\ stored' \in SUBSET stored
  BY CollectedRows DEF FinalAnswered
<1> USE DEF writerVars, readerVars
<1>2. /\ w \in Write /\ WriteOK(w) /\ w.prev = rangeID[o] /\ w.ack \in Nat
      /\ w.new \in Nat /\ w.ack <= BlockEnd(rangeID[o])
      /\ \A s \in w.tasks : s.id <= BlockEnd(w.prev)
  BY <1>0, OpKinds, OpTasks DEF WriteOK
<1>3. /\ row' \in [rangeID : Nat, ackLevel : Nat] /\ row'.rangeID = row.rangeID
      /\ stored' \in SUBSET StoredTask /\ late' \in SUBSET Write
      /\ RowOK' /\ LateOK'
  <2>1. CASE lockTaskQueue(w) /\ row' = Committed(w) /\ late' = late
    BY <1>0, <1>1, <1>2, <2>1, CommittedWrite
  <2>2. CASE row' = row /\ late' \in {late, MayCommitLater(w)}
    <3>1. late' = late \/ (late' = late \cup {w} /\ row.rangeID = w.prev)
      BY <2>2 DEF MayCommitLater, lockTaskQueue
    <3>2. RowOK'
      BY <1>0, <1>1, <2>2 DEF RowOK
    <3>3. LateOK'
      BY <1>0, <1>2, <2>2, <3>1 DEF LateOK, WriteOK
    <3> QED
      BY <1>0, <1>1, <1>2, <2>2, <3>1, <3>2, <3>3 DEF TypeOK
  <2> QED
    BY <2>1, <2>2 DEF FinalAnswered
<1>4. TypeOK'
  <2>1. faults' \in 0..MaxFaults
    BY <1>0, FaultType DEF FinalAnswered, TypeOK
  <2>2. /\ op' \in [Owners -> Write \cup {NoOp}] /\ dbAck' \in [Owners -> Nat]
        /\ status' \in [Owners -> {"off", "loading", "on", "stopping", "closing"}]
    BY <1>0, <1>1, <1>2 DEF TypeOK
  <2> QED
    BY <1>0, <1>1, <1>3, <2>1, <2>2 DEF TypeOK
<1>5. \A p \in Owners : p # o => Untouched(p)
  BY <1>0, <1>1 DEF TypeOK, Untouched
<1>6. row.rangeID <= row'.rangeID /\ OneOwnerPerLease'
  BY <1>0, <1>1, <1>3, SMT DEF OneOwnerPerLease, TypeOK
<1>7. op'[o] = NoOp /\ Running(o)' /\ dbAck'[o] <= BlockEnd(rangeID[o])
  BY <1>0, <1>1, <1>2, RunningLevels DEF TypeOK, Running
<1>8. OwnerOK(o)'
  BY <1>0, <1>1, <1>7
     DEF OwnerOK, OpOK, UnloadedOK, LoadedOK, WriterOK, ReaderOK
<1> QED
  BY <1>3, <1>4, <1>5, <1>6, <1>8, OwnerStep

\* completeTask moves the ack level to a task that was loaded, or not at all.
LEMMA CompletedTask ==
    ASSUME LevelsInv, NEW o \in Owners, NEW e \in outstanding[o], completeTask(o, e)
    PROVE  LET marked == (outstanding[o] \ {e}) \cup {[e EXCEPT !.ph = "acked"]}
               prefix == AckedPrefix(marked)
           IN  \E level \in Nat :
                /\ level \in {ackLevel[o]} \cup {x.id : x \in prefix}
                /\ prefix # {} => level \in {x.id : x \in prefix}
                /\ \A x \in prefix : x.id <= level
                /\ ackLevel' = [ackLevel EXCEPT ![o] = level]
                /\ outstanding' = [outstanding EXCEPT ![o] = marked \ prefix]
                /\ CompleteTasksLessThan(level)
                /\ level <= readLevel[o]
                /\ marked \in SUBSET LoadedTask
                /\ \A x \in marked : x.id <= readLevel[o]
<1> DEFINE marked == (outstanding[o] \ {e}) \cup {[e EXCEPT !.ph = "acked"]}
           prefix == AckedPrefix(marked)
<1>0. TypeOK /\ OwnerOK(o) /\ Running(o)
  BY LoadedIsRunning DEF LevelsInv
<1>1. e \in LoadedTask /\ outstanding[o] \in SUBSET LoadedTask
  BY <1>0 DEF TypeOK
<1>2. [e EXCEPT !.ph = "acked"] \in LoadedTask /\ [e EXCEPT !.ph = "acked"].id = e.id
  BY <1>1 DEF LoadedTask, Phases
<1>3. marked \in SUBSET LoadedTask /\ \A x \in marked : x.id <= readLevel[o]
  BY <1>0, <1>1, <1>2 DEF OwnerOK, ReaderOK
<1>4. prefix \subseteq marked
  BY DEF AckedPrefix
<1>5. PICK level \in {ackLevel[o]} \cup {x.id : x \in prefix} :
        /\ prefix # {} => level \in {x.id : x \in prefix}
        /\ \A x \in prefix : x.id <= level
        /\ ackLevel' = [ackLevel EXCEPT ![o] = level]
        /\ outstanding' = [outstanding EXCEPT ![o] = marked \ prefix]
        /\ CompleteTasksLessThan(level)
  BY DEF completeTask
<1> HIDE DEF marked, prefix
<1>6. ackLevel[o] \in Nat /\ ackLevel[o] <= readLevel[o]
  BY <1>0, RunningLevels
<1>7. \A x \in prefix : x.id \in Nat /\ x.id <= readLevel[o]
  BY <1>3, <1>4 DEF LoadedTask
<1>8. level \in Nat /\ level <= readLevel[o]
  BY <1>5, <1>6, <1>7
<1> QED
  BY <1>3, <1>5, <1>8 DEF marked, prefix

\* completeTask acknowledges a task and moves the ack level over acked ones.
LEMMA completeTaskLevels ==
    ASSUME LevelsInv, NEW o \in Owners, NEW e \in outstanding[o], completeTask(o, e)
    PROVE  LevelsInv'
<1>0. TypeOK /\ RowOK /\ LateOK /\ OneOwnerPerLease /\ OwnerOK(o) /\ Running(o)
  BY LoadedIsRunning DEF LevelsInv
<1>1. PICK level \in Nat, out \in SUBSET LoadedTask :
        /\ level <= readLevel[o]
        /\ ackLevel' = [ackLevel EXCEPT ![o] = level]
        /\ outstanding' = [outstanding EXCEPT ![o] = out]
        /\ \A x \in out : x.id <= readLevel[o]
        /\ stored' \in SUBSET stored
  <2> DEFINE marked == (outstanding[o] \ {e}) \cup {[e EXCEPT !.ph = "acked"]}
             prefix == AckedPrefix(marked)
  <2>1. PICK level \in Nat :
            /\ ackLevel' = [ackLevel EXCEPT ![o] = level]
            /\ outstanding' = [outstanding EXCEPT ![o] = marked \ prefix]
            /\ CompleteTasksLessThan(level)
            /\ level <= readLevel[o]
            /\ marked \in SUBSET LoadedTask
            /\ \A x \in marked : x.id <= readLevel[o]
    BY CompletedTask
  <2> HIDE DEF marked, prefix
  <2>2. stored' \in SUBSET stored
    BY <2>1, CollectedRows
  <2>3. marked \ prefix \in SUBSET LoadedTask
    BY <2>1
  <2> QED
    BY <2>1, <2>2, <2>3
<1>2. UNCHANGED <<row, late, status, rangeID, dbAck, maxReadLevel, op, fatal, next,
                  appendCh, wtasks, pump, readTo, batch, signal, readLevel,
                  accepted, done, expired, faults>>
  BY DEF completeTask, dbVars, writerVars, envVars
<1>3. ackLevel'[o] = level /\ outstanding'[o] = out
  BY <1>0, <1>1 DEF TypeOK
<1>4. TypeOK'
  <2>1. /\ ackLevel' \in [Owners -> Nat \cup {-1}]
        /\ outstanding' \in [Owners -> SUBSET LoadedTask]
        /\ stored' \in SUBSET StoredTask
    BY <1>0, <1>1 DEF TypeOK
  <2> QED
    BY <1>0, <1>2, <2>1 DEF TypeOK
<1>5. RowOK' /\ LateOK' /\ OneOwnerPerLease' /\ row.rangeID <= row'.rangeID
  <2>1. RowOK'
    BY <1>0, <1>1, <1>2 DEF RowOK
  <2>2. LateOK'
    BY <1>0, <1>2 DEF LateOK, WriteOK
  <2>3. OneOwnerPerLease'
    BY <1>0, <1>2 DEF OneOwnerPerLease
  <2>4. row.rangeID \in Nat
    BY <1>0 DEF TypeOK
  <2> QED
    BY <1>2, <2>1, <2>2, <2>3, <2>4, SMT
<1>6. \A p \in Owners : p # o => Untouched(p)
  BY <1>0, <1>1, <1>2 DEF TypeOK, Untouched
<1>7. OpOK(o)' /\ UnloadedOK(o)' /\ WriterOK(o)'
  BY <1>0, <1>2 DEF OwnerOK, OpOK, WriteOK, UnloadedOK, WriterOK, Running
<1>8. LoadedOK(o)'
  <2>1. LoadedOK(o) /\ Running(o)
    BY <1>0 DEF OwnerOK
  <2>2. 0 <= level
    BY SMT
  <2> QED
    BY <1>1, <1>2, <1>3, <2>1, <2>2 DEF LoadedOK, Running
<1>9. ReaderOK(o)'
  BY <1>0, <1>1, <1>2, <1>3 DEF OwnerOK, ReaderOK
<1> QED
  BY <1>4, <1>5, <1>6, <1>7, <1>8, <1>9, OwnerStep DEF OwnerOK

\* A late write commits only under the rangeID it was conditioned on.
LEMMA LateCommitLevels ==
    ASSUME LevelsInv, NEW w \in late, LateCommit(w)
    PROVE  LevelsInv'
<1>0. TypeOK /\ LateOK /\ OneOwnerPerLease
  BY DEF LevelsInv
<1>1. /\ w \in Write /\ WriteOK(w)
      /\ \A s \in w.tasks : s.id <= BlockEnd(w.prev)
  BY <1>0 DEF LateOK, TypeOK
<1>2. /\ row' = Committed(w) /\ stored' = stored \cup w.tasks
      /\ late' \in SUBSET late /\ (w.kind = "lease" => late' = {})
      /\ lockTaskQueue(w)
      /\ UNCHANGED <<dbVars, writerVars, readerVars, envVars>>
  BY DEF LateCommit
<1> USE DEF dbVars, writerVars, readerVars, envVars
<1>3. /\ row' \in [rangeID : Nat, ackLevel : Nat]
      /\ stored' \in SUBSET StoredTask /\ late' \in SUBSET Write
      /\ RowOK' /\ LateOK' /\ row.rangeID <= row'.rangeID
  BY <1>1, <1>2, CommittedWrite
<1>4. TypeOK'
  BY <1>0, <1>2, <1>3 DEF TypeOK
<1>5. OneOwnerPerLease'
  <2>1. /\ row.rangeID \in Nat /\ row'.rangeID \in Nat
        /\ \A p \in Owners : rangeID[p] \in Nat /\ rangeID[p] <= row.rangeID
        /\ rangeID' = rangeID
    BY <1>0, <1>2, <1>3 DEF TypeOK, OneOwnerPerLease
  <2>2. \A p \in Owners : rangeID'[p] <= row'.rangeID
    BY <1>3, <2>1, SMT
  <2> QED
    BY <1>0, <2>1, <2>2 DEF OneOwnerPerLease
<1>6. ASSUME NEW p \in Owners PROVE OwnerOK(p)'
  <2>1. Untouched(p) /\ OwnerOK(p)
    BY <1>2 DEF Untouched, LevelsInv
  <2> QED
    BY <1>0, <1>3, <2>1, UntouchedOwner
<1> QED
  BY <1>3, <1>4, <1>5, <1>6 DEF LevelsInv

\* A step that changes no queue state.
LEMMA IdleLevels ==
    ASSUME LevelsInv, UNCHANGED <<storeVars, dbVars, writerVars, readerVars,
                                  accepted, done, faults>>,
           expired' \in SUBSET Tasks
    PROVE  LevelsInv'
<1> USE DEF storeVars, dbVars, writerVars, readerVars
<1>0. TypeOK /\ RowOK /\ LateOK /\ OneOwnerPerLease
  BY DEF LevelsInv
<1>1. TypeOK'
  BY <1>0 DEF TypeOK
<1>2. RowOK' /\ LateOK' /\ OneOwnerPerLease'
  BY <1>0 DEF RowOK, LateOK, WriteOK, OneOwnerPerLease
<1>3. ASSUME NEW p \in Owners PROVE OwnerOK(p)'
  <2>1. /\ row' \in [rangeID : Nat, ackLevel : Nat] /\ row.rangeID <= row'.rangeID
        /\ Untouched(p) /\ OwnerOK(p)
    BY <1>0, SMT DEF TypeOK, Untouched, LevelsInv
  <2> QED
    BY <1>0, <2>1, UntouchedOwner
<1> QED
  BY <1>1, <1>2, <1>3 DEF LevelsInv

\* Every step keeps the invariant.
LEMMA LevelsStep == LevelsInv /\ [Next]_vars => LevelsInv'
<1> SUFFICES ASSUME LevelsInv, [Next]_vars PROVE LevelsInv'
  OBVIOUS
<1>1. ASSUME NEW o \in Owners, NEW t \in Tasks, SpoolTask(o, t) PROVE LevelsInv'
  BY <1>1, SpoolTaskLevels
<1>2. ASSUME NEW o \in Owners,
             \/ Load(o) \/ takeOverTaskQueue(o)
             \/ LeaseGranted(o) \/ LeaseRefused(o) \/ LeaseError(o)
      PROVE  LevelsInv'
  BY <1>2, LoadLevels, takeOverLevels, LeaseGrantedLevels, LeaseRefusedLevels,
     LeaseErrorLevels
<1>3. ASSUME NEW o \in Owners,
             \/ assignTaskID(o) \/ allocTaskIDBlock(o) \/ appendTasks(o)
             \/ TasksCreated(o) \/ TasksRefused(o) \/ TasksError(o)
      PROVE  LevelsInv'
  BY <1>3, assignLevels, allocLevels, appendTasksLevels, TasksCreatedLevels,
     TasksRefusedLevels, TasksErrorLevels
<1>4. ASSUME NEW o \in Owners,
             \/ ReadBegin(o) \/ ReadSome(o) \/ ReadNone(o) \/ ReadError(o)
             \/ AddTask(o) \/ persistAck(o) \/ AckAnswered(o)
      PROVE  LevelsInv'
  BY <1>4, ReadBeginLevels, ReadSomeLevels, ReadNoneLevels, AddTaskLevels,
     persistAckLevels, AckAnsweredLevels
<1>5. ASSUME NEW o \in Owners, ProcessSpooledTask(o) PROVE LevelsInv'
  BY <1>5, ProcessLevels
<1>6. ASSUME NEW o \in Owners, NEW e \in outstanding[o],
             \/ RecordTaskStarted(o, e) \/ RecordTaskStartedError(o, e)
             \/ RewriteTask(o, e) \/ completeTask(o, e)
      PROVE  LevelsInv'
  BY <1>6, RecordLevels, RewriteLevels, completeTaskLevels
<1>7. ASSUME NEW o \in Owners,
             Stop(o) \/ FinalAnswered(o) \/ tqCtxCancel(o) \/ Crash(o)
      PROVE  LevelsInv'
  BY <1>7, StopLevels, FinalAnsweredLevels, UnloadLevels
<1>8. ASSUME NEW w \in late, LateCommit(w) PROVE LevelsInv'
  BY <1>8, LateCommitLevels
<1>9. ASSUME NEW t \in Tasks, Expire(t) PROVE LevelsInv'
  BY <1>9, IdleLevels DEF Expire, LevelsInv, TypeOK
<1>10. ASSUME UNCHANGED vars PROVE LevelsInv'
  BY <1>10, IdleLevels DEF vars, envVars, LevelsInv, TypeOK
<1> QED
  BY <1>1, <1>2, <1>3, <1>4, <1>5, <1>6, <1>7, <1>8, <1>9, <1>10 DEF Next

-----------------------------------------------------------------------------
(* The reader *)

\* The levels of an owner stay, and what it has loaded it had loaded before.
SameTasks(p) ==
    \A e \in outstanding'[p] : \E f \in outstanding[p] : f.id = e.id /\ f.data = e.data
SameReader(p) ==
    /\ batch'[p] = batch[p] /\ readLevel'[p] = readLevel[p]
    /\ ackLevel'[p] = ackLevel[p] /\ SameTasks(p)
ClearedReader(p) ==
    batch'[p] = {} /\ outstanding'[p] = {} /\ (~Running(p) \/ ~Running(p)')

\* Such a step, or one that forgets everything, keeps the order of the reader.
LEMMA ReaderFrame ==
    ASSUME NEW p \in Owners, ReaderFresh(p), SameReader(p) \/ ClearedReader(p)
    PROVE  ReaderFresh(p)'
<1>1. CASE SameReader(p)
  <2>1. UniqueIds(batch'[p]) /\ \A s \in batch'[p] : readLevel'[p] < s.id
    BY <1>1 DEF ReaderFresh, SameReader
  <2>2. \A e \in outstanding'[p] : ackLevel'[p] < e.id
    BY <1>1 DEF ReaderFresh, SameReader, SameTasks
  <2>3. ASSUME NEW e \in outstanding'[p], NEW f \in outstanding'[p], e.id = f.id
        PROVE  e.data = f.data
    <3>1. PICK x \in outstanding[p] : x.id = e.id /\ x.data = e.data
      BY <1>1 DEF SameReader, SameTasks
    <3>2. PICK y \in outstanding[p] : y.id = f.id /\ y.data = f.data
      BY <1>1 DEF SameReader, SameTasks
    <3> QED
      BY <2>3, <3>1, <3>2 DEF ReaderFresh
  <2> QED
    BY <2>1, <2>2, <2>3 DEF ReaderFresh, UniqueIds
<1>2. CASE ClearedReader(p)
  BY <1>2 DEF ReaderFresh, ClearedReader, UniqueIds
<1> QED
  BY <1>1, <1>2

\* Moving a task to another phase keeps its id and data.
LEMMA MovedSame ==
    ASSUME TypeOK, NEW o \in Owners, NEW e \in outstanding[o], NEW ph,
           MoveTask(o, e, ph)
    PROVE  \A p \in Owners : SameTasks(p)
<1>1. e \in LoadedTask /\ outstanding \in [Owners -> SUBSET LoadedTask]
  BY DEF TypeOK
<1>2. [e EXCEPT !.ph = ph].id = e.id /\ [e EXCEPT !.ph = ph].data = e.data
  BY <1>1 DEF LoadedTask
<1>3. outstanding'[o] = (outstanding[o] \ {e}) \cup {[e EXCEPT !.ph = ph]}
  BY <1>1 DEF MoveTask
<1>4. \A p \in Owners : p # o => outstanding'[p] = outstanding[p]
  BY <1>1 DEF MoveTask
<1>5. SameTasks(o)
  BY <1>2, <1>3 DEF SameTasks
<1> QED
  BY <1>4, <1>5 DEF SameTasks

\* So does the answer to a rewrite.
LEMMA RewrittenSame ==
    ASSUME TypeOK, NEW o \in Owners, NEW srcs, NEW ph \in Phases,
           outstanding' = RewritesBecome(o, srcs, ph)
    PROVE  \A p \in Owners : SameTasks(p)
<1>1. \A p \in Owners : p # o => outstanding'[p] = outstanding[p]
  BY RewrittenTasks, SMT
<1>2. SameTasks(o)
  BY RewrittenTasks, SMT DEF SameTasks
<1> QED
  BY <1>1, <1>2 DEF SameTasks

\* And so does the failure of a batch.
LEMMA FailedSame ==
    ASSUME TypeOK, NEW o \in Owners, NEW reqs, NEW mayRetry,
           FailBatch(o, reqs, mayRetry)
    PROVE  \A p \in Owners : SameTasks(p)
<1> DEFINE srcs == {r.src : r \in reqs} \ {0}
<1>1. PICK ph \in {"failed", "stuck"} : outstanding' = RewritesBecome(o, srcs, ph)
  BY DEF FailBatch
<1> HIDE DEF srcs
<1>2. ph \in Phases
  BY DEF Phases
<1> QED
  BY <1>1, <1>2, RewrittenSame

\* Forget clears one reader and leaves the others alone.
LEMMA ForgetReader ==
    ASSUME TypeOK, NEW o \in Owners, Forget(o), NEW p \in Owners
    PROVE  SameReader(p) \/ ClearedReader(p)
<1>1. CASE p = o
  BY <1>1 DEF Forget, TypeOK, ClearedReader, Running
<1>2. CASE p # o
  BY <1>2 DEF Forget, TypeOK, SameReader, SameTasks
<1> QED
  BY <1>1, <1>2

\* The steps that load nothing and move no level.
LEMMA OtherReaders ==
    ASSUME UNCHANGED <<batch, readLevel, ackLevel>>,
           \A p \in Owners : SameTasks(p)
    PROVE  \A p \in Owners : SameReader(p)
BY DEF SameReader

\* The same for steps that leave the loaded tasks as they are.
LEMMA SameReaders ==
    ASSUME UNCHANGED <<batch, readLevel, ackLevel, outstanding>>
    PROVE  \A p \in Owners : SameReader(p)
BY DEF SameReader, SameTasks

\* Every step either leaves a reader as it is, clears it, or is one of the four
\* that read, add or acknowledge.
ReaderShape(p) ==
    \/ SameReader(p) \/ ClearedReader(p)
    \/ ReadSome(p) \/ ReadNone(p) \/ AddTask(p)
    \/ \E e \in outstanding[p] : completeTask(p, e)

\* Steps that leave every reader as it is.
LEMMA QuietSteps ==
    ASSUME \/ \E o \in Owners :
                \/ Load(o) \/ takeOverTaskQueue(o)
                \/ assignTaskID(o) \/ allocTaskIDBlock(o) \/ appendTasks(o)
                \/ ReadBegin(o) \/ ReadError(o) \/ persistAck(o) \/ AckAnswered(o)
                \/ Stop(o) \/ FinalAnswered(o)
                \/ \E t \in Tasks : SpoolTask(o, t)
           \/ \E w \in late : LateCommit(w)
           \/ \E t \in Tasks : Expire(t)
           \/ UNCHANGED vars
    PROVE  UNCHANGED <<batch, readLevel, ackLevel, outstanding>>
<1> USE DEF readerVars
<1>1. ASSUME NEW o \in Owners, Load(o) \/ takeOverTaskQueue(o)
      PROVE  UNCHANGED <<batch, readLevel, ackLevel, outstanding>>
  BY <1>1 DEF Load, takeOverTaskQueue
<1>2. ASSUME NEW o \in Owners, assignTaskID(o) \/ allocTaskIDBlock(o) \/ appendTasks(o)
      PROVE  UNCHANGED <<batch, readLevel, ackLevel, outstanding>>
  BY <1>2 DEF assignTaskID, allocTaskIDBlock, appendTasks
<1>3. ASSUME NEW o \in Owners, ReadBegin(o) \/ ReadError(o)
      PROVE  UNCHANGED <<batch, readLevel, ackLevel, outstanding>>
  BY <1>3 DEF ReadBegin, ReadError
<1>4. ASSUME NEW o \in Owners, persistAck(o) \/ AckAnswered(o)
      PROVE  UNCHANGED <<batch, readLevel, ackLevel, outstanding>>
  BY <1>4 DEF persistAck, AckAnswered
<1>5. ASSUME NEW o \in Owners, Stop(o) \/ FinalAnswered(o)
      PROVE  UNCHANGED <<batch, readLevel, ackLevel, outstanding>>
  BY <1>5 DEF Stop, FinalAnswered
<1>6. ASSUME NEW o \in Owners, NEW t \in Tasks, SpoolTask(o, t)
      PROVE  UNCHANGED <<batch, readLevel, ackLevel, outstanding>>
  BY <1>6 DEF SpoolTask
<1>7. ASSUME NEW w \in late, LateCommit(w)
      PROVE  UNCHANGED <<batch, readLevel, ackLevel, outstanding>>
  BY <1>7 DEF LateCommit
<1>8. ASSUME NEW t \in Tasks, Expire(t)
      PROVE  UNCHANGED <<batch, readLevel, ackLevel, outstanding>>
  BY <1>8 DEF Expire
<1>9. ASSUME UNCHANGED vars
      PROVE  UNCHANGED <<batch, readLevel, ackLevel, outstanding>>
  BY <1>9 DEF vars
<1> QED
  BY <1>1, <1>2, <1>3, <1>4, <1>5, <1>6, <1>7, <1>8, <1>9

\* Steps that only change where loaded tasks are, and steps that unload.
LEMMA MovingSteps ==
    ASSUME TypeOK, NEW o \in Owners,
           \/ ProcessSpooledTask(o)
           \/ \E e \in outstanding[o] :
                \/ RecordTaskStarted(o, e) \/ RecordTaskStartedError(o, e)
                \/ RewriteTask(o, e)
           \/ TasksCreated(o) \/ TasksRefused(o) \/ TasksError(o)
    PROVE  \A p \in Owners : SameReader(p)
<1>1. CASE ProcessSpooledTask(o)
  <2>1. \E e \in outstanding[o], ph \in {"finished", "polled"} : MoveTask(o, e, ph)
    BY <1>1 DEF ProcessSpooledTask, Buffered
  <2>2. UNCHANGED <<batch, readLevel, ackLevel>>
    BY <1>1 DEF ProcessSpooledTask
  <2> QED
    BY <2>1, <2>2, MovedSame, OtherReaders
<1>2. ASSUME NEW e \in outstanding[o],
             \/ RecordTaskStarted(o, e) \/ RecordTaskStartedError(o, e)
             \/ RewriteTask(o, e)
      PROVE  \A p \in Owners : SameReader(p)
  <2>1. \E ph \in {"finished", "failed", "rewriting", "stuck"} : MoveTask(o, e, ph)
    BY <1>2 DEF RecordTaskStarted, RecordTaskStartedError, RewriteTask
  <2>2. UNCHANGED <<batch, readLevel, ackLevel>>
    BY <1>2 DEF RecordTaskStarted, RecordTaskStartedError, RewriteTask
  <2> QED
    BY <2>1, <2>2, MovedSame, OtherReaders
<1>3. CASE TasksCreated(o)
  <2>1. /\ outstanding' = RewritesBecome(o, Srcs(o), "finished")
        /\ UNCHANGED <<batch, readLevel, ackLevel>>
    BY <1>3 DEF TasksCreated
  <2>2. "finished" \in Phases
    BY DEF Phases
  <2> QED
    BY <2>1, <2>2, RewrittenSame, OtherReaders
<1>4. CASE TasksRefused(o) \/ TasksError(o)
  <2>1. /\ \E mayRetry \in BOOLEAN : FailBatch(o, wtasks[o], mayRetry)
        /\ UNCHANGED <<batch, readLevel, ackLevel>>
    BY <1>4 DEF TasksRefused, TasksError
  <2> QED
    BY <2>1, FailedSame, OtherReaders
<1> QED
  BY <1>1, <1>2, <1>3, <1>4

\* The answers to a lease.
LEMMA LeaseSteps ==
    ASSUME LevelsInv, NEW o \in Owners,
           LeaseGranted(o) \/ LeaseRefused(o) \/ LeaseError(o), NEW p \in Owners
    PROVE  SameReader(p) \/ ClearedReader(p)
<1>0. TypeOK /\ UnloadedOK(o)
  BY DEF LevelsInv, OwnerOK
<1>1. CASE LeaseGranted(o)
  <2>1. UNCHANGED <<batch, outstanding>>
    BY <1>1 DEF LeaseGranted
  <2>2. CASE status[o] = "loading" /\ p = o
    BY <1>0, <2>1, <2>2 DEF UnloadedOK, Running, ClearedReader
  <2>3. CASE status[o] # "loading" \/ p # o
    <3>1. readLevel'[p] = readLevel[p] /\ ackLevel'[p] = ackLevel[p]
      BY <1>0, <1>1, <2>3 DEF LeaseGranted, TypeOK
    <3> QED
      BY <2>1, <3>1 DEF SameReader, SameTasks
  <2> QED
    BY <2>2, <2>3
<1>2. CASE LeaseRefused(o)
  <2>1. \/ Forget(o)
        \/ /\ \E reqs : FailBatch(o, reqs, FALSE)
           /\ UNCHANGED <<batch, readLevel, ackLevel>>
    BY <1>2 DEF LeaseRefused, FailAlloc
  <2> QED
    BY <1>0, <2>1, ForgetReader, FailedSame, OtherReaders
<1>3. CASE LeaseError(o)
  <2>1. \/ Forget(o)
        \/ UNCHANGED readerVars
        \/ /\ \E reqs : FailBatch(o, reqs, TRUE)
           /\ UNCHANGED <<batch, readLevel, ackLevel>>
    BY <1>3 DEF LeaseError, FailAlloc
  <2>2. CASE UNCHANGED readerVars
    BY <2>2, SameReaders DEF readerVars
  <2> QED
    BY <1>0, <2>1, <2>2, ForgetReader, FailedSame, OtherReaders
<1> QED
  BY <1>1, <1>2, <1>3

\* The four steps of one reader leave the others alone.
LEMMA ReadingSteps ==
    ASSUME TypeOK, NEW o \in Owners, NEW p \in Owners, p # o,
           \/ ReadSome(o) \/ ReadNone(o) \/ AddTask(o)
           \/ \E e \in outstanding[o] : completeTask(o, e)
    PROVE  SameReader(p)
<1>1. ASSUME batch'[p] = batch[p], readLevel'[p] = readLevel[p],
             ackLevel'[p] = ackLevel[p], outstanding'[p] = outstanding[p]
      PROVE  SameReader(p)
  BY <1>1 DEF SameReader, SameTasks
<1>2. CASE ReadSome(o)
  BY <1>1, <1>2 DEF ReadSome, TypeOK
<1>3. CASE ReadNone(o)
  BY <1>1, <1>3 DEF ReadNone, TypeOK
<1>4. CASE AddTask(o)
  <2>1. PICK s \in batch[o] :
            /\ \/ UNCHANGED outstanding
               \/ outstanding' = [outstanding EXCEPT ![o] = @ \cup
                    {[id |-> s.id, data |-> s.data, ph |-> "buffered"]}]
            /\ readLevel' = [readLevel EXCEPT ![o] = s.id]
            /\ batch' = [batch EXCEPT ![o] = @ \ {s}]
    BY <1>4 DEF AddTask
  <2>2. UNCHANGED ackLevel
    BY <1>4 DEF AddTask
  <2>3. batch'[p] = batch[p] /\ readLevel'[p] = readLevel[p]
    BY <2>1 DEF TypeOK
  <2>4. outstanding'[p] = outstanding[p]
    BY <2>1 DEF TypeOK
  <2> QED
    BY <1>1, <2>2, <2>3, <2>4
<1>5. ASSUME NEW e \in outstanding[o], completeTask(o, e) PROVE SameReader(p)
  <2> DEFINE marked == (outstanding[o] \ {e}) \cup {[e EXCEPT !.ph = "acked"]}
             prefix == AckedPrefix(marked)
  <2>1. PICK level \in {ackLevel[o]} \cup {x.id : x \in prefix} :
            /\ ackLevel' = [ackLevel EXCEPT ![o] = level]
            /\ outstanding' = [outstanding EXCEPT ![o] = marked \ prefix]
    BY <1>5 DEF completeTask
  <2>2. UNCHANGED <<batch, readLevel>>
    BY <1>5 DEF completeTask
  <2> HIDE DEF marked
  <2>3. ackLevel'[p] = ackLevel[p] /\ outstanding'[p] = outstanding[p]
    BY <2>1 DEF TypeOK
  <2> QED
    BY <1>1, <2>2, <2>3
<1> QED
  BY <1>2, <1>3, <1>4, <1>5

\* Hence every step has the shape.
LEMMA ReaderShapes ==
    ASSUME LevelsInv, [Next]_vars, NEW p \in Owners PROVE ReaderShape(p)
<1>0. TypeOK
  BY DEF LevelsInv
<1> USE DEF ReaderShape
<1>1. CASE \/ \E o \in Owners :
                \/ Load(o) \/ takeOverTaskQueue(o)
                \/ assignTaskID(o) \/ allocTaskIDBlock(o) \/ appendTasks(o)
                \/ ReadBegin(o) \/ ReadError(o) \/ persistAck(o) \/ AckAnswered(o)
                \/ Stop(o) \/ FinalAnswered(o)
                \/ \E t \in Tasks : SpoolTask(o, t)
           \/ \E w \in late : LateCommit(w)
           \/ \E t \in Tasks : Expire(t)
           \/ UNCHANGED vars
  BY <1>1, QuietSteps, SameReaders
<1>2. ASSUME NEW o \in Owners,
             \/ ProcessSpooledTask(o)
             \/ \E e \in outstanding[o] :
                  \/ RecordTaskStarted(o, e) \/ RecordTaskStartedError(o, e)
                  \/ RewriteTask(o, e)
             \/ TasksCreated(o) \/ TasksRefused(o) \/ TasksError(o)
      PROVE  ReaderShape(p)
  BY <1>0, <1>2, MovingSteps
<1>3. ASSUME NEW o \in Owners, LeaseGranted(o) \/ LeaseRefused(o) \/ LeaseError(o)
      PROVE  ReaderShape(p)
  BY <1>3, LeaseSteps
<1>4. ASSUME NEW o \in Owners,
             \/ ReadSome(o) \/ ReadNone(o) \/ AddTask(o)
             \/ \E e \in outstanding[o] : completeTask(o, e)
      PROVE  ReaderShape(p)
  BY <1>0, <1>4, ReadingSteps
<1>5. ASSUME NEW o \in Owners, tqCtxCancel(o) \/ Crash(o) PROVE ReaderShape(p)
  BY <1>0, <1>5, ForgetReader DEF tqCtxCancel, Crash
<1> HIDE DEF ReaderShape
<1> QED
  BY <1>1, <1>2, <1>3, <1>4, <1>5 DEF Next

\* What ReadSome reads is stored, so has an id of its own, above the read level.
LEMMA ReadSomeFresh ==
    ASSUME LevelsInv, FreshInv, NEW o \in Owners, ReadSome(o)
    PROVE  ReaderFresh(o)'
<1>0. TypeOK /\ UniqueIds(stored) /\ ReaderFresh(o) /\ pump[o] = "reading"
  BY DEF LevelsInv, FreshInv, RowsFresh, ReadSome
<1>1. PICK k \in 1..RangesPerRead :
        batch' = [batch EXCEPT ![o] = FirstPage(InRanges(o, k))]
  BY DEF ReadSome
<1>2. UNCHANGED <<readLevel, ackLevel, outstanding>>
  BY DEF ReadSome
<1>3. batch'[o] = FirstPage(InRanges(o, k))
  BY <1>0, <1>1 DEF TypeOK
<1>4. \A s \in batch'[o] : s \in stored /\ readLevel[o] < s.id
  BY <1>3 DEF FirstPage, InRanges
<1>5. UniqueIds(batch'[o])
  BY <1>0, <1>4 DEF UniqueIds
<1>6. ReaderFresh(o)' <=> /\ UniqueIds(batch'[o])
                          /\ \A s \in batch'[o] : readLevel[o] < s.id
                          /\ \A e \in outstanding[o] : ackLevel[o] < e.id
                          /\ \A e, f \in outstanding[o] : e.id = f.id => e.data = f.data
  BY <1>2 DEF ReaderFresh, UniqueIds
<1> QED
  BY <1>0, <1>4, <1>5, <1>6 DEF ReaderFresh

\* setReadLevelAfterGap moves the ack level only if nothing is loaded.
LEMMA ReadNoneFresh ==
    ASSUME LevelsInv, FreshInv, NEW o \in Owners, ReadNone(o)
    PROVE  ReaderFresh(o)'
<1>0. TypeOK /\ ReaderOK(o) /\ ReaderFresh(o) /\ pump[o] = "reading"
  BY DEF LevelsInv, OwnerOK, FreshInv, ReadNone
<1>1. UNCHANGED <<batch, outstanding>> /\ batch[o] = {}
  BY <1>0 DEF ReadNone, ReaderOK
<1>2. ackLevel'[o] = ackLevel[o] \/ ackLevel[o] = readLevel[o]
  BY <1>0 DEF ReadNone, TypeOK
<1>3. ASSUME NEW e \in outstanding[o] PROVE ackLevel'[o] < e.id
  <2>1. e.id \in Nat /\ ackLevel[o] \in Int /\ readLevel[o] \in Int
    BY <1>0, SMT DEF TypeOK, LoadedTask
  <2>2. ackLevel[o] < e.id /\ e.id <= readLevel[o]
    BY <1>0 DEF ReaderFresh, ReaderOK
  <2>3. ackLevel[o] # readLevel[o]
    BY <2>1, <2>2, SMT
  <2> QED
    BY <1>2, <2>2, <2>3
<1> QED
  BY <1>0, <1>1, <1>3 DEF ReaderFresh, UniqueIds

\* addTask takes the lowest id of the batch: all that is loaded is below it, and
\* what remains in the batch is above it.
LEMMA AddTaskFresh ==
    ASSUME LevelsInv, FreshInv, NEW o \in Owners, AddTask(o)
    PROVE  ReaderFresh(o)'
<1>0. TypeOK /\ OwnerOK(o) /\ ReaderOK(o) /\ ReaderFresh(o) /\ Running(o)
  BY PumpIsRunning DEF LevelsInv, OwnerOK, FreshInv, AddTask
<1>1. PICK s \in batch[o] :
        /\ \A x \in batch[o] : s.id <= x.id
        /\ \/ UNCHANGED outstanding
           \/ outstanding' = [outstanding EXCEPT ![o] = @ \cup
                    {[id |-> s.id, data |-> s.data, ph |-> "buffered"]}]
        /\ readLevel' = [readLevel EXCEPT ![o] = s.id]
        /\ batch' = [batch EXCEPT ![o] = @ \ {s}]
  BY DEF AddTask
<1>2. UNCHANGED ackLevel
  BY DEF AddTask
<1>3. readLevel'[o] = s.id /\ batch'[o] = batch[o] \ {s}
  BY <1>0, <1>1 DEF TypeOK
<1>4. \A e \in outstanding'[o] :
        e \in outstanding[o] \/ (e.id = s.id /\ e.data = s.data)
  <2> DEFINE n == [id |-> s.id, data |-> s.data, ph |-> "buffered"]
  <2>1. n.id = s.id /\ n.data = s.data
    OBVIOUS
  <2>2. outstanding'[o] \in {outstanding[o], outstanding[o] \cup {n}}
    BY <1>0, <1>1 DEF TypeOK
  <2> HIDE DEF n
  <2> QED
    BY <2>1, <2>2
<1>t. /\ ackLevel[o] \in Nat /\ readLevel[o] \in Nat /\ ackLevel[o] <= readLevel[o]
      /\ \A x \in batch[o] : x.id \in Nat
  <2>1. batch[o] \in SUBSET StoredTask
    BY <1>0 DEF TypeOK
  <2> QED
    BY <1>0, <2>1, RunningLevels DEF StoredTask
<1>u. \A e \in outstanding[o] : e.id \in Nat
  <2>1. outstanding[o] \in SUBSET LoadedTask
    BY <1>0 DEF TypeOK
  <2> QED
    BY <2>1 DEF LoadedTask
<1>5. ackLevel[o] < s.id /\ readLevel[o] < s.id
  <2>1. readLevel[o] < s.id
    BY <1>0 DEF ReaderFresh
  <2> QED
    BY <1>t, <2>1, LevelOrder
<1>6. UniqueIds(batch'[o])
  BY <1>0, <1>3 DEF ReaderFresh, UniqueIds
<1>7. ASSUME NEW x \in batch'[o] PROVE readLevel'[o] < x.id
  <2>1. x \in batch[o] /\ x # s
    BY <1>3
  <2>2. s.id <= x.id /\ s.id # x.id
    BY <1>0, <1>1, <2>1 DEF ReaderFresh, UniqueIds
  <2>3. s.id < x.id
    BY <1>t, <2>1, <2>2, SMT
  <2> QED
    BY <1>3, <2>3
<1>8. \A e \in outstanding'[o] : ackLevel'[o] < e.id
  BY <1>0, <1>2, <1>4, <1>5 DEF ReaderFresh
<1>9. \A e \in outstanding[o] : e.id # s.id
  <2>1. \A e \in outstanding[o] : e.id <= readLevel[o]
    BY <1>0 DEF ReaderOK
  <2> QED
    BY <1>t, <1>u, <1>5, <2>1, LevelOrder
<1>10. \A e, f \in outstanding'[o] : e.id = f.id => e.data = f.data
  BY <1>0, <1>4, <1>9 DEF ReaderFresh
<1> QED
  BY <1>6, <1>7, <1>8, <1>10 DEF ReaderFresh, UniqueIds

\* completeTask moves the ack level over the acked tasks at the low end, which
\* it takes out, and over no other; and never back.
LEMMA AckedPrefixFresh ==
    ASSUME NEW S \in SUBSET LoadedTask, NEW a \in Int,
           \A x \in S : a < x.id,
           NEW level \in {a} \cup {x.id : x \in AckedPrefix(S)},
           AckedPrefix(S) # {} => level \in {x.id : x \in AckedPrefix(S)}
    PROVE  a <= level /\ \A y \in S \ AckedPrefix(S) : level < y.id
<1>1. \A x \in S : x.id \in Nat
  BY DEF LoadedTask
<1>2. AckedPrefix(S) \subseteq S
  BY DEF AckedPrefix
<1>3. CASE AckedPrefix(S) = {}
  <2>1. level = a
    BY <1>3
  <2> QED
    BY <1>3, <2>1, LevelOrder
<1>4. CASE AckedPrefix(S) # {}
  <2>1. PICK x \in AckedPrefix(S) : level = x.id
    BY <1>4
  <2>2. x \in S /\ x.id \in Nat /\ a < x.id /\ \A z \in S : z.ph # "acked" => x.id < z.id
    BY <1>1, <1>2, <2>1 DEF AckedPrefix
  <2>3. ASSUME NEW y \in S \ AckedPrefix(S) PROVE x.id < y.id
    <3>1. CASE y.ph # "acked"
      BY <2>2, <3>1
    <3>2. CASE y.ph = "acked"
      <4>1. PICK z \in S : z.ph # "acked" /\ ~(y.id < z.id)
        BY <2>3, <3>2 DEF AckedPrefix
      <4>2. x.id < z.id /\ z.id \in Nat /\ y.id \in Nat
        BY <1>1, <2>2, <4>1
      <4> QED
        BY <2>2, <4>1, <4>2, LevelOrder
    <3> QED
      BY <3>1, <3>2
  <2>4. a <= level
    BY <2>1, <2>2, LevelOrder
  <2> QED
    BY <2>1, <2>3, <2>4
<1> QED
  BY <1>3, <1>4

\* Hence what completeTask does to the reader.
LEMMA CompleteFresh ==
    ASSUME LevelsInv, FreshInv, NEW o \in Owners, NEW e \in outstanding[o],
           completeTask(o, e)
    PROVE  /\ ReaderFresh(o)' /\ ackLevel[o] <= ackLevel'[o]
           /\ SameTasks(o) /\ UNCHANGED <<batch, readLevel>>
<1> DEFINE marked == (outstanding[o] \ {e}) \cup {[e EXCEPT !.ph = "acked"]}
           prefix == AckedPrefix(marked)
<1>0. TypeOK /\ ReaderFresh(o) /\ UNCHANGED <<batch, readLevel>>
  BY DEF LevelsInv, FreshInv, completeTask
<1>1. PICK level \in {ackLevel[o]} \cup {x.id : x \in prefix} :
        /\ prefix # {} => level \in {x.id : x \in prefix}
        /\ ackLevel' = [ackLevel EXCEPT ![o] = level]
        /\ outstanding' = [outstanding EXCEPT ![o] = marked \ prefix]
  BY DEF completeTask
<1>2. ackLevel'[o] = level /\ outstanding'[o] = marked \ prefix
  BY <1>0, <1>1 DEF TypeOK
<1>3. e \in LoadedTask /\ outstanding[o] \in SUBSET LoadedTask
  BY <1>0 DEF TypeOK
<1>4. /\ [e EXCEPT !.ph = "acked"] \in LoadedTask
      /\ [e EXCEPT !.ph = "acked"].id = e.id /\ [e EXCEPT !.ph = "acked"].data = e.data
  BY <1>3 DEF LoadedTask, Phases
<1>5. \A x \in marked : \E f \in outstanding[o] : f.id = x.id /\ f.data = x.data
  BY <1>4
<1>6. marked \in SUBSET LoadedTask
  BY <1>3, <1>4
<1>7. ackLevel[o] \in Int /\ \A x \in marked : ackLevel[o] < x.id
  <2>1. \A x \in marked : ackLevel[o] < x.id
    BY <1>0, <1>5 DEF ReaderFresh
  <2>2. ackLevel[o] \in Nat \cup {-1}
    BY <1>0 DEF TypeOK
  <2> HIDE DEF marked
  <2> QED
    BY <2>1, <2>2, LevelOrder
<1> HIDE DEF marked
<1>8. ackLevel[o] <= level /\ \A y \in marked \ prefix : level < y.id
  BY <1>1, <1>6, <1>7, AckedPrefixFresh
<1>9. SameTasks(o)
  BY <1>2, <1>5 DEF SameTasks
<1>10. \A x, y \in outstanding'[o] : x.id = y.id => x.data = y.data
  <2> SUFFICES ASSUME NEW x \in outstanding'[o], NEW y \in outstanding'[o], x.id = y.id
               PROVE  x.data = y.data
    OBVIOUS
  <2>1. PICK f \in outstanding[o] : f.id = x.id /\ f.data = x.data
    BY <1>9 DEF SameTasks
  <2>2. PICK g \in outstanding[o] : g.id = y.id /\ g.data = y.data
    BY <1>9 DEF SameTasks
  <2> QED
    BY <1>0, <2>1, <2>2 DEF ReaderFresh
<1>11. UniqueIds(batch'[o]) /\ \A s \in batch'[o] : readLevel'[o] < s.id
  BY <1>0 DEF ReaderFresh
<1>12. \A x \in outstanding'[o] : ackLevel'[o] < x.id
  BY <1>2, <1>8
<1>13. ReaderFresh(o)'
  BY <1>10, <1>11, <1>12 DEF ReaderFresh, UniqueIds
<1> QED
  BY <1>0, <1>2, <1>8, <1>9, <1>13

\* Every step keeps the order in every reader.
LEMMA ReaderFreshStep ==
    ASSUME LevelsInv, FreshInv, [Next]_vars, NEW p \in Owners
    PROVE  ReaderFresh(p)'
<1>1. ReaderFresh(p)
  BY DEF FreshInv
<1>2. ReaderShape(p)
  BY ReaderShapes
<1> QED
  BY <1>1, <1>2, ReaderFrame, ReadSomeFresh, ReadNoneFresh, AddTaskFresh,
     CompleteFresh DEF ReaderShape

-----------------------------------------------------------------------------
(* The ack levels *)

\* What a step does to the ack levels an owner knows.
AckKept(p) ==
    /\ Running(p) /\ ackLevel[p] <= ackLevel'[p] /\ dbAck'[p] = dbAck[p]
    /\ op'[p] = op[p] \/ op'[p] = NoOp
AckIssued(p) ==
    /\ Running(p) /\ ackLevel'[p] = ackLevel[p] /\ dbAck'[p] = dbAck[p]
    /\ op'[p].ack \in {ackLevel[p], dbAck[p], 0}
AckStored(p) ==
    /\ Running(p) /\ ackLevel'[p] = ackLevel[p]
    /\ op[p] # NoOp /\ dbAck'[p] = op[p].ack /\ op'[p] = NoOp
AckLoaded(p) ==
    /\ ~Running(p) /\ dbAck'[p] = ackLevel'[p] /\ op'[p] = NoOp
    /\ ackLevel'[p] = row'.ackLevel /\ readLevel'[p] = row'.ackLevel
AckShape(p) ==
    \/ status'[p] = "off" \/ (~Running(p) /\ ~Running(p)')
    \/ AckKept(p) \/ AckIssued(p) \/ AckStored(p) \/ AckLoaded(p)

\* Each of these keeps the persisted ack levels below the ack level in memory.
LEMMA AckFrame ==
    ASSUME LevelsInv, LevelsInv', NEW p \in Owners, AckFresh(p), AckShape(p)
    PROVE  AckFresh(p)'
<1> SUFFICES ASSUME Running(p)'
             PROVE  dbAck'[p] <= ackLevel'[p] /\ (op'[p] # NoOp => op'[p].ack <= ackLevel'[p])
  BY DEF AckFresh
<1>1. TypeOK' /\ OwnerOK(p)' /\ TypeOK /\ OwnerOK(p)
  BY DEF LevelsInv
<1>2. dbAck'[p] \in Nat /\ ackLevel'[p] \in Int /\ 0 <= ackLevel'[p]
  BY <1>1, SMT DEF TypeOK, OwnerOK, LoadedOK
<1>3. dbAck[p] \in Nat /\ (op[p] # NoOp => op[p].ack \in Nat)
  BY <1>1 DEF TypeOK, Write
<1>4. Running(p) => ackLevel[p] \in Nat /\ dbAck[p] <= ackLevel[p]
  BY <1>1, RunningLevels DEF AckFresh
<1>5. CASE AckKept(p)
  <2>1. /\ Running(p) /\ ackLevel[p] <= ackLevel'[p] /\ dbAck'[p] = dbAck[p]
        /\ op'[p] = op[p] \/ op'[p] = NoOp
    BY <1>5 DEF AckKept
  <2>2. op[p] # NoOp => op[p].ack <= ackLevel[p]
    BY <2>1 DEF AckFresh
  <2> QED
    BY <1>2, <1>3, <1>4, <2>1, <2>2, LevelOrder
<1>6. CASE AckIssued(p)
  <2>1. /\ Running(p) /\ ackLevel'[p] = ackLevel[p] /\ dbAck'[p] = dbAck[p]
        /\ op'[p].ack \in {ackLevel[p], dbAck[p], 0}
    BY <1>6 DEF AckIssued
  <2> QED
    BY <1>2, <1>4, <2>1, LevelOrder
<1>7. CASE AckStored(p)
  <2>1. /\ Running(p) /\ ackLevel'[p] = ackLevel[p] /\ op[p] # NoOp
        /\ dbAck'[p] = op[p].ack /\ op'[p] = NoOp
    BY <1>7 DEF AckStored
  <2> QED
    BY <2>1 DEF AckFresh
<1>8. CASE AckLoaded(p)
  BY <1>2, <1>8, SMT DEF AckLoaded
<1> QED
  BY <1>5, <1>6, <1>7, <1>8 DEF AckShape, Running

\* Nothing of it changes, or the write is over.
LEMMA AckQuiet ==
    ASSUME TypeOK, NEW o \in Owners, UNCHANGED <<status, dbAck, ackLevel>>,
           op' = op \/ op' = [op EXCEPT ![o] = NoOp], NEW p \in Owners
    PROVE  AckShape(p)
<1>1. status'[p] = status[p] /\ dbAck'[p] = dbAck[p] /\ ackLevel'[p] = ackLevel[p]
  OBVIOUS
<1>2. op'[p] = op[p] \/ op'[p] = NoOp
  BY DEF TypeOK
<1>3. ackLevel[p] \in Int
  BY SMT DEF TypeOK
<1>4. ackLevel[p] <= ackLevel'[p]
  BY <1>1, <1>3, SMT
<1> QED
  BY <1>1, <1>2, <1>4 DEF AckShape, AckKept, Running

\* The steps of which this is so.
LEMMA AckQuietSteps ==
    ASSUME LevelsInv, NEW o \in Owners, NEW p \in Owners,
           \/ \E t \in Tasks : SpoolTask(o, t)
           \/ assignTaskID(o) \/ ReadBegin(o) \/ ReadSome(o) \/ ReadError(o)
           \/ AddTask(o) \/ ProcessSpooledTask(o)
           \/ \E e \in outstanding[o] :
                \/ RecordTaskStarted(o, e) \/ RecordTaskStartedError(o, e)
                \/ RewriteTask(o, e)
           \/ TasksCreated(o) \/ TasksRefused(o) \/ TasksError(o)
           \/ \E w \in late : LateCommit(w)
           \/ \E t \in Tasks : Expire(t)
           \/ UNCHANGED vars
    PROVE  AckShape(p)
<1> DEFINE Q == /\ UNCHANGED <<status, dbAck, ackLevel>>
                /\ op' = op \/ op' = [op EXCEPT ![o] = NoOp]
<1> USE DEF dbVars, readerVars
<1>1. ASSUME NEW t \in Tasks, SpoolTask(o, t) PROVE Q
  BY <1>1 DEF SpoolTask
<1>2. ASSUME assignTaskID(o) \/ ReadBegin(o) PROVE Q
  BY <1>2 DEF assignTaskID, ReadBegin
<1>3. ASSUME ReadSome(o) \/ ReadError(o) PROVE Q
  BY <1>3 DEF ReadSome, ReadError
<1>4. ASSUME AddTask(o) \/ ProcessSpooledTask(o) PROVE Q
  BY <1>4 DEF AddTask, ProcessSpooledTask
<1>5. ASSUME NEW e \in outstanding[o],
             \/ RecordTaskStarted(o, e) \/ RecordTaskStartedError(o, e)
             \/ RewriteTask(o, e)
      PROVE  Q
  BY <1>5 DEF RecordTaskStarted, RecordTaskStartedError, RewriteTask
<1>6. ASSUME TasksCreated(o) \/ TasksRefused(o) \/ TasksError(o) PROVE Q
  BY <1>6 DEF TasksCreated, TasksRefused, TasksError
<1>7. ASSUME NEW w \in late, LateCommit(w) PROVE Q
  BY <1>7 DEF LateCommit
<1>8. ASSUME NEW t \in Tasks, Expire(t) PROVE Q
  BY <1>8 DEF Expire
<1>9. ASSUME UNCHANGED vars PROVE Q
  BY <1>9 DEF vars
<1>10. Q => AckShape(p)
  <2>1. TypeOK
    BY DEF LevelsInv
  <2> QED
    BY <2>1, AckQuiet
<1> QED
  BY <1>1, <1>2, <1>3, <1>4, <1>5, <1>6, <1>7, <1>8, <1>9, <1>10

\* Forget leaves nothing running.
LEMMA AckForget ==
    ASSUME TypeOK, NEW o \in Owners, Forget(o), NEW p \in Owners
    PROVE  AckShape(p)
<1>1. CASE p = o
  <2>1. status'[p] = "off"
    BY <1>1 DEF Forget, TypeOK
  <2> QED
    BY <2>1 DEF AckShape, Running
<1>2. CASE p # o
  <2>1. /\ status'[p] = status[p] /\ dbAck'[p] = dbAck[p]
        /\ ackLevel'[p] = ackLevel[p] /\ op'[p] = op[p]
    BY <1>2 DEF Forget, TypeOK
  <2>2. ackLevel[p] \in Int
    BY SMT DEF TypeOK
  <2>3. ackLevel[p] <= ackLevel'[p]
    BY <2>1, <2>2, SMT
  <2> QED
    BY <2>1, <2>3 DEF AckShape, AckKept, Running
<1> QED
  BY <1>1, <1>2

\* An owner that takes no part.
LEMMA AckOther ==
    ASSUME TypeOK, NEW p \in Owners,
           status'[p] = status[p] /\ dbAck'[p] = dbAck[p],
           ackLevel'[p] = ackLevel[p] /\ op'[p] = op[p]
    PROVE  AckShape(p)
<1>1. ackLevel[p] \in Int
  BY SMT DEF TypeOK
<1>2. ackLevel[p] <= ackLevel'[p]
  BY <1>1, SMT
<1> QED
  BY <1>2 DEF AckShape, AckKept, Running

\* The steps that issue a write take the ack level from memory.
LEMMA AckIssueSteps ==
    ASSUME LevelsInv, NEW o \in Owners, NEW p \in Owners,
           \/ Load(o) \/ takeOverTaskQueue(o) \/ allocTaskIDBlock(o)
           \/ appendTasks(o) \/ persistAck(o) \/ Stop(o)
    PROVE  AckShape(p)
<1>0. TypeOK
  BY DEF LevelsInv
<1> USE DEF readerVars
<1>1. CASE p # o
  <2>1. status'[p] = status[p] /\ dbAck'[p] = dbAck[p]
    BY <1>0, <1>1
    DEF Load, takeOverTaskQueue, allocTaskIDBlock, appendTasks, persistAck, Stop, TypeOK
  <2>2. ackLevel'[p] = ackLevel[p] /\ op'[p] = op[p]
    BY <1>0, <1>1
    DEF Load, takeOverTaskQueue, allocTaskIDBlock, appendTasks, persistAck, Stop, TypeOK
  <2> QED
    BY <1>0, <2>1, <2>2, AckOther
<1>2. CASE p = o /\ (Load(o) \/ takeOverTaskQueue(o))
  <2>1. status'[p] = "loading" /\ status[p] \in {"off", "loading"}
    BY <1>0, <1>2 DEF Load, takeOverTaskQueue, TypeOK
  <2> QED
    BY <2>1 DEF AckShape, Running
<1>3. CASE p = o /\ allocTaskIDBlock(o)
  <2>1. Running(p) /\ ackLevel'[p] = ackLevel[p] /\ dbAck'[p] = dbAck[p]
    BY <1>3 DEF allocTaskIDBlock
  <2>2. op'[o] = LeaseWrite(rangeID[o], dbAck[o])
    BY <1>0, <1>3 DEF allocTaskIDBlock, TypeOK
  <2>3. op'[o].ack = dbAck[o]
    BY <2>2, SMT DEF LeaseWrite
  <2> QED
    BY <1>3, <2>1, <2>3 DEF AckShape, AckIssued
<1>4. CASE p = o /\ appendTasks(o)
  <2>1. Running(p) /\ ackLevel'[p] = ackLevel[p] /\ dbAck'[p] = dbAck[p]
    BY <1>4 DEF appendTasks
  <2>2. op'[p].ack = 0
    BY <1>0, <1>4 DEF appendTasks, TypeOK, TasksWrite
  <2> QED
    BY <2>1, <2>2 DEF AckShape, AckIssued
<1>5. CASE p = o /\ persistAck(o)
  <2>1. Running(p) /\ ackLevel'[p] = ackLevel[p] /\ dbAck'[p] = dbAck[p]
    BY <1>5 DEF persistAck
  <2>2. op'[o] = AckWrite("ack", rangeID[o], ackLevel[o])
    BY <1>0, <1>5 DEF persistAck, TypeOK
  <2>3. op'[o].ack = ackLevel[o]
    BY <2>2, SMT DEF AckWrite
  <2> QED
    BY <1>5, <2>1, <2>3 DEF AckShape, AckIssued
<1>6. CASE p = o /\ Stop(o)
  <2>1. Running(p) /\ ackLevel'[p] = ackLevel[p] /\ dbAck'[p] = dbAck[p]
    BY <1>6 DEF Stop, Running
  <2>2. op'[o] = op[o] \/ op'[o] = AckWrite("final", rangeID[o], ackLevel[o])
    BY <1>0, <1>6 DEF Stop, TypeOK
  <2>3. op'[o] = op[o] \/ op'[o].ack = ackLevel[o]
    BY <2>2, SMT DEF AckWrite
  <2>4. ackLevel[p] \in Int
    BY <1>0, SMT DEF TypeOK
  <2>5. ackLevel[p] <= ackLevel'[p]
    BY <2>1, <2>4, SMT
  <2> QED
    BY <1>6, <2>1, <2>3, <2>5 DEF AckShape, AckIssued, AckKept
<1> QED
  BY <1>1, <1>2, <1>3, <1>4, <1>5, <1>6

\* The steps that answer a write.
LEMMA AckAnswerSteps ==
    ASSUME LevelsInv, NEW o \in Owners, NEW p \in Owners,
           \/ LeaseGranted(o) \/ LeaseRefused(o) \/ LeaseError(o)
           \/ AckAnswered(o) \/ FinalAnswered(o)
    PROVE  AckShape(p)
<1>0. TypeOK
  BY DEF LevelsInv
<1> USE DEF readerVars
<1>1. CASE LeaseGranted(o)
  <2>1. op' = [op EXCEPT ![o] = NoOp]
    BY <1>1 DEF LeaseGranted
  <2>2. CASE UNCHANGED <<status, dbAck, ackLevel>>
    BY <1>0, <2>1, <2>2, AckQuiet
  <2>3. CASE /\ status' = [status EXCEPT ![o] = "on"]
             /\ dbAck' = [dbAck EXCEPT ![o] = op[o].ack]
             /\ ackLevel' = [ackLevel EXCEPT ![o] = op[o].ack]
             /\ readLevel' = [readLevel EXCEPT ![o] = op[o].ack]
             /\ status[o] = "loading"
    <3>1. CASE p # o
      BY <1>0, <2>1, <2>3, <3>1, AckOther DEF TypeOK
    <3>2. CASE p = o
      <4>1. row'.ackLevel = op[o].ack
        BY <1>1 DEF LeaseGranted, Commit, Committed
      <4> QED
        BY <1>0, <2>1, <2>3, <3>2, <4>1
           DEF TypeOK, AckShape, AckLoaded, Running
    <3> QED
      BY <3>1, <3>2
  <2> QED
    BY <1>1, <2>2, <2>3 DEF LeaseGranted
<1>2. CASE LeaseRefused(o) \/ LeaseError(o)
  <2>1. \/ Forget(o)
        \/ /\ UNCHANGED <<status, dbAck, ackLevel>>
           /\ op' = [op EXCEPT ![o] = NoOp]
    BY <1>2 DEF LeaseRefused, LeaseError
  <2> QED
    BY <1>0, <2>1, AckForget, AckQuiet
<1>3. CASE AckAnswered(o) \/ FinalAnswered(o)
  <2>1. /\ op' = [op EXCEPT ![o] = NoOp] /\ UNCHANGED ackLevel
        /\ dbAck' = dbAck \/ dbAck' = [dbAck EXCEPT ![o] = op[o].ack]
        /\ status' = status \/ status' = [status EXCEPT ![o] = "closing"]
        /\ op[o].kind \in {"ack", "final"}
    BY <1>3 DEF AckAnswered, FinalAnswered
  <2>2. Running(o) /\ op[o] # NoOp
    BY <2>1, OpKinds
  <2>3. CASE p # o
    <3>1. status'[p] = status[p] /\ dbAck'[p] = dbAck[p]
      BY <1>0, <2>1, <2>3 DEF TypeOK
    <3>2. ackLevel'[p] = ackLevel[p] /\ op'[p] = op[p]
      BY <1>0, <2>1, <2>3 DEF TypeOK
    <3> QED
      BY <1>0, <3>1, <3>2, AckOther
  <2>4. CASE p = o
    <3>1. ackLevel'[p] = ackLevel[p] /\ op'[p] = NoOp
      BY <1>0, <2>1, <2>4 DEF TypeOK
    <3>2. dbAck'[p] = dbAck[p] \/ dbAck'[p] = op[p].ack
      BY <1>0, <2>1, <2>4 DEF TypeOK
    <3>3. ackLevel[p] \in Int
      BY <1>0, SMT DEF TypeOK
    <3>4. ackLevel[p] <= ackLevel'[p]
      BY <3>1, <3>3, SMT
    <3> QED
      BY <2>2, <2>4, <3>1, <3>2, <3>4 DEF AckShape, AckKept, AckStored
  <2> QED
    BY <2>3, <2>4
<1> QED
  BY <1>1, <1>2, <1>3

\* The steps that move the ack level move it up.
LEMMA AckMoveSteps ==
    ASSUME LevelsInv, FreshInv, NEW o \in Owners, NEW p \in Owners,
           ReadNone(o) \/ \E e \in outstanding[o] : completeTask(o, e)
    PROVE  AckShape(p)
<1>0. TypeOK
  BY DEF LevelsInv
<1>1. UNCHANGED dbVars
  BY DEF ReadNone, completeTask
<1>2. ackLevel[o] <= ackLevel'[o]
  BY ReadNoneLevels, CompleteFresh
<1>3. p # o => ackLevel'[p] = ackLevel[p]
  BY <1>0 DEF ReadNone, completeTask, TypeOK
<1>4. CASE p # o
  BY <1>0, <1>1, <1>3, <1>4, AckOther DEF dbVars
<1>5. CASE p = o
  BY <1>1, <1>2, <1>5 DEF dbVars, AckShape, AckKept, Running
<1> QED
  BY <1>4, <1>5

\* Every step has one of these shapes.
LEMMA AckShapes ==
    ASSUME LevelsInv, FreshInv, [Next]_vars, NEW p \in Owners
    PROVE  AckShape(p)
<1>0. TypeOK
  BY DEF LevelsInv
<1>1. ASSUME NEW o \in Owners,
           \/ \E t \in Tasks : SpoolTask(o, t)
           \/ assignTaskID(o) \/ ReadBegin(o) \/ ReadSome(o) \/ ReadError(o)
           \/ AddTask(o) \/ ProcessSpooledTask(o)
           \/ \E e \in outstanding[o] :
                \/ RecordTaskStarted(o, e) \/ RecordTaskStartedError(o, e)
                \/ RewriteTask(o, e)
           \/ TasksCreated(o) \/ TasksRefused(o) \/ TasksError(o)
      PROVE  AckShape(p)
  BY <1>1, AckQuietSteps
<1>2. ASSUME \/ \E w \in late : LateCommit(w)
             \/ \E t \in Tasks : Expire(t)
             \/ UNCHANGED vars
      PROVE  AckShape(p)
  BY <1>2, AckQuietSteps
<1>3. ASSUME NEW o \in Owners,
             \/ Load(o) \/ takeOverTaskQueue(o) \/ allocTaskIDBlock(o)
             \/ appendTasks(o) \/ persistAck(o) \/ Stop(o)
      PROVE  AckShape(p)
  BY <1>3, AckIssueSteps
<1>4. ASSUME NEW o \in Owners,
             \/ LeaseGranted(o) \/ LeaseRefused(o) \/ LeaseError(o)
             \/ AckAnswered(o) \/ FinalAnswered(o)
      PROVE  AckShape(p)
  BY <1>4, AckAnswerSteps
<1>5. ASSUME NEW o \in Owners,
             ReadNone(o) \/ \E e \in outstanding[o] : completeTask(o, e)
      PROVE  AckShape(p)
  BY <1>5, AckMoveSteps
<1>6. ASSUME NEW o \in Owners, tqCtxCancel(o) \/ Crash(o) PROVE AckShape(p)
  BY <1>0, <1>6, AckForget DEF tqCtxCancel, Crash
<1> QED
  BY <1>1, <1>2, <1>3, <1>4, <1>5, <1>6 DEF Next

\* Hence the persisted ack levels stay below those in memory.
LEMMA AckFreshStep ==
    ASSUME LevelsInv, LevelsInv', FreshInv, [Next]_vars, NEW p \in Owners
    PROVE  AckFresh(p)'
<1>1. AckFresh(p)
  BY DEF FreshInv
<1> QED
  BY <1>1, AckShapes, AckFrame

\* And the ack level of an owner that stays loaded never moves back.
LEMMA AckMovesUp ==
    ASSUME LevelsInv, LevelsInv', FreshInv, [Next]_vars, NEW p \in Owners,
           status[p] # "off", status'[p] # "off"
    PROVE  ackLevel'[p] >= ackLevel[p]
<1>1. AckShape(p)
  BY AckShapes
<1>2. TypeOK /\ TypeOK' /\ UnloadedOK(p)
  BY DEF LevelsInv, OwnerOK
<1>3. ackLevel[p] \in Nat \cup {-1} /\ ackLevel'[p] \in Nat \cup {-1}
  BY <1>2 DEF TypeOK
<1>4. \/ ~Running(p) \/ ackLevel[p] <= ackLevel'[p] \/ ackLevel'[p] = ackLevel[p]
  BY <1>1 DEF AckShape, AckKept, AckIssued, AckStored, AckLoaded
<1>5. ~Running(p) => ackLevel[p] = -1
  BY <1>2 DEF UnloadedOK
<1> QED
  BY <1>3, <1>4, <1>5, SMT

-----------------------------------------------------------------------------
(* Loaded tasks stay in hand *)

\* A loaded task that is owed stays in hand until a rewrite of it is stored.
Rewritten(p, i) == TasksCreated(p) /\ \E r \in wtasks[p] : r.src = i /\ r.src # 0
KeepsHand(p) ==
    \A e \in outstanding[p] : e.ph \in InHand /\ e.data \in Owed' =>
        \/ \E f \in outstanding'[p] : f.id = e.id /\ f.data = e.data /\ f.ph \in InHand
        \/ Rewritten(p, e.id)

\* What is owed has not been started and has not expired.
LEMMA OwedTask ==
    ASSUME NEW t \in Owed' PROVE t \in accepted' /\ t \notin done' /\ t \notin expired'
BY DEF Owed

\* A task that moves to a phase in hand, or that is not owed any more.
LEMMA MovedInHand ==
    ASSUME TypeOK, NEW o \in Owners, NEW e \in outstanding[o], NEW ph,
           MoveTask(o, e, ph), ph \in InHand \/ e.data \notin Owed', NEW p \in Owners
    PROVE  KeepsHand(p)
<1>1. e \in LoadedTask /\ outstanding \in [Owners -> SUBSET LoadedTask]
  BY DEF TypeOK
<1> DEFINE n == [e EXCEPT !.ph = ph]
<1>2. n.id = e.id /\ n.data = e.data /\ n.ph = ph
  BY <1>1 DEF LoadedTask
<1>3. outstanding'[o] = (outstanding[o] \ {e}) \cup {n}
  BY <1>1 DEF MoveTask
<1>4. p # o => outstanding'[p] = outstanding[p]
  BY <1>1 DEF MoveTask
<1> HIDE DEF n
<1>5. CASE p = o
  <2> SUFFICES ASSUME NEW x \in outstanding[o], x.ph \in InHand, x.data \in Owed'
               PROVE  \E f \in outstanding'[o] :
                        f.id = x.id /\ f.data = x.data /\ f.ph \in InHand
    BY <1>5 DEF KeepsHand
  <2>1. CASE x # e
    BY <1>3, <2>1
  <2>2. CASE x = e
    BY <1>2, <1>3, <2>2
  <2> QED
    BY <2>1, <2>2
<1>6. CASE p # o
  BY <1>4, <1>6 DEF KeepsHand
<1> QED
  BY <1>5, <1>6

\* A failed rewrite leaves its task in hand.
LEMMA FailedInHand ==
    ASSUME TypeOK, NEW o \in Owners, NEW reqs, NEW mayRetry,
           FailBatch(o, reqs, mayRetry), NEW p \in Owners
    PROVE  KeepsHand(p)
<1> DEFINE srcs == {r.src : r \in reqs} \ {0}
<1>1. PICK ph \in {"failed", "stuck"} : outstanding' = RewritesBecome(o, srcs, ph)
  BY DEF FailBatch
<1> HIDE DEF srcs
<1>2. ph \in InHand
  BY DEF InHand, Phases
<1>3. outstanding \in [Owners -> SUBSET LoadedTask]
  BY DEF TypeOK
<1>4. CASE p = o
  <2> DEFINE Become(e) == IF e.ph = "rewriting" /\ e.id \in srcs
                          THEN [e EXCEPT !.ph = ph] ELSE e
  <2>1. outstanding'[o] = {Become(e) : e \in outstanding[o]}
    BY <1>1, <1>3 DEF RewritesBecome
  <2>2. ASSUME NEW e \in outstanding[o]
        PROVE  /\ Become(e).id = e.id /\ Become(e).data = e.data
               /\ Become(e).ph \in {e.ph, ph}
    <3>1. e \in LoadedTask
      BY <1>3
    <3> QED
      BY <3>1 DEF LoadedTask
  <2> HIDE DEF Become
  <2>3. \A e \in outstanding[o] : Become(e) \in outstanding'[o]
    BY <2>1
  <2> QED
    BY <1>2, <1>4, <2>2, <2>3 DEF KeepsHand
<1>5. CASE p # o
  <2>1. outstanding'[p] = outstanding[p]
    BY <1>1, <1>3, <1>5 DEF RewritesBecome
  <2> QED
    BY <2>1 DEF KeepsHand
<1> QED
  BY <1>4, <1>5

\* A rewrite that is stored finishes its task.
LEMMA CreatedInHand ==
    ASSUME TypeOK, NEW o \in Owners, TasksCreated(o), NEW p \in Owners
    PROVE  KeepsHand(p)
<1>1. outstanding' = RewritesBecome(o, Srcs(o), "finished")
  BY DEF TasksCreated
<1>2. outstanding \in [Owners -> SUBSET LoadedTask]
  BY DEF TypeOK
<1>3. CASE p = o
  <2> DEFINE Become(e) == IF e.ph = "rewriting" /\ e.id \in Srcs(o)
                          THEN [e EXCEPT !.ph = "finished"] ELSE e
  <2>1. outstanding'[o] = {Become(e) : e \in outstanding[o]}
    BY <1>1, <1>2 DEF RewritesBecome
  <2>2. \A e \in outstanding[o] : e.id \in Srcs(o) \/ Become(e) = e
    OBVIOUS
  <2> HIDE DEF Become
  <2>3. \A e \in outstanding[o] : Become(e) \in outstanding'[o]
    BY <2>1
  <2>4. \A i \in Srcs(o) : \E r \in wtasks[o] : r.src = i /\ r.src # 0
    BY DEF Srcs
  <2>5. ASSUME NEW e \in outstanding[o], e.id \in Srcs(o) PROVE Rewritten(o, e.id)
    BY <2>4, <2>5 DEF Rewritten
  <2> QED
    BY <1>3, <2>2, <2>3, <2>5 DEF KeepsHand
<1>4. CASE p # o
  <2>1. outstanding'[p] = outstanding[p]
    BY <1>1, <1>2, <1>4 DEF RewritesBecome
  <2> QED
    BY <2>1 DEF KeepsHand
<1> QED
  BY <1>3, <1>4

\* The steps that move loaded tasks.
LEMMA MovingInHand ==
    ASSUME LevelsInv, NEW o \in Owners,
           \/ ProcessSpooledTask(o)
           \/ \E e \in outstanding[o] :
                \/ RecordTaskStarted(o, e) \/ RecordTaskStartedError(o, e)
                \/ RewriteTask(o, e)
           \/ TasksCreated(o) \/ TasksRefused(o) \/ TasksError(o),
           NEW p \in Owners
    PROVE  KeepsHand(p)
<1>0. TypeOK
  BY DEF LevelsInv
<1>1. /\ "polled" \in InHand /\ "failed" \in InHand /\ "rewriting" \in InHand
      /\ "stuck" \in InHand
  BY DEF InHand, Phases
<1>2. CASE ProcessSpooledTask(o)
  <2>1. PICK e \in Buffered(o) :
            MoveTask(o, e, IF e.data \in expired THEN "finished" ELSE "polled")
    BY <1>2 DEF ProcessSpooledTask
  <2>2. e \in outstanding[o] /\ expired' = expired
    BY <1>2 DEF Buffered, ProcessSpooledTask, envVars
  <2>3. CASE e.data \in expired
    <3>1. MoveTask(o, e, "finished") /\ e.data \notin Owed'
      BY <2>1, <2>2, <2>3, OwedTask
    <3> QED
      BY <1>0, <2>2, <3>1, MovedInHand
  <2>4. CASE e.data \notin expired
    <3>1. MoveTask(o, e, "polled")
      BY <2>1, <2>4
    <3> QED
      BY <1>0, <1>1, <2>2, <3>1, MovedInHand
  <2> QED
    BY <2>3, <2>4
<1>3. ASSUME NEW e \in outstanding[o], RecordTaskStarted(o, e) PROVE KeepsHand(p)
  <2>1. MoveTask(o, e, "finished") /\ (e.data \in expired' \/ e.data \in done')
    BY <1>3 DEF RecordTaskStarted
  <2>2. e.data \notin Owed'
    BY <2>1, OwedTask
  <2> QED
    BY <1>0, <2>1, <2>2, MovedInHand
<1>4. ASSUME NEW e \in outstanding[o], RecordTaskStartedError(o, e) \/ RewriteTask(o, e)
      PROVE  KeepsHand(p)
  <2>1. \E ph \in InHand : MoveTask(o, e, ph)
    BY <1>1, <1>4 DEF RecordTaskStartedError, RewriteTask
  <2> QED
    BY <1>0, <2>1, MovedInHand
<1>5. CASE TasksRefused(o) \/ TasksError(o)
  <2>1. \E mayRetry \in BOOLEAN : FailBatch(o, wtasks[o], mayRetry)
    BY <1>5 DEF TasksRefused, TasksError
  <2> QED
    BY <1>0, <2>1, FailedInHand
<1> QED
  BY <1>0, <1>2, <1>3, <1>4, <1>5, CreatedInHand

\* Completing a task does not touch the others.
LEMMA CompletingInHand ==
    ASSUME LevelsInv, NEW o \in Owners, NEW e \in outstanding[o], completeTask(o, e),
           NEW p \in Owners
    PROVE  KeepsHand(p)
<1> DEFINE marked == (outstanding[o] \ {e}) \cup {[e EXCEPT !.ph = "acked"]}
<1>1. /\ outstanding' = [outstanding EXCEPT ![o] = marked \ AckedPrefix(marked)]
      /\ e.ph = "finished"
  BY DEF completeTask
<1>2. outstanding \in [Owners -> SUBSET LoadedTask]
  BY DEF LevelsInv, TypeOK
<1>3. "finished" \notin InHand /\ "acked" \notin InHand
  BY DEF InHand
<1>4. \A x \in outstanding[o] : x.ph \in InHand => x \in marked \ AckedPrefix(marked)
  BY <1>1, <1>3 DEF AckedPrefix
<1> HIDE DEF marked
<1>5. CASE p = o
  <2>1. outstanding'[o] = marked \ AckedPrefix(marked)
    BY <1>1, <1>2
  <2> QED
    BY <1>4, <1>5, <2>1 DEF KeepsHand
<1>6. CASE p # o
  <2>1. outstanding'[p] = outstanding[p]
    BY <1>1, <1>2, <1>6
  <2> QED
    BY <2>1 DEF KeepsHand
<1> QED
  BY <1>5, <1>6

\* Every step keeps what is owed in hand, or clears the reader.
LEMMA HandShapes ==
    ASSUME LevelsInv, [Next]_vars, NEW p \in Owners
    PROVE  KeepsHand(p) \/ ClearedReader(p)
<1>0. TypeOK
  BY DEF LevelsInv
<1>1. outstanding'[p] = outstanding[p] => KeepsHand(p)
  BY DEF KeepsHand
<1>2. ASSUME NEW o \in Owners,
             \/ Load(o) \/ takeOverTaskQueue(o)
             \/ assignTaskID(o) \/ allocTaskIDBlock(o) \/ appendTasks(o)
             \/ ReadBegin(o) \/ ReadError(o) \/ persistAck(o) \/ AckAnswered(o)
             \/ Stop(o) \/ FinalAnswered(o)
             \/ \E t \in Tasks : SpoolTask(o, t)
      PROVE  KeepsHand(p)
  BY <1>1, <1>2, QuietSteps
<1>3. ASSUME \/ \E w \in late : LateCommit(w)
             \/ \E t \in Tasks : Expire(t)
             \/ UNCHANGED vars
      PROVE  KeepsHand(p)
  BY <1>1, <1>3, QuietSteps
<1>4. ASSUME NEW o \in Owners,
             \/ ProcessSpooledTask(o)
             \/ \E e \in outstanding[o] :
                  \/ RecordTaskStarted(o, e) \/ RecordTaskStartedError(o, e)
                  \/ RewriteTask(o, e)
             \/ TasksCreated(o) \/ TasksRefused(o) \/ TasksError(o)
      PROVE  KeepsHand(p)
  BY <1>4, MovingInHand
<1>5. ASSUME NEW o \in Owners, LeaseGranted(o) \/ ReadSome(o) \/ ReadNone(o)
      PROVE  KeepsHand(p)
  BY <1>1, <1>5 DEF LeaseGranted, ReadSome, ReadNone
<1>6. ASSUME NEW o \in Owners, AddTask(o) PROVE KeepsHand(p)
  <2>1. PICK n : outstanding' \in {outstanding, [outstanding EXCEPT ![o] = @ \cup {n}]}
    BY <1>6 DEF AddTask
  <2>2. CASE outstanding' = outstanding
    BY <1>1, <2>2
  <2>3. CASE outstanding' = [outstanding EXCEPT ![o] = @ \cup {n}]
    <3>1. outstanding[p] \subseteq outstanding'[p]
      <4>1. CASE p = o
        BY <1>0, <2>3, <4>1 DEF TypeOK
      <4>2. CASE p # o
        BY <1>0, <2>3, <4>2 DEF TypeOK
      <4> QED
        BY <4>1, <4>2
    <3> QED
      BY <3>1 DEF KeepsHand
  <2> QED
    BY <2>1, <2>2, <2>3
<1>7. ASSUME NEW o \in Owners, \E e \in outstanding[o] : completeTask(o, e)
      PROVE  KeepsHand(p)
  BY <1>7, CompletingInHand
<1>8. ASSUME NEW o \in Owners, Forget(o) PROVE KeepsHand(p) \/ ClearedReader(p)
  <2>1. CASE p = o
    BY <1>0, <1>8, <2>1 DEF Forget, TypeOK, ClearedReader, Running
  <2>2. CASE p # o
    BY <1>0, <1>1, <1>8, <2>2 DEF Forget, TypeOK
  <2> QED
    BY <2>1, <2>2
<1>9. ASSUME NEW o \in Owners, LeaseRefused(o) \/ LeaseError(o)
      PROVE  KeepsHand(p) \/ ClearedReader(p)
  <2>1. \/ Forget(o) \/ UNCHANGED outstanding
        \/ \E reqs, mayRetry : FailBatch(o, reqs, mayRetry)
    BY <1>9 DEF LeaseRefused, LeaseError, FailAlloc, readerVars
  <2> QED
    BY <1>0, <1>1, <1>8, <2>1, FailedInHand
<1>10. ASSUME NEW o \in Owners, tqCtxCancel(o) \/ Crash(o)
       PROVE  KeepsHand(p) \/ ClearedReader(p)
  BY <1>8, <1>10 DEF tqCtxCancel, Crash
<1> QED
  BY <1>2, <1>3, <1>4, <1>5, <1>6, <1>7, <1>9, <1>10 DEF Next

-----------------------------------------------------------------------------
(* Rows that are still to be read *)

\* Row s is ahead of the reader of o.
Ahead(s, o) == readLevel[o] < s.id /\ (s \in batch[o] \/ \A b \in batch[o] : b.id < s.id)
Loaded(s, o) == \E e \in outstanding[o] : e.id = s.id /\ e.data = s.data /\ e.ph \in InHand

\* A read that finds nothing has not passed the row.
LEMMA ReadNoneHeld ==
    ASSUME LevelsInv, FreshInv, NEW p \in Owners, ReadNone(p), NEW s \in stored,
           ackLevel[p] < s.id, Ahead(s, p) \/ Loaded(s, p)
    PROVE  ackLevel'[p] < s.id /\ (Ahead(s, p)' \/ Loaded(s, p)')
<1> DEFINE upper == ReadUpper(p, RangesPerRead)
<1>0. /\ TypeOK /\ ReaderOK(p) /\ ReaderFresh(p) /\ pump[p] = "reading"
      /\ UNCHANGED <<batch, outstanding>> /\ InRanges(p, RangesPerRead) = {}
  BY DEF LevelsInv, OwnerOK, FreshInv, ReadNone
<1>1. /\ ackLevel'[p] = IF ackLevel[p] = readLevel[p] THEN upper ELSE ackLevel[p]
      /\ readLevel'[p] = upper /\ batch'[p] = {} /\ batch[p] = {}
  BY <1>0 DEF ReadNone, TypeOK, ReaderOK
<1>2. RangesPerRead \in 1..RangesPerRead
  BY ConstantsAssumption, SMT
<1>3. upper \in Nat
  BY <1>0, <1>2, ReadRange
<1>4. stored \in SUBSET StoredTask
  BY <1>0 DEF TypeOK
<1>5. s.id \in Nat
  BY <1>4 DEF StoredTask
<1>6. CASE Ahead(s, p)
  <2>1. ~(s.id <= upper)
    BY <1>0, <1>6 DEF InRanges, Ahead
  <2> HIDE DEF upper
  <2>2. upper < s.id
    BY <1>3, <1>5, <2>1, SMT
  <2> QED
    BY <1>1, <2>2 DEF Ahead
<1>7. CASE Loaded(s, p)
  <2>1. PICK e \in outstanding[p] : e.id = s.id
    BY <1>7 DEF Loaded
  <2>2. s.id <= readLevel[p]
    BY <1>0, <2>1 DEF ReaderOK
  <2>3. readLevel[p] \in Nat \cup {-1}
    BY <1>0 DEF TypeOK
  <2>4. ackLevel[p] # readLevel[p]
    BY <1>5, <2>2, <2>3, SMT
  <2>5. Loaded(s, p)'
    BY <1>0, <1>7 DEF Loaded
  <2> QED
    BY <1>1, <2>4, <2>5
<1> QED
  BY <1>6, <1>7

\* addTask takes the rows of the batch in order.
LEMMA AddTaskHeld ==
    ASSUME LevelsInv, FreshInv, NEW p \in Owners, AddTask(p), NEW s \in stored,
           s.data \in Owed', Ahead(s, p)
    PROVE  Ahead(s, p)' \/ Loaded(s, p)'
<1>0. TypeOK /\ UniqueIds(batch[p]) /\ expired' = expired
  BY DEF LevelsInv, FreshInv, ReaderFresh, AddTask, envVars
<1>1. PICK b \in batch[p] :
        /\ \A x \in batch[p] : b.id <= x.id
        /\ b.data \in expired \/ outstanding' = [outstanding EXCEPT ![p] = @ \cup
                {[id |-> b.id, data |-> b.data, ph |-> "buffered"]}]
        /\ readLevel' = [readLevel EXCEPT ![p] = b.id]
        /\ batch' = [batch EXCEPT ![p] = @ \ {b}]
  BY DEF AddTask
<1>2. batch'[p] = batch[p] \ {b} /\ readLevel'[p] = b.id
  BY <1>0, <1>1 DEF TypeOK
<1>3. CASE s = b
  <2>1. outstanding'[p] =
            outstanding[p] \cup {[id |-> b.id, data |-> b.data, ph |-> "buffered"]}
    BY <1>0, <1>1, <1>3, OwedTask DEF TypeOK
  <2>2. "buffered" \in InHand
    BY DEF InHand, Phases
  <2> DEFINE n == [id |-> b.id, data |-> b.data, ph |-> "buffered"]
  <2>3. n.id = b.id /\ n.data = b.data /\ n.ph = "buffered"
    OBVIOUS
  <2>4. n \in outstanding'[p]
    BY <2>1
  <2> HIDE DEF n
  <2> QED
    BY <1>3, <2>2, <2>3, <2>4 DEF Loaded
<1>4. CASE s # b
  <2>1. batch[p] \in SUBSET StoredTask /\ stored \in SUBSET StoredTask
    BY <1>0 DEF TypeOK
  <2>2. b.id \in Nat /\ s.id \in Nat
    BY <2>1 DEF StoredTask
  <2>3. s \in batch[p] => b.id <= s.id /\ b.id # s.id
    BY <1>0, <1>1, <1>4 DEF UniqueIds
  <2>4. b.id < s.id
    <3>1. CASE s \in batch[p]
      BY <2>2, <2>3, <3>1, SMT
    <3>2. CASE s \notin batch[p]
      BY <3>2 DEF Ahead
    <3> QED
      BY <3>1, <3>2
  <2>5. s \in batch'[p] \/ \A x \in batch'[p] : x.id < s.id
    BY <1>2, <1>4 DEF Ahead
  <2> QED
    BY <1>2, <2>4, <2>5 DEF Ahead
<1> QED
  BY <1>3, <1>4

\* A reader that is cleared starts again from the ack level in the store.
LEMMA ClearedHeld ==
    ASSUME LevelsInv, LevelsInv', FreshInv, [Next]_vars, NEW p \in Owners,
           ClearedReader(p), NEW s, s.id \in Nat, row'.ackLevel < s.id
    PROVE  ackLevel'[p] < s.id /\ Ahead(s, p)'
<1>1. batch'[p] = {}
  BY DEF ClearedReader
<1>2. CASE ~Running(p)'
  <2>1. UnloadedOK(p)'
    BY DEF LevelsInv, OwnerOK
  <2>2. ackLevel'[p] = -1 /\ readLevel'[p] = -1
    BY <1>2, <2>1 DEF UnloadedOK
  <2>3. -1 < s.id
    BY SMT
  <2> QED
    BY <1>1, <2>2, <2>3 DEF Ahead
<1>3. CASE Running(p)'
  <2>1. AckShape(p) /\ ~Running(p)
    BY <1>3, AckShapes DEF ClearedReader
  <2>2. status'[p] # "off"
    BY <1>3 DEF Running
  <2>3. AckLoaded(p)
    BY <1>3, <2>1, <2>2 DEF AckShape, AckKept, AckIssued, AckStored
  <2> QED
    BY <1>1, <2>3 DEF AckLoaded, Ahead
<1> QED
  BY <1>2, <1>3

\* completeTask acknowledges nothing that is in hand or still to be read.
LEMMA CompletedHeld ==
    ASSUME LevelsInv, LevelsInv', FreshInv, NEW p \in Owners, NEW e \in outstanding[p],
           completeTask(p, e), NEW s, s.id \in Nat, Ahead(s, p)
    PROVE  ackLevel'[p] < s.id /\ Ahead(s, p)'
<1>1. UNCHANGED <<batch, readLevel, status>>
  BY DEF completeTask, dbVars
<1>2. Ahead(s, p)'
  BY <1>1 DEF Ahead
<1>3. Running(p)
  BY LoadedIsRunning
<1>4. Running(p)'
  BY <1>1, <1>3 DEF Running
<1>5. TypeOK' /\ LoadedOK(p)'
  BY DEF LevelsInv, OwnerOK
<1>6. ackLevel'[p] \in Nat \cup {-1} /\ readLevel'[p] \in Nat \cup {-1}
  BY <1>5 DEF TypeOK
<1>7. ackLevel'[p] <= readLevel'[p] /\ readLevel'[p] < s.id
  BY <1>2, <1>4, <1>5 DEF LoadedOK, Ahead
<1>8. ackLevel'[p] < s.id
  BY <1>6, <1>7, SMT
<1> QED
  BY <1>2, <1>8

-----------------------------------------------------------------------------
(* Rows and ids *)

\* A step that writes no row and hands out no id: rows may go, batches may be
\* given up, owners may lose their lease, writes without tasks may be lost.
WritesNothing ==
    /\ row'.rangeID = row.rangeID
    /\ stored' \subseteq stored
    /\ \A w \in late' : w \in late \/ w.tasks = {}
    /\ \A p \in Owners :
        /\ wtasks'[p] = wtasks[p] \/ wtasks'[p] = {}
        /\ (rangeID'[p] = rangeID[p] /\ next'[p] = next[p]) \/ rangeID'[p] = 0

RowsAndWriters == RowsFresh /\ \A p \in Owners : WriterFresh(p)

\* What Written is made of.
LEMMA WrittenRows ==
    /\ \A s : s \in Written <=> s \in stored \/ \E w \in late : s \in w.tasks
    /\ \A s : s \in Written' <=> s \in stored' \/ \E w \in late' : s \in w.tasks
BY DEF Written

\* Such a step keeps the ids apart.
LEMMA WritesNothingFresh ==
    ASSUME RowsAndWriters, WritesNothing PROVE RowsAndWriters'
<1>1. UniqueIds(stored)'
  BY DEF RowsAndWriters, RowsFresh, WritesNothing, UniqueIds
<1>2. ASSUME NEW w \in late' PROVE UniqueIds(w.tasks) /\ Apart(w.tasks, stored')
  <2>1. CASE w \in late
    BY <2>1 DEF RowsAndWriters, RowsFresh, WritesNothing, UniqueIds, Apart
  <2>2. CASE w.tasks = {}
    BY <2>2 DEF UniqueIds, Apart
  <2> QED
    BY <2>1, <2>2 DEF WritesNothing
<1>3. ASSUME NEW v \in late', NEW w \in late', v # w PROVE Apart(v.tasks, w.tasks)
  <2>1. CASE v \in late /\ w \in late
    BY <1>3, <2>1 DEF RowsAndWriters, RowsFresh
  <2>2. CASE v.tasks = {} \/ w.tasks = {}
    BY <2>2 DEF Apart
  <2> QED
    BY <2>1, <2>2 DEF WritesNothing
<1>4. RowsFresh'
  BY <1>1, <1>2, <1>3 DEF RowsFresh, UniqueIds, Apart
<1>5. Written' \subseteq Written
  BY WrittenRows DEF WritesNothing
<1>6. ASSUME NEW p \in Owners PROVE WriterFresh(p)'
  <2>1. WriterFresh(p)
    BY DEF RowsAndWriters
  <2>2. UniqueIds(wtasks'[p])
    BY <2>1 DEF WriterFresh, WritesNothing, UniqueIds
  <2>3. ASSUME Holder(p)'
        PROVE  (\A s \in Written' : s.id < next'[p]) /\ Apart(wtasks'[p], Written')
    <3>1. Holder(p) /\ next'[p] = next[p]
      BY <2>3 DEF Holder, WritesNothing
    <3>2. (\A s \in Written : s.id < next[p]) /\ Apart(wtasks[p], Written)
      BY <2>1, <3>1 DEF WriterFresh
    <3>3. \A s \in Written' : s.id < next'[p]
      BY <1>5, <3>1, <3>2
    <3>4. Apart(wtasks'[p], Written')
      BY <1>5, <3>2 DEF WritesNothing, Apart
    <3> QED
      BY <3>3, <3>4
  <2> QED
    BY <2>2, <2>3 DEF WriterFresh, UniqueIds, Apart
<1> QED
  BY <1>4, <1>6 DEF RowsAndWriters

\* The tasks of owner o's batch, which it writes under the lease of the row.
BatchTasks(o) == {[id |-> r.id, data |-> r.data] : r \in wtasks[o]}

\* They have ids of their own.
LEMMA BatchFresh ==
    ASSUME LevelsInv, RowsAndWriters, NEW o \in Owners, Holder(o)
    PROVE  /\ UniqueIds(BatchTasks(o)) /\ Apart(BatchTasks(o), Written)
           /\ \A s \in BatchTasks(o) : s.id < next[o]
           /\ \A p \in Owners : Holder(p) => p = o
<1>1. TypeOK /\ WriterOK(o) /\ WriterFresh(o) /\ OneOwnerPerLease
  BY DEF LevelsInv, OwnerOK, RowsAndWriters
<1>2. \A s \in BatchTasks(o) : \E r \in wtasks[o] : s.id = r.id /\ s.data = r.data
  BY SMT DEF BatchTasks
<1>3. \A r, q \in wtasks[o] : r.id = q.id => r.data = q.data
  BY <1>1 DEF WriterFresh, UniqueIds
<1>4. UniqueIds(BatchTasks(o))
  <2> SUFFICES ASSUME NEW r \in wtasks[o], NEW q \in wtasks[o], r.id = q.id
               PROVE  [id |-> r.id, data |-> r.data] = [id |-> q.id, data |-> q.data]
    BY SMT DEF UniqueIds, BatchTasks
  <2> QED
    BY <1>3
<1>5. Apart(BatchTasks(o), Written) /\ \A s \in BatchTasks(o) : s.id < next[o]
  <2>1. /\ \A r \in wtasks[o] : r.id < next[o]
        /\ \A r \in wtasks[o], s \in Written : r.id # s.id
    BY <1>1 DEF WriterFresh, WriterOK, Apart
  <2> QED
    BY <1>2, <2>1, SMT DEF Apart
<1>6. \A p \in Owners : Holder(p) => p = o
  BY <1>1 DEF Holder, OneOwnerPerLease
<1> QED
  BY <1>4, <1>5, <1>6

\* The batch in hand is stored, or may be: it leaves the hands of its owner.
BatchLeaves(o, w) ==
    /\ w.tasks = BatchTasks(o)
    /\ \/ stored' = stored \cup w.tasks /\ late' = late
       \/ stored' = stored /\ late' = late \cup {w}
    /\ row'.rangeID = row.rangeID
    /\ wtasks'[o] = {}
    /\ \A p \in Owners :
        /\ wtasks'[p] = wtasks[p] \/ wtasks'[p] = {}
        /\ (rangeID'[p] = rangeID[p] /\ next'[p] = next[p]) \/ rangeID'[p] = 0

\* Its ids then belong to rows, or to a late write, and to nothing else.
LEMMA BatchLeavesFresh ==
    ASSUME LevelsInv, RowsAndWriters, NEW o \in Owners, Holder(o), NEW w,
           BatchLeaves(o, w)
    PROVE  RowsAndWriters'
<1>1. /\ UniqueIds(w.tasks) /\ Apart(w.tasks, Written)
      /\ \A s \in w.tasks : s.id < next[o]
      /\ \A p \in Owners : Holder(p) => p = o
  BY BatchFresh DEF BatchLeaves
<1>2. RowsFresh /\ \A p \in Owners : WriterFresh(p)
  BY DEF RowsAndWriters
<1>3. Apart(w.tasks, stored) /\ \A v \in late : Apart(w.tasks, v.tasks)
  BY <1>1 DEF Apart, Written
<1>4. ASSUME stored' = stored \cup w.tasks /\ late' = late PROVE RowsFresh'
  <2>1. UniqueIds(stored')
    BY <1>1, <1>2, <1>3, <1>4 DEF RowsFresh, UniqueIds, Apart
  <2>2. \A v \in late' : UniqueIds(v.tasks) /\ Apart(v.tasks, stored')
    BY <1>2, <1>3, <1>4 DEF RowsFresh, Apart
  <2>3. \A u, v \in late' : u # v => Apart(u.tasks, v.tasks)
    BY <1>2, <1>4 DEF RowsFresh
  <2> QED
    BY <2>1, <2>2, <2>3 DEF RowsFresh, UniqueIds, Apart
<1>5. ASSUME stored' = stored /\ late' = late \cup {w} PROVE RowsFresh'
  <2>1. UniqueIds(stored')
    BY <1>2, <1>5 DEF RowsFresh
  <2>2. \A v \in late' : UniqueIds(v.tasks) /\ Apart(v.tasks, stored')
    BY <1>1, <1>2, <1>3, <1>5 DEF RowsFresh
  <2>3. \A u, v \in late' : u # v => Apart(u.tasks, v.tasks)
    <3>1. \A v \in late : Apart(v.tasks, w.tasks) /\ Apart(w.tasks, v.tasks)
      BY <1>3 DEF Apart
    <3> QED
      BY <1>2, <1>5, <3>1 DEF RowsFresh
  <2> QED
    BY <2>1, <2>2, <2>3 DEF RowsFresh, UniqueIds, Apart
<1>6. RowsFresh'
  BY <1>4, <1>5 DEF BatchLeaves
<1>7. Written' \subseteq Written \cup w.tasks
  BY WrittenRows DEF BatchLeaves
<1>8. ASSUME NEW p \in Owners PROVE WriterFresh(p)'
  <2>1. UniqueIds(wtasks'[p])
    BY <1>2 DEF WriterFresh, BatchLeaves, UniqueIds
  <2>2. ASSUME Holder(p)'
        PROVE  (\A s \in Written' : s.id < next'[p]) /\ Apart(wtasks'[p], Written')
    <3>1. Holder(p) /\ next'[p] = next[p]
      BY <2>2 DEF Holder, BatchLeaves
    <3>2. p = o /\ wtasks'[p] = {} /\ next'[p] = next[o]
      BY <1>1, <3>1 DEF BatchLeaves
    <3>3. \A s \in Written : s.id < next[o]
      BY <1>2, <3>1, <3>2 DEF WriterFresh
    <3>4. Apart(wtasks'[p], Written')
      BY <3>2 DEF Apart
    <3> QED
      BY <1>1, <1>7, <3>2, <3>3, <3>4
  <2> QED
    BY <2>1, <2>2 DEF WriterFresh, UniqueIds, Apart
<1> QED
  BY <1>6, <1>8 DEF RowsAndWriters

\* assignTaskID hands out the next id of the block, which is above all others.
LEMMA AssignFresh ==
    ASSUME LevelsInv, RowsAndWriters, NEW o \in Owners, assignTaskID(o)
    PROVE  RowsAndWriters'
<1>0. TypeOK /\ WriterOK(o) /\ RowsFresh /\ \A p \in Owners : WriterFresh(p)
  BY DEF LevelsInv, OwnerOK, RowsAndWriters
<1>1. UNCHANGED <<row, stored, late, rangeID>>
  BY DEF assignTaskID, storeVars, dbVars
<1>2. RowsFresh' /\ Written' = Written /\ \A p \in Owners : Holder(p)' = Holder(p)
  BY <1>0, <1>1 DEF RowsFresh, UniqueIds, Apart, Written, Holder
<1>3. /\ \A p \in Owners : p # o => wtasks'[p] = wtasks[p] /\ next'[p] = next[p]
      /\ next'[o] = next[o] + 1
  BY <1>0 DEF assignTaskID, TypeOK
<1>4. \A r \in wtasks'[o] : r \in wtasks[o] \/ r.id = next[o]
  <2> DEFINE n == [id |-> next[o], data |-> Head(appendCh[o]).data,
                   src |-> Head(appendCh[o]).src]
  <2>1. wtasks'[o] = wtasks[o] \cup {n} /\ n.id = next[o]
    BY <1>0 DEF assignTaskID, TypeOK
  <2> HIDE DEF n
  <2> QED
    BY <2>1
<1>t. /\ next[o] \in Nat /\ wtasks[o] \in SUBSET AssignedRequest
      /\ stored \in SUBSET StoredTask /\ late \in SUBSET Write
  BY <1>0 DEF TypeOK
<1>5. \A r \in wtasks[o] : r.id < next[o] /\ r.id \in Nat
  BY <1>0, <1>t DEF WriterOK, AssignedRequest
<1>6. \A s \in Written : s.id \in Nat
  <2>1. \A w \in late : w.tasks \in SUBSET StoredTask
    BY <1>t DEF Write
  <2>2. Written \in SUBSET StoredTask
    BY <1>t, <2>1, WrittenRows
  <2> QED
    BY <2>2 DEF StoredTask
<1>7. UniqueIds(wtasks'[o])
  <2> DEFINE n == [id |-> next[o], data |-> Head(appendCh[o]).data,
                   src |-> Head(appendCh[o]).src]
  <2>1. wtasks'[o] = wtasks[o] \cup {n} /\ n.id = next[o]
    BY <1>0 DEF assignTaskID, TypeOK
  <2>2. \A r \in wtasks[o] : r.id # next[o]
    BY <1>t, <1>5, SMT
  <2>3. UniqueIds(wtasks[o])
    BY <1>0 DEF WriterFresh
  <2> HIDE DEF n
  <2> QED
    BY <2>1, <2>2, <2>3 DEF UniqueIds
<1>8. ASSUME Holder(o)
      PROVE  (\A s \in Written : s.id < next[o] + 1) /\ Apart(wtasks'[o], Written)
  <2>1. (\A s \in Written : s.id < next[o]) /\ Apart(wtasks[o], Written)
    BY <1>0, <1>8 DEF WriterFresh
  <2>2. \A s \in Written : s.id < next[o] + 1 /\ s.id # next[o]
    BY <1>t, <1>6, <2>1, SMT
  <2> QED
    BY <1>4, <2>1, <2>2 DEF Apart
<1>9. WriterFresh(o)'
  BY <1>2, <1>3, <1>7, <1>8 DEF WriterFresh, UniqueIds, Apart
<1>10. ASSUME NEW p \in Owners, p # o PROVE WriterFresh(p)'
  <2>1. wtasks'[p] = wtasks[p] /\ next'[p] = next[p] /\ WriterFresh(p)
    BY <1>0, <1>3, <1>10
  <2> QED
    BY <1>2, <2>1 DEF WriterFresh, UniqueIds, Apart
<1> QED
  BY <1>2, <1>9, <1>10 DEF RowsAndWriters

\* A new lease ends what may be late, and its block is above every row.
LEMMA LeaseGrantedFresh ==
    ASSUME LevelsInv, RowsAndWriters, NEW o \in Owners, LeaseGranted(o)
    PROVE  RowsAndWriters'
<1>0. /\ TypeOK /\ OneOwnerPerLease /\ RowOK /\ UnloadedOK(o) /\ LoadedOK(o)
      /\ RowsFresh /\ \A p \in Owners : WriterFresh(p)
      /\ op[o].kind = "lease" /\ lockTaskQueue(op[o])
  BY DEF LevelsInv, OwnerOK, RowsAndWriters, LeaseGranted
<1>1. op[o].tasks = {} /\ op[o].new = op[o].prev + 1 /\ op[o].prev = row.rangeID
  BY <1>0, OpKinds DEF WriteOK, lockTaskQueue
<1>2. stored' = stored /\ late' = {} /\ row'.rangeID = op[o].new
  BY <1>0, <1>1 DEF LeaseGranted, Commit, Committed
<1>3. RowsFresh' /\ Written' = stored
  BY <1>0, <1>2 DEF RowsFresh, UniqueIds, Apart, Written
<1>4. /\ wtasks' = wtasks /\ rangeID'[o] = op[o].new
      /\ next'[o] = BlockStart(op[o].new)
      /\ \A p \in Owners : p # o => rangeID'[p] = rangeID[p]
  BY <1>0 DEF LeaseGranted, TypeOK
<1>t. row.rangeID \in Nat /\ \A p \in Owners : rangeID[p] \in Nat
  BY <1>0 DEF TypeOK
<1>5. ASSUME NEW p \in Owners, Holder(p)' PROVE p = o
  <2>1. p # o => rangeID[p] <= row.rangeID /\ rangeID[p] = row.rangeID + 1
    BY <1>0, <1>1, <1>2, <1>4, <1>5 DEF Holder, OneOwnerPerLease
  <2> QED
    BY <1>t, <2>1, SMT
<1>6. \A s \in stored : s.id < next'[o]
  <2>1. next'[o] = BlockEnd(row.rangeID) + 1 /\ BlockEnd(row.rangeID) \in Nat
    BY <1>1, <1>4, <1>t, Blocks
  <2>2. \A s \in stored : s.id \in Nat /\ s.id <= BlockEnd(row.rangeID)
    BY <1>0 DEF RowOK, TypeOK, StoredTask
  <2> QED
    BY <2>1, <2>2, SMT
<1>7. Apart(wtasks[o], stored)
  <2>1. CASE Running(o)
    <3>1. Holder(o)
      <4>1. rangeID[o] = row.rangeID /\ 1 <= rangeID[o]
        BY <1>0, <1>1, <2>1, OpKinds DEF LoadedOK
      <4> QED
        BY <4>1, SMT DEF Holder
    <3> QED
      BY <1>0, <3>1, WrittenRows DEF WriterFresh, Apart
  <2>2. CASE ~Running(o)
    BY <1>0, <2>2 DEF UnloadedOK, Apart
  <2> QED
    BY <2>1, <2>2
<1>8. ASSUME NEW p \in Owners PROVE WriterFresh(p)'
  <2>1. UniqueIds(wtasks'[p])
    BY <1>0, <1>4 DEF WriterFresh
  <2>2. ASSUME Holder(p)'
        PROVE  (\A s \in Written' : s.id < next'[p]) /\ Apart(wtasks'[p], Written')
    BY <1>3, <1>4, <1>5, <1>6, <1>7, <2>2
  <2> QED
    BY <2>1, <2>2 DEF WriterFresh, UniqueIds, Apart
<1> QED
  BY <1>3, <1>8 DEF RowsAndWriters

\* A late write moves its tasks to the rows, or is a lease that nobody knows of.
LEMMA LateCommitFresh ==
    ASSUME LevelsInv, RowsAndWriters, NEW w \in late, LateCommit(w)
    PROVE  RowsAndWriters'
<1>0. /\ TypeOK /\ OneOwnerPerLease /\ LateOK
      /\ RowsFresh /\ \A p \in Owners : WriterFresh(p)
  BY DEF LevelsInv, RowsAndWriters
<1>1. UNCHANGED <<rangeID, next, wtasks>> /\ stored' = stored \cup w.tasks
  BY DEF LateCommit, dbVars, writerVars
<1>2. WriteOK(w) /\ w.prev = row.rangeID
  BY <1>0 DEF LateOK
<1>3. CASE w.kind = "lease"
  <2>1. w.tasks = {} /\ late' = {} /\ row'.rangeID = row.rangeID + 1
    BY <1>2, <1>3 DEF WriteOK, LateCommit, Committed
  <2>2. stored' = stored
    BY <1>1, <2>1
  <2>3. RowsFresh'
    BY <1>0, <2>1, <2>2 DEF RowsFresh, UniqueIds, Apart
  <2>4. ASSUME NEW p \in Owners PROVE ~Holder(p)'
    <3>1. row.rangeID \in Nat /\ rangeID[p] \in Nat /\ rangeID[p] <= row.rangeID
      BY <1>0 DEF TypeOK, OneOwnerPerLease
    <3>2. rangeID'[p] # row'.rangeID
      BY <1>1, <2>1, <3>1, SMT
    <3> QED
      BY <3>2 DEF Holder
  <2>5. ASSUME NEW p \in Owners PROVE WriterFresh(p)'
    <3>1. UniqueIds(wtasks'[p])
      BY <1>0, <1>1 DEF WriterFresh
    <3> QED
      BY <2>4, <3>1 DEF WriterFresh, UniqueIds
  <2> QED
    BY <2>3, <2>5 DEF RowsAndWriters
<1>4. CASE w.kind # "lease"
  <2>1. late' = late \ {w} /\ row'.rangeID = row.rangeID
    BY <1>2, <1>4 DEF WriteOK, LateCommit, Committed
  <2>2. UniqueIds(stored')
    BY <1>0, <1>1 DEF RowsFresh, UniqueIds, Apart
  <2>3. \A v \in late' : UniqueIds(v.tasks) /\ Apart(v.tasks, stored')
    BY <1>0, <1>1, <2>1 DEF RowsFresh, Apart
  <2>4. \A u, v \in late' : u # v => Apart(u.tasks, v.tasks)
    BY <1>0, <2>1 DEF RowsFresh
  <2>5. RowsFresh'
    BY <2>2, <2>3, <2>4 DEF RowsFresh, UniqueIds, Apart
  <2>6. Written' \subseteq Written
    BY <1>1, <2>1, WrittenRows
  <2>7. ASSUME NEW p \in Owners PROVE WriterFresh(p)'
    <3>1. UniqueIds(wtasks'[p]) /\ wtasks'[p] = wtasks[p] /\ next'[p] = next[p]
      BY <1>0, <1>1 DEF WriterFresh
    <3>2. Holder(p)' <=> Holder(p)
      BY <1>1, <2>1 DEF Holder
    <3>3. Holder(p) => (\A s \in Written : s.id < next[p]) /\ Apart(wtasks[p], Written)
      BY <1>0 DEF WriterFresh
    <3>4. Holder(p)' => (\A s \in Written' : s.id < next'[p]) /\ Apart(wtasks'[p], Written')
      BY <2>6, <3>1, <3>2, <3>3 DEF Apart
    <3> QED
      BY <3>1, <3>4 DEF WriterFresh, UniqueIds, Apart
  <2> QED
    BY <2>5, <2>7 DEF RowsAndWriters
<1> QED
  BY <1>3, <1>4

\* Steps that leave the rows, the ids and the leases as they are.
IdsQuiet == UNCHANGED <<row, stored, late, rangeID, next, wtasks>>

\* Everything that neither assigns ids nor hears from the store about a write.
LEMMA IdsQuietSteps ==
    ASSUME \/ \E o \in Owners :
                \/ Load(o) \/ takeOverTaskQueue(o)
                \/ \E t \in Tasks : SpoolTask(o, t)
                \/ allocTaskIDBlock(o) \/ appendTasks(o)
                \/ ReadBegin(o) \/ ReadSome(o) \/ ReadNone(o) \/ ReadError(o)
                \/ AddTask(o) \/ persistAck(o) \/ ProcessSpooledTask(o)
                \/ \E e \in outstanding[o] :
                     \/ RecordTaskStarted(o, e) \/ RecordTaskStartedError(o, e)
                     \/ RewriteTask(o, e)
                \/ Stop(o)
           \/ \E t \in Tasks : Expire(t)
           \/ UNCHANGED vars
    PROVE  IdsQuiet
<1> USE DEF IdsQuiet, storeVars, dbVars, writerVars
<1>1. ASSUME NEW o \in Owners, Load(o) \/ takeOverTaskQueue(o) PROVE IdsQuiet
  BY <1>1 DEF Load, takeOverTaskQueue
<1>2. ASSUME NEW o \in Owners, NEW t \in Tasks, SpoolTask(o, t) PROVE IdsQuiet
  BY <1>2 DEF SpoolTask
<1>3. ASSUME NEW o \in Owners, allocTaskIDBlock(o) \/ appendTasks(o) PROVE IdsQuiet
  BY <1>3 DEF allocTaskIDBlock, appendTasks
<1>4. ASSUME NEW o \in Owners, ReadBegin(o) \/ ReadSome(o) PROVE IdsQuiet
  BY <1>4 DEF ReadBegin, ReadSome
<1>5. ASSUME NEW o \in Owners, ReadNone(o) \/ ReadError(o) PROVE IdsQuiet
  BY <1>5 DEF ReadNone, ReadError
<1>6. ASSUME NEW o \in Owners, AddTask(o) \/ persistAck(o) PROVE IdsQuiet
  BY <1>6 DEF AddTask, persistAck
<1>7. ASSUME NEW o \in Owners, ProcessSpooledTask(o) \/ Stop(o) PROVE IdsQuiet
  BY <1>7 DEF ProcessSpooledTask, Stop
<1>8. ASSUME NEW o \in Owners, NEW e \in outstanding[o],
             \/ RecordTaskStarted(o, e) \/ RecordTaskStartedError(o, e)
             \/ RewriteTask(o, e)
      PROVE  IdsQuiet
  BY <1>8 DEF RecordTaskStarted, RecordTaskStartedError, RewriteTask
<1>9. ASSUME NEW t \in Tasks, Expire(t) PROVE IdsQuiet
  BY <1>9 DEF Expire
<1>10. ASSUME UNCHANGED vars PROVE IdsQuiet
  BY <1>10 DEF vars
<1> QED
  BY <1>1, <1>2, <1>3, <1>4, <1>5, <1>6, <1>7, <1>8, <1>9, <1>10

\* The steps that delete rows, and the answers that fail or only move ack levels.
LEMMA DeletingSteps ==
    ASSUME LevelsInv, NEW o \in Owners,
           \/ \E e \in outstanding[o] : completeTask(o, e)
           \/ AckAnswered(o) \/ FinalAnswered(o)
    PROVE  WritesNothing
<1>1. UNCHANGED <<rangeID, next, wtasks>>
  BY DEF completeTask, AckAnswered, FinalAnswered, dbVars, writerVars
<1>2. ASSUME NEW e \in outstanding[o], completeTask(o, e) PROVE WritesNothing
  <2>1. UNCHANGED <<row, late>> /\ stored' \subseteq stored
    BY <1>2 DEF completeTask, CompleteTasksLessThan
  <2> QED
    BY <1>1, <2>1 DEF WritesNothing
<1>3. CASE AckAnswered(o) \/ FinalAnswered(o)
  <2>1. op[o].kind \in {"ack", "final"}
    BY <1>3 DEF AckAnswered, FinalAnswered
  <2>2. op[o].tasks = {} /\ op[o].new = op[o].prev
    BY <2>1, OpKinds DEF WriteOK
  <2>3. row' = row \/ (row' = Committed(op[o]) /\ lockTaskQueue(op[o]))
    BY <1>3 DEF AckAnswered, FinalAnswered, Commit, storeVars
  <2>4. row'.rangeID = row.rangeID
    <3>1. Committed(op[o]).rangeID = op[o].new
      BY <2>1 DEF Committed
    <3> QED
      BY <2>2, <2>3, <3>1 DEF lockTaskQueue
  <2>5. stored' \subseteq stored
    BY <1>3, <2>2
       DEF AckAnswered, FinalAnswered, Commit, storeVars, CompleteTasksLessThan
  <2>6. late' = late \/ late' = MayCommitLater(op[o])
    BY <1>3, <2>1 DEF AckAnswered, FinalAnswered, Commit, storeVars
  <2>7. \A w \in late' : w \in late \/ w.tasks = {}
    BY <2>2, <2>6 DEF MayCommitLater
  <2> QED
    BY <1>1, <2>4, <2>5, <2>7 DEF WritesNothing
<1> QED
  BY <1>2, <1>3

\* The answers that fail a batch or unload a queue that was loading.
LEMMA FailingSteps ==
    ASSUME LevelsInv, NEW o \in Owners,
           LeaseRefused(o) \/ LeaseError(o) \/ TasksRefused(o)
    PROVE  WritesNothing
<1>0. TypeOK
  BY DEF LevelsInv
<1>1. UNCHANGED <<row, stored>>
  BY DEF LeaseRefused, LeaseError, TasksRefused, storeVars
<1>2. \A w \in late' : w \in late \/ w.tasks = {}
  <2>1. late' = late \/ (op[o].kind = "lease" /\ late' = MayCommitLater(op[o]))
    BY DEF LeaseRefused, LeaseError, TasksRefused, storeVars
  <2>2. op[o].kind = "lease" => op[o].tasks = {}
    BY OpKinds DEF WriteOK
  <2> QED
    BY <2>1, <2>2 DEF MayCommitLater
<1>3. \/ Forget(o)
      \/ UNCHANGED <<rangeID, next, wtasks>>
      \/ UNCHANGED <<rangeID, next>> /\ wtasks' = [wtasks EXCEPT ![o] = {}]
  BY DEF LeaseRefused, LeaseError, TasksRefused, FailAlloc, FailBatch, writerVars
<1>4. ASSUME NEW p \in Owners
      PROVE  /\ wtasks'[p] = wtasks[p] \/ wtasks'[p] = {}
             /\ (rangeID'[p] = rangeID[p] /\ next'[p] = next[p]) \/ rangeID'[p] = 0
  BY <1>0, <1>3 DEF Forget, TypeOK
<1> QED
  BY <1>1, <1>2, <1>4 DEF WritesNothing

\* A write of tasks that may pass the condition is the batch of the holder.
LEMMA TasksOp ==
    ASSUME LevelsInv, NEW o \in Owners, op[o].kind = "tasks"
    PROVE  op[o].tasks = BatchTasks(o) /\ (lockTaskQueue(op[o]) => Holder(o))
<1>1. op[o] # NoOp /\ Running(o) /\ op[o].prev = rangeID[o]
  BY OpKinds
<1>2. TypeOK /\ OpOK(o) /\ LoadedOK(o)
  BY DEF LevelsInv, OwnerOK
<1>3. rangeID[o] \in Nat /\ 1 <= rangeID[o]
  BY <1>1, <1>2 DEF TypeOK, LoadedOK
<1>4. rangeID[o] # 0
  BY <1>3, SMT
<1> QED
  BY <1>1, <1>2, <1>4 DEF OpOK, BatchTasks, lockTaskQueue, Holder

\* A write whose answer is lost takes the batch of the holder along, or nothing.
LEMMA LosingSteps ==
    ASSUME LevelsInv, NEW o \in Owners,
           TasksError(o) \/ tqCtxCancel(o) \/ Crash(o)
    PROVE  WritesNothing \/ (Holder(o) /\ \E w : BatchLeaves(o, w))
<1>0. TypeOK /\ OpOK(o)
  BY DEF LevelsInv, OwnerOK
<1>1. UNCHANGED <<row, stored>>
  BY DEF TasksError, tqCtxCancel, Crash
<1>2. \/ Forget(o)
      \/ UNCHANGED <<rangeID, next>> /\ wtasks' = [wtasks EXCEPT ![o] = {}]
  BY DEF TasksError, tqCtxCancel, Crash, FailBatch
<1>3. ASSUME NEW p \in Owners
      PROVE  /\ wtasks'[p] = wtasks[p] \/ wtasks'[p] = {}
             /\ (rangeID'[p] = rangeID[p] /\ next'[p] = next[p]) \/ rangeID'[p] = 0
  BY <1>0, <1>2 DEF Forget, TypeOK
<1>4. wtasks'[o] = {}
  BY <1>0, <1>2 DEF Forget, TypeOK
<1>5. CASE late' = late
  BY <1>1, <1>3, <1>5 DEF WritesNothing
<1>6. CASE late' # late
  <2>1. op[o] # NoOp
    <3>1. CASE TasksError(o)
      BY <3>1, OpKinds DEF TasksError
    <3>2. CASE tqCtxCancel(o) \/ Crash(o)
      BY <1>6, <3>2 DEF tqCtxCancel, Crash
    <3> QED
      BY <3>1, <3>2
  <2>2. op[o] \in Write /\ WriteOK(op[o])
    BY <1>0, <2>1 DEF TypeOK, OpOK
  <2>3. late' = MayCommitLater(op[o])
    BY <2>1 DEF TasksError, tqCtxCancel, Crash
  <2>4. late' = late \cup {op[o]} /\ lockTaskQueue(op[o])
    BY <1>6, <2>3 DEF MayCommitLater
  <2>5. CASE op[o].kind = "tasks"
    <3>1. op[o].tasks = BatchTasks(o) /\ Holder(o)
      BY <2>4, <2>5, TasksOp
    <3>2. BatchLeaves(o, op[o])
      BY <1>1, <1>3, <1>4, <2>4, <3>1 DEF BatchLeaves
    <3> QED
      BY <3>1, <3>2
  <2>6. CASE op[o].kind # "tasks"
    <3>1. op[o].tasks = {}
      BY <2>2, <2>6 DEF WriteOK
    <3> QED
      BY <1>1, <1>3, <2>4, <3>1 DEF WritesNothing
  <2> QED
    BY <2>5, <2>6
<1> QED
  BY <1>5, <1>6

\* CreateTasks makes rows of the batch.
LEMMA CreatingSteps ==
    ASSUME LevelsInv, NEW o \in Owners, TasksCreated(o)
    PROVE  Holder(o) /\ BatchLeaves(o, op[o])
<1>0. TypeOK /\ op[o].kind = "tasks" /\ lockTaskQueue(op[o])
  BY DEF LevelsInv, TasksCreated
<1>1. op[o].tasks = BatchTasks(o) /\ Holder(o)
  BY <1>0, TasksOp
<1>2. /\ row' = row /\ late' = late /\ stored' = stored \cup op[o].tasks
      /\ UNCHANGED <<rangeID, next>> /\ wtasks' = [wtasks EXCEPT ![o] = {}]
  BY <1>0 DEF TasksCreated, Commit, Committed
<1>3. \A p \in Owners : wtasks'[p] = wtasks[p] \/ wtasks'[p] = {}
  BY <1>0, <1>2 DEF TypeOK
<1>4. wtasks'[o] = {}
  BY <1>0, <1>2 DEF TypeOK
<1> QED
  BY <1>1, <1>2, <1>3, <1>4 DEF BatchLeaves

\* What a step does to the rows and the ids.
WriteShape ==
    \/ WritesNothing
    \/ \E o \in Owners : Holder(o) /\ \E w : BatchLeaves(o, w)
    \/ \E o \in Owners : assignTaskID(o) \/ LeaseGranted(o)
    \/ \E w \in late : LateCommit(w)

\* Every step has that shape.
LEMMA WriteShapes ==
    ASSUME LevelsInv, [Next]_vars PROVE WriteShape
<1>1. ASSUME IdsQuiet PROVE WriteShape
  BY <1>1 DEF IdsQuiet, WritesNothing, WriteShape
<1>2. ASSUME NEW o \in Owners,
             TasksError(o) \/ tqCtxCancel(o) \/ Crash(o)
      PROVE  WriteShape
  BY <1>2, LosingSteps DEF WriteShape
<1>3. ASSUME NEW o \in Owners, TasksCreated(o) PROVE WriteShape
  BY <1>3, CreatingSteps DEF WriteShape
<1>4. ASSUME NEW o \in Owners,
             \/ \E e \in outstanding[o] : completeTask(o, e)
             \/ AckAnswered(o) \/ FinalAnswered(o)
      PROVE  WriteShape
  BY <1>4, DeletingSteps DEF WriteShape
<1>5. ASSUME NEW o \in Owners,
             LeaseRefused(o) \/ LeaseError(o) \/ TasksRefused(o)
      PROVE  WriteShape
  BY <1>5, FailingSteps DEF WriteShape
<1>6. ASSUME NEW o \in Owners, assignTaskID(o) \/ LeaseGranted(o)
      PROVE  WriteShape
  BY <1>6 DEF WriteShape
<1>7. ASSUME NEW w \in late, LateCommit(w) PROVE WriteShape
  BY <1>7 DEF WriteShape
<1>8. ASSUME NEW o \in Owners,
             \/ Load(o) \/ takeOverTaskQueue(o)
             \/ \E t \in Tasks : SpoolTask(o, t)
             \/ allocTaskIDBlock(o) \/ appendTasks(o)
             \/ ReadBegin(o) \/ ReadSome(o) \/ ReadNone(o) \/ ReadError(o)
             \/ AddTask(o) \/ persistAck(o) \/ ProcessSpooledTask(o)
             \/ \E e \in outstanding[o] :
                  \/ RecordTaskStarted(o, e) \/ RecordTaskStartedError(o, e)
                  \/ RewriteTask(o, e)
             \/ Stop(o)
      PROVE  WriteShape
  BY <1>1, <1>8, IdsQuietSteps
<1>9. ASSUME (\E t \in Tasks : Expire(t)) \/ UNCHANGED vars PROVE WriteShape
  BY <1>1, <1>9, IdsQuietSteps
<1> QED
  BY <1>2, <1>3, <1>4, <1>5, <1>6, <1>7, <1>8, <1>9 DEF Next

\* Hence every step keeps the ids apart.
LEMMA RowsStep ==
    ASSUME LevelsInv, RowsAndWriters, [Next]_vars PROVE RowsAndWriters'
BY WriteShapes, WritesNothingFresh, BatchLeavesFresh, AssignFresh,
   LeaseGrantedFresh, LateCommitFresh DEF WriteShape

\* The initial state satisfies the second invariant.
LEMMA FreshInit == Init => FreshInv
<1> SUFFICES ASSUME Init PROVE FreshInv
  OBVIOUS
<1>1. RowsFresh
  BY DEF Init, RowsFresh, UniqueIds
<1>2. ASSUME NEW o \in Owners PROVE WriterFresh(o) /\ ReaderFresh(o) /\ AckFresh(o)
  BY DEF Init, WriterFresh, ReaderFresh, AckFresh, UniqueIds, Holder, Running
<1> QED
  BY <1>1, <1>2 DEF FreshInv

-----------------------------------------------------------------------------
(* What LevelsInv and FreshInv say of one state *)

\* A write that can still commit is late, or is the write of an owner.
LEMMA CommittableWrites ==
    ASSUME NEW w \in Committable
    PROVE  /\ w # NoOp /\ lockTaskQueue(w)
           /\ w \in late \/ \E o \in Owners : w = op[o]
BY DEF Committable

\* An owner's write has the tasks of the batch that the holder of the lease has
\* in hand (appendTasks), or none.
LEMMA OwnersWrite ==
    ASSUME LevelsInv, NEW o \in Owners, op[o] # NoOp, lockTaskQueue(op[o])
    PROVE  op[o].tasks = {} \/ (op[o].tasks = BatchTasks(o) /\ Holder(o))
<1>1. CASE op[o].kind = "tasks"
  BY <1>1, TasksOp
<1>2. CASE op[o].kind # "tasks"
  BY <1>2 DEF LevelsInv, OwnerOK, OpOK, WriteOK
<1> QED
  BY <1>1, <1>2

\* Tasks with no id in common.
LEMMA ApartIds == \A S, T : Apart(S, T) => Ids(S) \cap Ids(T) = {}
BY DEF Apart, Ids

\* The ids of a write that can still commit are not in the table, and no other
\* such write has them.
LEMMA WritesApart ==
    ASSUME LevelsInv, FreshInv
    PROVE  /\ \A w \in Committable : Apart(w.tasks, stored)
           /\ \A v, w \in Committable : v # w => Apart(v.tasks, w.tasks)
<1>1. RowsAndWriters /\ RowsFresh
  BY DEF FreshInv, RowsAndWriters
<1>2. \A s : s \in Written <=> s \in stored \/ \E w \in late : s \in w.tasks
  BY WrittenRows
<1>3. ASSUME NEW o \in Owners, op[o] # NoOp, lockTaskQueue(op[o])
      PROVE  /\ Apart(op[o].tasks, Written) /\ Apart(Written, op[o].tasks)
             /\ op[o].tasks = {} \/ Holder(o)
  <2>1. CASE op[o].tasks = {}
    BY <2>1 DEF Apart
  <2>2. CASE op[o].tasks = BatchTasks(o) /\ Holder(o)
    BY <1>1, <2>2, BatchFresh DEF Apart
  <2> QED
    BY <1>3, <2>1, <2>2, OwnersWrite
<1>4. ASSUME NEW w \in Committable PROVE Apart(w.tasks, stored)
  <2>1. CASE w \in late
    BY <1>1, <2>1 DEF RowsFresh
  <2>2. ASSUME NEW o \in Owners, w = op[o] PROVE Apart(w.tasks, stored)
    BY <1>2, <1>3, <2>2, CommittableWrites DEF Apart
  <2> QED
    BY <2>1, <2>2, CommittableWrites
<1>5. ASSUME NEW v \in Committable, NEW w \in Committable, v # w
      PROVE  Apart(v.tasks, w.tasks)
  <2>1. CASE v \in late /\ w \in late
    BY <1>1, <1>5, <2>1 DEF RowsFresh
  <2>2. ASSUME NEW o \in Owners, v = op[o], w \in late PROVE Apart(v.tasks, w.tasks)
    BY <1>2, <1>3, <2>2, CommittableWrites DEF Apart
  <2>3. ASSUME NEW o \in Owners, w = op[o], v \in late PROVE Apart(v.tasks, w.tasks)
    BY <1>2, <1>3, <2>3, CommittableWrites DEF Apart
  <2>4. ASSUME NEW o \in Owners, NEW p \in Owners, v = op[o], w = op[p]
        PROVE  Apart(v.tasks, w.tasks)
    <3>1. o # p
      BY <1>5, <2>4
    <3>2. v.tasks = {} \/ w.tasks = {} \/ (Holder(o) /\ Holder(p))
      BY <1>3, <2>4, CommittableWrites
    <3>3. ~(Holder(o) /\ Holder(p))
      BY <3>1 DEF LevelsInv, OneOwnerPerLease, Holder
    <3> QED
      BY <3>2, <3>3 DEF Apart
  <2> QED
    BY <2>1, <2>2, <2>3, <2>4, CommittableWrites
<1> QED
  BY <1>4, <1>5

\* Ids are used once: see TaskIDsFresh.
LEMMA IdsFresh == ASSUME LevelsInv, FreshInv PROVE TaskIDsFresh
<1>1. \A s, u \in stored : s.id = u.id => s = u
  BY DEF FreshInv, RowsFresh, UniqueIds
<1> QED
  BY <1>1, WritesApart, ApartIds DEF TaskIDsFresh

\* What is about to be added is above what is loaded: see AddTaskNeverFatal.
LEMMA AddAbove == ASSUME LevelsInv, FreshInv PROVE AddTaskNeverFatal
<1> SUFFICES ASSUME NEW o \in Owners, NEW s \in batch[o]
             PROVE  s.id > readLevel[o] /\ s.id \notin Ids(outstanding[o])
  BY DEF AddTaskNeverFatal
<1>1. TypeOK /\ ReaderOK(o) /\ ReaderFresh(o)
  BY DEF LevelsInv, OwnerOK, FreshInv
<1>2. /\ readLevel[o] \in Nat \cup {-1} /\ batch[o] \in SUBSET StoredTask
      /\ outstanding[o] \in SUBSET LoadedTask
  BY <1>1 DEF TypeOK
<1>3. s \in StoredTask /\ readLevel[o] < s.id
  BY <1>1, <1>2 DEF ReaderFresh
<1>4. \A e \in outstanding[o] : e \in LoadedTask /\ e.id <= readLevel[o]
  BY <1>1, <1>2 DEF ReaderOK
<1>5. s.id \in Nat /\ \A e \in outstanding[o] : e.id \in Nat
  BY <1>3, <1>4 DEF StoredTask, LoadedTask
<1> QED
  BY <1>2, <1>3, <1>4, <1>5, SMT DEF Ids

\* The levels of an owner are in order: see LevelsOrdered.
LEMMA InOrder == ASSUME LevelsInv, FreshInv PROVE LevelsOrdered
BY DEF LevelsInv, OwnerOK, LoadedOK, RowOK, FreshInv, ReaderFresh, LevelsOrdered

-----------------------------------------------------------------------------
(* Where ack levels come from *)

\* An ack level that a write may carry.
AckSource(a) ==
    \/ a = row.ackLevel \/ a = 0
    \/ \E v \in Committable : v.ack = a
    \/ \E q \in Owners : Running(q) /\ Holder(q) /\ a \in {ackLevel[q], dbAck[q]}

\* What a step does to the ack level in the store and to those on their way.
CommitShape ==
    /\ row'.ackLevel = row.ackLevel \/ \E v \in Committable : v.ack = row'.ackLevel
    /\ \A w \in Committable' : AckSource(w.ack)

\* A late write, and a write in progress, that pass the condition.
LEMMA CanCommit ==
    ASSUME LevelsInv
    PROVE  /\ \A w \in late : lockTaskQueue(w) => w \in Committable
           /\ \A q \in Owners : op[q] # NoOp /\ lockTaskQueue(op[q]) => op[q] \in Committable
<1>1. \A w \in late : w \in Write
  BY DEF LevelsInv, TypeOK
<1>2. \A w \in Write : w.kind # "none"
  BY DEF Write
<1>3. \A w \in late : w # NoOp
  BY <1>1, <1>2, SMT DEF NoOp
<1> QED
  BY <1>3 DEF Committable

\* The same in the next state: where a committable write comes from.
LEMMA CommitFrame ==
    ASSUME LevelsInv, row'.rangeID = row.rangeID,
           \A w \in late' : w \in late \/ AckSource(w.ack),
           \A q \in Owners : \/ op'[q] = op[q] \/ op'[q] = NoOp
                             \/ op'[q].prev = row.rangeID => AckSource(op'[q].ack)
    PROVE  \A w \in Committable' : AckSource(w.ack)
<1> SUFFICES ASSUME NEW w \in Committable' PROVE AckSource(w.ack)
  OBVIOUS
<1>1. /\ w # NoOp /\ w.prev = row.rangeID
      /\ w \in late' \/ \E q \in Owners : w = op'[q]
  BY DEF Committable, lockTaskQueue
<1>2. w \in late => w \in Committable
  BY <1>1, CanCommit DEF lockTaskQueue
<1>3. ASSUME NEW q \in Owners, w = op[q] PROVE w \in Committable
  BY <1>1, <1>3, CanCommit DEF lockTaskQueue
<1>4. w \in Committable => AckSource(w.ack)
  BY DEF AckSource
<1>5. CASE w \in late'
  BY <1>2, <1>4, <1>5
<1>6. ASSUME NEW q \in Owners, w = op'[q] PROVE AckSource(w.ack)
  BY <1>1, <1>3, <1>4, <1>6
<1> QED
  BY <1>1, <1>5, <1>6

\* A write whose answer is lost.
LEMMA LostWrite ==
    ASSUME LevelsInv, NEW o \in Owners, op[o] # NoOp,
           late' \in {late, MayCommitLater(op[o])}
    PROVE  \A w \in late' : w \in late \/ AckSource(w.ack)
<1>1. lockTaskQueue(op[o]) => AckSource(op[o].ack)
  BY CanCommit DEF AckSource
<1>2. \A w \in late' : w \in late \/ (w = op[o] /\ lockTaskQueue(op[o]))
  BY DEF MayCommitLater
<1> QED
  BY <1>1, <1>2

\* Steps in which no write is issued, answered or committed.
LEMMA QuietCommits ==
    ASSUME LevelsInv, UNCHANGED <<row, late, op>> PROVE CommitShape
BY CommitFrame DEF CommitShape

\* The steps of which this is true.
LEMMA QuietCommitSteps ==
    ASSUME LevelsInv,
           \/ \E o \in Owners :
                \/ Load(o)
                \/ \E t \in Tasks : SpoolTask(o, t)
                \/ assignTaskID(o)
                \/ ReadBegin(o) \/ ReadSome(o) \/ ReadNone(o) \/ ReadError(o)
                \/ AddTask(o) \/ ProcessSpooledTask(o)
                \/ \E e \in outstanding[o] :
                     \/ RecordTaskStarted(o, e) \/ RecordTaskStartedError(o, e)
                     \/ RewriteTask(o, e) \/ completeTask(o, e)
           \/ \E t \in Tasks : Expire(t)
           \/ UNCHANGED vars
    PROVE  CommitShape
<1> DEFINE Q == UNCHANGED <<row, late, op>>
<1> USE DEF storeVars, dbVars
<1>1. ASSUME NEW o \in Owners, Load(o) \/ assignTaskID(o) PROVE Q
  BY <1>1 DEF Load, assignTaskID
<1>2. ASSUME NEW o \in Owners, NEW t \in Tasks, SpoolTask(o, t) PROVE Q
  BY <1>2 DEF SpoolTask
<1>3. ASSUME NEW o \in Owners, ReadBegin(o) \/ ReadSome(o) PROVE Q
  BY <1>3 DEF ReadBegin, ReadSome
<1>4. ASSUME NEW o \in Owners, ReadNone(o) \/ ReadError(o) PROVE Q
  BY <1>4 DEF ReadNone, ReadError
<1>5. ASSUME NEW o \in Owners, AddTask(o) \/ ProcessSpooledTask(o) PROVE Q
  BY <1>5 DEF AddTask, ProcessSpooledTask
<1>6. ASSUME NEW o \in Owners, NEW e \in outstanding[o],
             \/ RecordTaskStarted(o, e) \/ RecordTaskStartedError(o, e)
             \/ RewriteTask(o, e) \/ completeTask(o, e)
      PROVE  Q
  BY <1>6
     DEF RecordTaskStarted, RecordTaskStartedError, RewriteTask, completeTask
<1>7. ASSUME NEW t \in Tasks, Expire(t) PROVE Q
  BY <1>7 DEF Expire
<1>8. ASSUME UNCHANGED vars PROVE Q
  BY <1>8 DEF vars
<1>9. Q
  BY <1>1, <1>2, <1>3, <1>4, <1>5, <1>6, <1>7, <1>8
<1> QED
  BY <1>9, QuietCommits

\* A write is issued with the ack level of the row, of the holder of the lease,
\* or none.
LEMMA IssueCommitSteps ==
    ASSUME LevelsInv, NEW o \in Owners,
           \/ takeOverTaskQueue(o) \/ allocTaskIDBlock(o) \/ appendTasks(o)
           \/ persistAck(o) \/ Stop(o)
    PROVE  CommitShape
<1>0. TypeOK /\ LoadedOK(o)
  BY DEF LevelsInv, OwnerOK
<1>1. UNCHANGED <<row, late>>
  BY DEF takeOverTaskQueue, allocTaskIDBlock, appendTasks, persistAck, Stop, storeVars
<1>2. \A q \in Owners : q # o => op'[q] = op[q]
  BY <1>0
  DEF takeOverTaskQueue, allocTaskIDBlock, appendTasks, persistAck, Stop, TypeOK
<1>3. ASSUME Running(o), rangeID[o] = row.rangeID PROVE Holder(o)
  <2>1. 1 <= rangeID[o] /\ rangeID[o] \in Nat
    BY <1>0, <1>3 DEF LoadedOK, TypeOK
  <2>2. rangeID[o] # 0
    BY <2>1, SMT
  <2> QED
    BY <1>3, <2>2 DEF Holder
<1> DEFINE G == \/ op'[o] = op[o]
                \/ op'[o].prev = row.rangeID => AckSource(op'[o].ack)
<1>4. ASSUME takeOverTaskQueue(o) PROVE G
  <2>1. op'[o] = LeaseWrite(row.rangeID, row.ackLevel)
    BY <1>0, <1>4 DEF takeOverTaskQueue, TypeOK
  <2>2. op'[o].ack = row.ackLevel
    BY <2>1, SMT DEF LeaseWrite
  <2> QED
    BY <2>2 DEF AckSource
<1>5. ASSUME allocTaskIDBlock(o) PROVE G
  <2>1. op'[o] = LeaseWrite(rangeID[o], dbAck[o]) /\ Running(o)
    BY <1>0, <1>5 DEF allocTaskIDBlock, TypeOK
  <2>2. op'[o].ack = dbAck[o] /\ op'[o].prev = rangeID[o]
    BY <2>1, SMT DEF LeaseWrite
  <2> QED
    BY <1>3, <2>1, <2>2 DEF AckSource
<1>6. ASSUME appendTasks(o) PROVE G
  <2>1. op'[o].ack = 0
    BY <1>0, <1>6 DEF appendTasks, TypeOK, TasksWrite
  <2> QED
    BY <2>1 DEF AckSource
<1>7. ASSUME persistAck(o) PROVE G
  <2>1. op'[o] = AckWrite("ack", rangeID[o], ackLevel[o]) /\ Running(o)
    BY <1>0, <1>7 DEF persistAck, TypeOK
  <2>2. op'[o].ack = ackLevel[o] /\ op'[o].prev = rangeID[o]
    BY <2>1, SMT DEF AckWrite
  <2> QED
    BY <1>3, <2>1, <2>2 DEF AckSource
<1>8. ASSUME Stop(o) PROVE G
  <2>1. Running(o) /\ (op'[o] = op[o] \/ op'[o] = AckWrite("final", rangeID[o], ackLevel[o]))
    BY <1>0, <1>8 DEF Stop, TypeOK, Running
  <2>2. op'[o] = op[o] \/ (op'[o].ack = ackLevel[o] /\ op'[o].prev = rangeID[o])
    BY <2>1, SMT DEF AckWrite
  <2> QED
    BY <1>3, <2>1, <2>2 DEF AckSource
<1>9. G
  BY <1>4, <1>5, <1>6, <1>7, <1>8
<1>10. \A w \in Committable' : AckSource(w.ack)
  BY <1>1, <1>2, <1>9, CommitFrame
<1> QED
  BY <1>1, <1>10 DEF CommitShape

\* An answer other than a new lease stores the ack level of the write, or none.
LEMMA AnswerCommitSteps ==
    ASSUME LevelsInv, NEW o \in Owners,
           \/ LeaseRefused(o) \/ LeaseError(o)
           \/ TasksCreated(o) \/ TasksRefused(o) \/ TasksError(o)
           \/ AckAnswered(o) \/ FinalAnswered(o)
    PROVE  CommitShape
<1>0. TypeOK
  BY DEF LevelsInv
<1>1. op[o].kind \in {"lease", "ack", "final", "tasks"}
  BY DEF LeaseRefused, LeaseError, TasksCreated, TasksRefused, TasksError,
               AckAnswered, FinalAnswered
<1>2. op[o] # NoOp /\ WriteOK(op[o])
  BY <1>1, OpKinds
<1>3. late' = late \/ late' = MayCommitLater(op[o])
  BY DEF LeaseRefused, LeaseError, TasksCreated, TasksRefused, TasksError,
               AckAnswered, FinalAnswered, Commit, storeVars
<1>4. \A w \in late' : w \in late \/ AckSource(w.ack)
  BY <1>2, <1>3, LostWrite
<1>5. op' = [op EXCEPT ![o] = NoOp]
  BY DEF LeaseRefused, LeaseError, TasksCreated, TasksRefused, TasksError,
               AckAnswered, FinalAnswered, Forget
<1>6. \A q \in Owners : op'[q] = op[q] \/ op'[q] = NoOp
  BY <1>0, <1>5 DEF TypeOK
<1>7. \/ row' = row
      \/ /\ op[o].kind # "lease" /\ lockTaskQueue(op[o]) /\ row' = Committed(op[o])
  BY DEF LeaseRefused, LeaseError, TasksCreated, TasksRefused, TasksError,
               AckAnswered, FinalAnswered, Commit, storeVars
<1>8. Committed(op[o]) = row \/ (Committed(op[o]).rangeID = op[o].new
                                 /\ Committed(op[o]).ackLevel = op[o].ack)
  BY DEF Committed
<1>9. op[o].kind # "lease" => op[o].new = op[o].prev
  BY <1>2 DEF WriteOK
<1>10. row'.rangeID = row.rangeID
  BY <1>7, <1>8, <1>9 DEF lockTaskQueue
<1>11. row'.ackLevel = row.ackLevel \/ \E v \in Committable : v.ack = row'.ackLevel
  BY <1>2, <1>7, <1>8, CanCommit
<1>12. \A w \in Committable' : AckSource(w.ack)
  BY <1>4, <1>6, <1>10, CommitFrame
<1> QED
  BY <1>11, <1>12 DEF CommitShape

\* A queue that unloads leaves its write behind.
LEMMA UnloadCommitSteps ==
    ASSUME LevelsInv, NEW o \in Owners, tqCtxCancel(o) \/ Crash(o)
    PROVE  CommitShape
<1>0. TypeOK
  BY DEF LevelsInv
<1>1. UNCHANGED row /\ op' = [op EXCEPT ![o] = NoOp]
  BY DEF tqCtxCancel, Crash, Forget
<1>2. CASE op[o] = NoOp
  <2>1. late' = late
    BY <1>2 DEF tqCtxCancel, Crash
  <2>2. op' = op
    BY <1>0, <1>1, <1>2 DEF TypeOK
  <2> QED
    BY <1>1, <2>1, <2>2, QuietCommits
<1>3. CASE op[o] # NoOp
  <2>1. late' = MayCommitLater(op[o])
    BY <1>3 DEF tqCtxCancel, Crash
  <2>2. \A w \in late' : w \in late \/ AckSource(w.ack)
    BY <1>3, <2>1, LostWrite
  <2>3. \A q \in Owners : op'[q] = op[q] \/ op'[q] = NoOp
    BY <1>0, <1>1 DEF TypeOK
  <2>4. \A w \in Committable' : AckSource(w.ack)
    BY <1>1, <2>2, <2>3, CommitFrame
  <2> QED
    BY <1>1, <2>4 DEF CommitShape
<1> QED
  BY <1>2, <1>3

\* After a new lease no write of before can commit.
LEMMA NewLease ==
    ASSUME LevelsInv, late' = {}, row'.rangeID = row.rangeID + 1,
           \A q \in Owners : op'[q] = op[q] \/ op'[q] = NoOp
    PROVE  Committable' = {}
<1>1. ASSUME NEW q \in Owners, op[q] # NoOp PROVE op[q].prev # row'.rangeID
  <2>1. /\ row.rangeID \in Nat /\ op[q] \in Write /\ WriteOK(op[q])
    BY <1>1 DEF LevelsInv, OwnerOK, OpOK, TypeOK
  <2>2. op[q].prev \in Nat /\ op[q].prev <= row.rangeID
    BY <2>1 DEF Write, WriteOK
  <2> QED
    BY <2>1, <2>2, SMT
<1> QED
  BY <1>1 DEF Committable, lockTaskQueue

\* The answers of the store to a lease, and commits that come late.
LEMMA LeaseCommitSteps ==
    ASSUME LevelsInv,
           (\E o \in Owners : LeaseGranted(o)) \/ (\E w \in late : LateCommit(w))
    PROVE  CommitShape
<1>1. ASSUME NEW o \in Owners, LeaseGranted(o) PROVE CommitShape
  <2>0. TypeOK /\ op[o].kind = "lease" /\ lockTaskQueue(op[o])
    BY <1>1 DEF LeaseGranted, LevelsInv
  <2>1. op[o] # NoOp /\ op[o].new = row.rangeID + 1
    BY <2>0, OpKinds DEF WriteOK, lockTaskQueue
  <2>2. row'.rangeID = op[o].new /\ row'.ackLevel = op[o].ack /\ late' = {}
    BY <1>1, <2>0 DEF LeaseGranted, Commit, Committed
  <2>3. \A q \in Owners : op'[q] = op[q] \/ op'[q] = NoOp
    BY <1>1, <2>0 DEF LeaseGranted, TypeOK
  <2>4. Committable' = {}
    BY <2>1, <2>2, <2>3, NewLease
  <2>5. op[o] \in Committable
    BY <2>0, <2>1, CanCommit
  <2> QED
    BY <2>2, <2>4, <2>5 DEF CommitShape
<1>2. ASSUME NEW w \in late, LateCommit(w) PROVE CommitShape
  <2>0. /\ WriteOK(w) /\ w.prev = row.rangeID /\ w \in Committable
        /\ UNCHANGED op /\ row' = Committed(w)
    BY <1>2, CanCommit DEF LevelsInv, LateOK, LateCommit, dbVars
  <2>1. row' = row \/ (row'.rangeID = w.new /\ row'.ackLevel = w.ack)
    BY <2>0 DEF Committed
  <2>2. CASE w.kind = "lease"
    <3>1. late' = {} /\ row'.rangeID = row.rangeID + 1 /\ row'.ackLevel = w.ack
      <4>1. late' = {} /\ w.new = row.rangeID + 1
        BY <1>2, <2>0, <2>2 DEF LateCommit, WriteOK
      <4>2. Committed(w).rangeID = w.new /\ Committed(w).ackLevel = w.ack
        BY <2>2 DEF Committed
      <4> QED
        BY <2>0, <4>1, <4>2
    <3>2. Committable' = {}
      BY <2>0, <3>1, NewLease
    <3> QED
      BY <2>0, <3>1, <3>2 DEF CommitShape
  <2>3. CASE w.kind # "lease"
    <3>1. late' \subseteq late /\ w.new = row.rangeID
      BY <1>2, <2>0, <2>3 DEF LateCommit, WriteOK
    <3>2. row'.rangeID = row.rangeID
      BY <2>1, <3>1
    <3>3. \A v \in Committable' : AckSource(v.ack)
      BY <2>0, <3>1, <3>2, CommitFrame
    <3> QED
      BY <2>0, <2>1, <3>3 DEF CommitShape
  <2> QED
    BY <2>2, <2>3
<1> QED
  BY <1>1, <1>2

\* Every step has that shape.
LEMMA CommitShapes ==
    ASSUME LevelsInv, [Next]_vars PROVE CommitShape
<1>1. ASSUME NEW o \in Owners,
             \/ Load(o)
             \/ \E t \in Tasks : SpoolTask(o, t)
             \/ assignTaskID(o)
             \/ ReadBegin(o) \/ ReadSome(o) \/ ReadNone(o) \/ ReadError(o)
             \/ AddTask(o) \/ ProcessSpooledTask(o)
             \/ \E e \in outstanding[o] :
                  \/ RecordTaskStarted(o, e) \/ RecordTaskStartedError(o, e)
                  \/ RewriteTask(o, e) \/ completeTask(o, e)
      PROVE  CommitShape
  BY <1>1, QuietCommitSteps
<1>2. ASSUME (\E t \in Tasks : Expire(t)) \/ UNCHANGED vars PROVE CommitShape
  BY <1>2, QuietCommitSteps
<1>3. ASSUME NEW o \in Owners,
             \/ takeOverTaskQueue(o) \/ allocTaskIDBlock(o) \/ appendTasks(o)
             \/ persistAck(o) \/ Stop(o)
      PROVE  CommitShape
  BY <1>3, IssueCommitSteps
<1>4. ASSUME NEW o \in Owners,
             \/ LeaseRefused(o) \/ LeaseError(o)
             \/ TasksCreated(o) \/ TasksRefused(o) \/ TasksError(o)
             \/ AckAnswered(o) \/ FinalAnswered(o)
      PROVE  CommitShape
  BY <1>4, AnswerCommitSteps
<1>5. ASSUME NEW o \in Owners, tqCtxCancel(o) \/ Crash(o) PROVE CommitShape
  BY <1>5, UnloadCommitSteps
<1>6. ASSUME (\E o \in Owners : LeaseGranted(o)) \/ (\E w \in late : LateCommit(w))
      PROVE  CommitShape
  BY <1>6, LeaseCommitSteps
<1> QED
  BY <1>1, <1>2, <1>3, <1>4, <1>5, <1>6 DEF Next
=============================================================================
