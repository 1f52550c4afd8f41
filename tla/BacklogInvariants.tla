------------------------- MODULE BacklogInvariants --------------------------
(***************************************************************************)
(* The inductive invariants behind the properties of TaskQueueBacklog, in  *)
(* three layers, each proved with the help of the ones before it:          *)
(*   LevelsInv: types, leases, and the levels and ids of each owner;       *)
(*   FreshInv:  no id is used twice, and what is read and acknowledged     *)
(*              comes in order;                                            *)
(*   OwedInv:   every task that is owed has a row that nobody has passed.  *)
(***************************************************************************)
EXTENDS TaskQueueBacklog

-----------------------------------------------------------------------------
(* First invariant: types, leases and the levels of each owner *)

\* A write leaves the rangeID as it found it, or is a lease and bumps it.  It
\* was conditioned on a rangeID the row has had, and its ack level lies in the
\* blocks that were handed out by then.
WriteOK(w) ==
    /\ w.new = IF w.kind = "lease" THEN w.prev + 1 ELSE w.prev
    /\ w.prev <= row.rangeID
    /\ w.ack <= BlockEnd(w.prev)
    /\ w.kind # "tasks" => w.tasks = {}

RowOK ==
    /\ row.ackLevel <= BlockEnd(row.rangeID)
    /\ \A s \in stored : s.id <= BlockEnd(row.rangeID)

LateOK ==
    \A w \in late :
        /\ WriteOK(w)
        /\ w.prev = row.rangeID
        /\ \A s \in w.tasks : s.id <= BlockEnd(row.rangeID)

\* What a write in progress has to do with the owner that issued it.
OpOK(o) ==
    op[o] # NoOp =>
        /\ WriteOK(op[o])
        /\ status[o] # "off"
        /\ status[o] = "loading" => op[o].kind = "lease"
        /\ Running(o) => op[o].prev = rangeID[o]
        /\ op[o].kind = "tasks" =>
            op[o].tasks = {[id |-> r.id, data |-> r.data] : r \in wtasks[o]}
        /\ op[o].kind = "lease" /\ Running(o) => appendCh[o] # <<>>

\* An owner that has no lease knows nothing.
UnloadedOK(o) ==
    ~Running(o) =>
        /\ rangeID[o] = 0 /\ dbAck[o] = 0 /\ maxReadLevel[o] = 0 /\ next[o] = 1
        /\ ackLevel[o] = -1 /\ readLevel[o] = -1
        /\ appendCh[o] = <<>> /\ wtasks[o] = {}
        /\ pump[o] = "idle" /\ batch[o] = {} /\ outstanding[o] = {}

LoadedOK(o) ==
    Running(o) =>
        /\ 1 <= rangeID[o]
        /\ 0 <= ackLevel[o]
        /\ dbAck[o] <= BlockEnd(rangeID[o])
        /\ ackLevel[o] <= readLevel[o]
        /\ readLevel[o] <= maxReadLevel[o]
        /\ maxReadLevel[o] < next[o]
        /\ next[o] <= BlockEnd(rangeID[o]) + 1

WriterOK(o) ==
    \A r \in wtasks[o] : maxReadLevel[o] < r.id /\ r.id < next[o]

ReaderOK(o) ==
    /\ pump[o] = "reading" =>
        readLevel[o] < readTo[o] /\ readTo[o] <= maxReadLevel[o]
    /\ pump[o] # "adding" => batch[o] = {}
    /\ \A s \in batch[o] : readLevel[o] <= s.id /\ s.id <= maxReadLevel[o]
    /\ \A e \in outstanding[o] : e.id <= readLevel[o]

OwnerOK(o) ==
    /\ OpOK(o)
    /\ UnloadedOK(o)
    /\ LoadedOK(o)
    /\ WriterOK(o)
    /\ ReaderOK(o)

LevelsInv ==
    /\ TypeOK
    /\ RowOK
    /\ LateOK
    /\ OneOwnerPerLease
    /\ \A o \in Owners : OwnerOK(o)

-----------------------------------------------------------------------------
(* Second invariant: fresh ids, and order in the reader *)

UniqueIds(S) == \A s, u \in S : s.id = u.id => s = u
Apart(S, T) == \A s \in S, u \in T : s.id # u.id

\* The owner that has the lease of the row.
Holder(o) == rangeID[o] # 0 /\ rangeID[o] = row.rangeID

\* A row has its own id, and so has every row that a late write may add.
RowsFresh ==
    /\ UniqueIds(stored)
    /\ \A w \in late : UniqueIds(w.tasks) /\ Apart(w.tasks, stored)
    /\ \A v, w \in late : v # w => Apart(v.tasks, w.tasks)

\* Rows that are stored or may be stored without their owner.
Written == stored \cup UNION {w.tasks : w \in late}

\* The ids the holder of the lease has given out or will give out are new.
WriterFresh(o) ==
    /\ UniqueIds(wtasks[o])
    /\ Holder(o) => /\ \A s \in Written : s.id < next[o]
                    /\ Apart(wtasks[o], Written)

\* Tasks are read in the order of their ids and acknowledged only when loaded;
\* what is persisted as the ack level is one the owner has had.
ReaderFresh(o) ==
    /\ UniqueIds(batch[o])
    /\ \A s \in batch[o] : readLevel[o] < s.id
    /\ \A e \in outstanding[o] : ackLevel[o] < e.id
    /\ \A e, f \in outstanding[o] : e.id = f.id => e.data = f.data

AckFresh(o) ==
    Running(o) => /\ dbAck[o] <= ackLevel[o]
                  /\ op[o] # NoOp => op[o].ack <= ackLevel[o]

FreshInv ==
    /\ RowsFresh
    /\ \A o \in Owners : WriterFresh(o) /\ ReaderFresh(o) /\ AckFresh(o)

-----------------------------------------------------------------------------
(* Third invariant: what is owed *)

\* A request to rewrite a task carries that task.
RewritesOK(o) ==
    \A r \in PendingAppends(o) : r.src # 0 =>
        /\ r.src <= readLevel[o]
        /\ \A e \in outstanding[o] : e.id = r.src => e.data = r.data

\* An id that the holder of the lease has given out, or gives out next, is above
\* everything that can become an ack level.
Unpassed(o, i) ==
    /\ row.ackLevel < i
    /\ \A w \in Committable : w.ack < i
    /\ \A p \in Owners \ {o} : BlockEnd(rangeID[p]) < i
HolderAhead(o) ==
    Holder(o) => Unpassed(o, next[o]) /\ \A r \in wtasks[o] : Unpassed(o, r.id)

\* Owner o has the row s loaded and not finished, or has still to load it.
Held(s, o) ==
    \/ \E e \in outstanding[o] : e.id = s.id /\ e.data = s.data /\ e.ph \in InHand
    \/ readLevel[o] < s.id /\ (s \in batch[o] \/ \A b \in batch[o] : b.id < s.id)

\* No ack level has passed row s, and none that is on its way will.
Kept(s) ==
    /\ s \in stored
    /\ row.ackLevel < s.id
    /\ \A w \in Committable : w.ack < s.id
    /\ \A o \in Owners : ackLevel[o] < s.id /\ Held(s, o)

OwedInv ==
    /\ \A o \in Owners : RewritesOK(o) /\ HolderAhead(o)
    /\ \A t \in Owed : \E s \in stored : s.data = t /\ Kept(s)

=============================================================================
