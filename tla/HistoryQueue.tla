----------------------------- MODULE HistoryQueue -----------------------------
(***************************************************************************)
(* The queue processor of one task category in a history shard: it makes   *)
(* new ranges of task keys readable, loads their tasks through its         *)
(* readers, sees them acknowledged, moves slices from reader to reader     *)
(* when too much is pending, deletes the rows below everything it still    *)
(* needs and saves its state in the shard row, from which the next owner   *)
(* of the shard starts.                                                    *)
(*                                                                         *)
(* Tasks are written at keys at or above the high read watermark, which    *)
(* never moves back: module ShardTasks has how the shard keeps that        *)
(* promise.  Time (back-off, throttling, pauses, poll and checkpoint       *)
(* timers) is abstracted: whatever may happen after a delay may happen now.*)
(* The thresholds that pick the groups to move are abstracted to any       *)
(* choice.  Cancelled executables are dropped: if one still runs, its task *)
(* is executed once more than the model says.                              *)
(*                                                                         *)
(* Sources: src/temporal/service/history/queues/{queue_base, reader,       *)
(* reader_group, mitigator, action_*}.go.                                  *)
(***************************************************************************)
EXTENDS QueueSlices

CONSTANTS
    Scheduled,              \* whether the category is a scheduled one (timers)
    Watermarks,             \* the high read watermarks that the shard reports
    MaxReaderCount,         \* config
    MaxPendingTasksCount,   \* of a reader: it loads only below this total
    CriticalPending,        \* config PendingTasksCriticalCount
    CriticalSliceCount,     \* config SliceCountCriticalThreshold
    MinPendingToMove,       \* moveSliceDefaultReaderMinPendingTaskCount
    MinSlicesToMove,        \* moveSliceDefaultReaderMinSliceCount
    WatermarkPrecision,     \* monitorWatermarkPrecision
    MaxDisruptions          \* bound: alerts, failed deletions and restarts

ReaderIDs == 0 .. MaxReaderCount - 1
DefaultReaderId == 0
End == Max(Keys) + 1

\* From 6 slices on, the preferred number can be 2 below the critical one, and
\* pickCompactCandidates can be asked for a negative number of candidates.
ASSUME QueueAssumption ==
    /\ Keys # {}
    /\ Scheduled \in BOOLEAN
    /\ Watermarks \subseteq 1 .. End
    /\ MaxReaderCount \in Nat \ {0, 1}
    /\ MaxPendingTasksCount \in [ReaderIDs -> Nat]
    /\ CriticalPending \in Nat
    /\ CriticalSliceCount \in 1 .. 5
    /\ MinPendingToMove \in Nat /\ MinSlicesToMove \in Nat
    /\ WatermarkPrecision \in Nat \ {0}
    /\ MaxDisruptions \in Nat

VARIABLES
    stored,      \* keys of the tasks in the store
    executed,    \* keys of the tasks whose execution was acknowledged (history)
    watermark,   \* exclusive high read watermark of the shard
    nonReadable, \* nonReadableScope.Range.InclusiveMin
    readers,     \* ReaderGroup.readerMap: of each reader its slices and next,
                 \* the index of nextReadSlice, 0 when nil or not in the list
    deletion,    \* exclusiveDeletionHighWatermark
    shardInfo,   \* queue state in the shard's memory
    saved,       \* queue state in the shard row
    disruptions  \* how many there were

vars == <<stored, executed, watermark, nonReadable, readers, deletion,
          shardInfo, saved, disruptions>>

-----------------------------------------------------------------------------
(* Readers *)

NewReader(slices) ==
    [slices |-> slices, next |-> IF slices = <<>> THEN 0 ELSE 1]

\* resetNextReadSliceLocked
Reset(slices) ==
    LET unread == {i \in DOMAIN slices : slices[i].iters # {}}
    IN [slices |-> slices,
        next |-> IF unread = {} THEN 0 ELSE Min(unread)]

WithReader(rs, r, reader) ==
    [x \in DOMAIN rs \cup {r} |-> IF x = r THEN reader ELSE rs[x]]

Front(list) == SubSeq(list, 1, Len(list) - 1)
Last(list) == list[Len(list)]

\* (Mutant: a slice that overlaps the last one is appended all the same.)
AppendSlice(slices, s) == IF IsEmpty(s) THEN slices ELSE Append(slices, s)

mergeOrAppendSlice(slices, s) ==
    IF IsEmpty(s) THEN slices
    ELSE IF slices = <<>> \/ ~CanMerge(Last(slices), s) THEN Append(slices, s)
    ELSE Front(slices) \o MergeWithSlice(Last(slices), s)

\* A turn of the loops in MergeSlices, after n others: the next slice of both
\* lists in the order of their minimum, the incoming one first on a tie.  merged
\* has the new list and how many of the present slices are in it.
MergeTurn(slices, incoming, n, merged) ==
    LET i == merged.taken + 1
        j == n - merged.taken + 1
        current == /\ i <= Len(slices)
                   /\ j <= Len(incoming) => slices[i].min < incoming[j].min
    IN IF current
       THEN [taken |-> i, list |-> mergeOrAppendSlice(merged.list, slices[i])]
       ELSE [taken |-> merged.taken,
             list |-> mergeOrAppendSlice(merged.list, incoming[j])]

MergeSlices(slices, incoming) ==
    LET turns == Len(slices) + Len(incoming)
        merged[n \in 0 .. turns] ==
            IF n = 0 THEN [taken |-> 0, list |-> <<>>]
            ELSE MergeTurn(slices, incoming, n - 1, merged[n - 1])
    IN merged[turns].list

\* GetOrCreateReader and MergeSlices, which returns early without slices.
MoveTo(rs, r, moved) ==
    LET slices == IF r \in DOMAIN rs THEN rs[r].slices ELSE <<>>
    IN IF moved # <<>> THEN WithReader(rs, r, Reset(MergeSlices(slices, moved)))
       ELSE IF r \in DOMAIN rs THEN rs ELSE WithReader(rs, r, NewReader(<<>>))

\* What a splitter does to a slice: the slices that stay and those that move.
Untouched(s) == [stay |-> <<s>>, move |-> <<>>]
Split(stay, move) == [stay |-> NonEmpty(stay), move |-> move]

\* SplitSlices of reader r, parts[i] being what becomes of its slice i.
Stay(rs, r, parts) ==
    WithReader(rs, r, Reset(Joined([i \in DOMAIN parts |-> parts[i].stay])))
Moved(parts) == Joined([i \in DOMAIN parts |-> parts[i].move])

\* ShrinkSlices: slices that became empty are removed.  An element that was
\* removed from the list has no successor any more.
ShrinkSlices(reader) ==
    LET shrunk == [i \in DOMAIN reader.slices |-> ShrinkScope(reader.slices[i])]
        n == reader.next
        gone == n = 0 \/ (n # 0 /\ IsEmpty(shrunk[n]))
    IN [slices |-> NonEmpty(shrunk),
        next |-> IF gone THEN 0 ELSE Len(NonEmpty(SubSeq(shrunk, 1, n)))]

Shrunk(rs) == [r \in DOMAIN rs |-> ShrinkSlices(rs[r])]

PendingCount(slices) ==
    MapThenSumSet(LAMBDA i : Cardinality(slices[i].pending), DOMAIN slices)
TotalPending(rs) ==
    MapThenSumSet(LAMBDA r : PendingCount(rs[r].slices), DOMAIN rs)
TotalSlices(rs) == MapThenSumSet(LAMBDA r : Len(rs[r].slices), DOMAIN rs)

-----------------------------------------------------------------------------
(* Actions of the queue on its readers: what they turn the readers into *)

Pending(slices) == UNION {s.pending : s \in Range(slices)}
PendingGroups(slices) == UNION {PendingPerKey(s) : s \in Range(slices)}

\* actionMoveGroup for reader r: its groups with many pending tasks go to the
\* next reader, moving being the groups above the threshold of each reader.
MoveGroupOf(rs, r, moving) ==
    LET slices == rs[r].slices
        groups == moving[r] \cap PendingGroups(slices)
        parts == [i \in DOMAIN slices |->
            LET s == slices[i]
                split == SplitByPredicate(s, groups)
            IN IF s.min = s.max \/ s.groups \cap groups = {}
               THEN Untouched(s)
               ELSE Split(<<split.fail>>, <<split.pass>>)]
    IN IF r \notin DOMAIN rs THEN rs
       ELSE IF groups = {} THEN rs
       ELSE MoveTo(Stay(rs, r, parts), r + 1, Moved(parts))

\* From the first reader to the last but one.
MoveGroup(rs, moving) ==
    LET after[n \in 0 .. MaxReaderCount - 1] ==
            IF n = 0 THEN rs ELSE MoveGroupOf(after[n - 1], n - 1, moving)
    IN after[MaxReaderCount - 1]

\* slicePredicateAction: slices of the default reader that are for some groups
\* only go to the next reader.
SlicePredicate(rs) ==
    LET slices == rs[DefaultReaderId].slices
        parts == [i \in DOMAIN slices |->
                    IF slices[i].groups = Universal THEN Untouched(slices[i])
                    ELSE Split(<<>>, <<slices[i]>>)]
        few == /\ PendingCount(slices) < MinPendingToMove
               /\ Len(slices) < MinSlicesToMove
    IN IF DefaultReaderId \notin DOMAIN rs THEN rs
       ELSE IF Moved(parts) = <<>> \/ few THEN rs
       ELSE MoveTo(Stay(rs, DefaultReaderId, parts), DefaultReaderId + 1,
                   Moved(parts))

\* Slices of which the pending tasks of some groups can be cleared.
Clearable(rs) ==
    UNION {UNION {[reader : {r}, slice : {s}, group : PendingPerKey(s)] :
                     s \in Range(rs[r].slices)} : r \in DOMAIN rs}

\* findSliceToClear: of each group, the newest slices first.
SlicesToClear(rs) ==
    {V \in SUBSET Clearable(rs) :
        /\ V # {}
        /\ \A v \in V, w \in Clearable(rs) \ V :
              v.group = w.group => v.slice.min >= w.slice.min}

\* keysToClearPerSlice
GroupsToClear(toClear, r, s) ==
    {v.group : v \in {x \in toClear : x.reader = r /\ x.slice = s}}

\* splitAndClearSlice for reader r: what is cleared goes to the next reader, if
\* there is one.
ClearOf(rs, r, toClear) ==
    LET slices == rs[r].slices
        cleared == [i \in DOMAIN slices |->
            IF GroupsToClear(toClear, r, slices[i]) # {} THEN Clear(slices[i])
            ELSE slices[i]]
        parts == [i \in DOMAIN slices |->
            LET groups == GroupsToClear(toClear, r, slices[i])
                split == SplitByPredicate(slices[i], groups)
            IN IF groups = {} THEN Untouched(slices[i])
               ELSE Split(<<split.fail>>, <<Clear(split.pass)>>)]
        rest == Stay(rs, r, parts)
    IN IF r \notin DOMAIN rs THEN rs
       ELSE IF r = MaxReaderCount - 1 THEN WithReader(rs, r, Reset(cleared))
       ELSE IF Moved(parts) = <<>> THEN rest
       ELSE MoveTo(rest, r + 1, Moved(parts))

\* The readers come from a Go map, in any order.
Orders == Injection(1 .. MaxReaderCount, ReaderIDs)

\* splitAndClearSlice.  A slice that was merged with one moved to its reader
\* before that reader has its turn is another slice, and is not cleared.
SplitAndClear(rs, toClear, order) ==
    LET after[n \in 0 .. MaxReaderCount] ==
            IF n = 0 THEN rs ELSE ClearOf(after[n - 1], order[n], toClear)
    IN after[MaxReaderCount]

\* actionQueuePendingTask
PendingTaskOutcomes(rs) ==
    LET cur == Shrunk(rs)
    IN IF TotalPending(cur) <= CriticalPending THEN {cur}
       ELSE UNION {{SplitAndClear(cur, V, order) : order \in Orders} :
                      V \in SlicesToClear(cur)}

\* actionReaderStuck: what lies in [low, high) goes to the next reader.
ReaderStuck(rs, low, high) ==
    LET slices == rs[DefaultReaderId].slices
        Part(s) ==
            LET atLow == IF CanSplit(s, low) THEN SplitByRange(s, low)
                         ELSE <<s>>
                s1 == Last(atLow)
                atHigh == IF CanSplit(s1, high) THEN SplitByRange(s1, high)
                          ELSE <<s1>>
            IN IF low <= s.min /\ s.max <= high THEN Split(<<>>, <<s>>)
               ELSE IF Len(atLow) + Len(atHigh) = 2 THEN Untouched(s)
               ELSE Split(Front(atLow) \o Tail(atHigh), <<atHigh[1]>>)
        parts == [i \in DOMAIN slices |-> Part(slices[i])]
        rest == Stay(rs, DefaultReaderId, parts)
    IN IF Moved(parts) = <<>> THEN rest
       ELSE MoveTo(rest, DefaultReaderId + 1, Moved(parts))

\* The last slice of the list is merged with s.
CompactLast(list, s) == Append(Front(list), CompactWithSlice(Last(list), s))

\* CompactSlices: the slices with an index in chosen are merged into the one
\* before them.
CompactSlices(slices, chosen) ==
    LET list[n \in 0 .. Len(slices)] ==
            IF n = 0 THEN <<>>
            ELSE IF n \in chosen THEN CompactLast(list[n - 1], slices[n])
            ELSE Append(list[n - 1], slices[n])
    IN list[Len(slices)]

\* findAndCompactLowSliceCount: the closest neighbours are merged until at most
\* target slices are left, or no candidate.  The slices that may be merged are
\* those for every group (universal) or those for some groups only.
CompactOutcomes(rs, eligibleReaders, universal, target) ==
    LET Eligible(s) == (s.groups = Universal) = universal
        candidates ==
            {c \in (DOMAIN rs \cap eligibleReaders) \X (1 .. TotalSlices(rs)) :
                /\ c[2] \in DOMAIN rs[c[1]].slices \ {1}
                /\ Eligible(rs[c[1]].slices[c[2]])
                /\ Eligible(rs[c[1]].slices[c[2] - 1])}
        Distance(c) == rs[c[1]].slices[c[2]].min - rs[c[1]].slices[c[2] - 1].max
        count == Min({TotalSlices(rs) - target, Cardinality(candidates)})
        picks == {C \in kSubset(count, candidates) :
                    \A c \in C, d \in candidates \ C :
                        Distance(c) <= Distance(d)}
        Chosen(C, r) == {c[2] : c \in {x \in C : x[1] = r}}
    IN {[r \in DOMAIN rs |->
            IF r \in eligibleReaders
            THEN Reset(CompactSlices(rs[r].slices, Chosen(C, r)))
            ELSE rs[r]] : C \in picks}

\* actionSliceCount: four stages, each for what the earlier ones left over.
SliceCountOutcomes(rs) ==
    LET default == {DefaultReaderId}
        others == ReaderIDs \ default
        preferred == (CriticalSliceCount * 4) \div 5
        Stage(R, ids, universal, target, enough) ==
            UNION {IF TotalSlices(x) <= enough THEN {x}
                   ELSE CompactOutcomes(x, ids, universal, target) : x \in R}
        s0 == Shrunk(rs)
        s1 == CompactOutcomes(s0, others, FALSE, preferred)
        s2 == Stage(s1, default, FALSE, preferred, preferred)
        s3 == Stage(s2, others, TRUE, CriticalSliceCount, preferred)
    IN IF TotalSlices(s0) <= CriticalSliceCount THEN {s0}
       ELSE Stage(s3, default, TRUE, CriticalSliceCount, CriticalSliceCount)

-----------------------------------------------------------------------------
(* Steps of the queue *)

\* (Mutant: only the default reader holds back the deletion.)
MarkOfDefault(state) ==
    Min({state.high} \cup {state.scopes[r][1].min :
                              r \in DOMAIN state.scopes \cap {DefaultReaderId}})

\* newQueueBase: where deletion went on to is computed from the saved state.
MarkOf(state) ==
    Min({state.high} \cup {state.scopes[r][1].min : r \in DOMAIN state.scopes})

\* (Mutant: only the default reader's scopes are kept.)
NewQueueStateOfDefault(high, rs) ==
    [high |-> high,
     scopes |-> [r \in {x \in DOMAIN rs \cap {DefaultReaderId} :
                            rs[x].slices # <<>>} |->
                    [i \in DOMAIN rs[r].slices |-> Scope(rs[r].slices[i])]]]

NewQueueState(high, rs) ==
    [high |-> high,
     scopes |-> [r \in {x \in DOMAIN rs : rs[x].slices # <<>>} |->
                    [i \in DOMAIN rs[r].slices |-> Scope(rs[r].slices[i])]]]

Init ==
    /\ stored = {} /\ executed = {}
    /\ watermark = 1 /\ nonReadable = 1 /\ deletion = 1
    /\ readers = <<>>
    /\ shardInfo = NewQueueState(1, <<>>) /\ saved = shardInfo
    /\ disruptions = 0

Disruption ==
    disruptions < MaxDisruptions /\ disruptions' = disruptions + 1

\* A transaction of the shard stores a task (see ShardTasks).
WriteTask(k) ==
    /\ k >= watermark /\ k \notin stored
    /\ stored' = stored \cup {k}
    /\ UNCHANGED <<executed, watermark, nonReadable, readers, deletion,
                   shardInfo, saved, disruptions>>

\* processNewRange up to key m: the new range is a slice of its own (force, when
\* forceNewSliceDuration is over) or merged into the last ones.
processNewRange(m, force) ==
    LET new == NewSlice([min |-> nonReadable, max |-> m, groups |-> Universal])
        slices == readers[DefaultReaderId].slices
        reader == IF DefaultReaderId \notin DOMAIN readers
                  THEN NewReader(<<new>>)
                  ELSE IF force THEN Reset(slices \o NonEmpty(<<new>>))
                  ELSE Reset(MergeSlices(slices, <<new>>))
    IN /\ m >= watermark
       /\ watermark' = m /\ nonReadable' = m
       /\ readers' = WithReader(readers, DefaultReaderId, reader)
       /\ UNCHANGED <<stored, executed, deletion, shardInfo, saved,
                      disruptions>>

\* (Mutant: the element after the last is not nil.)
NextElementUnchecked(slices, n) == n + 1

\* Next of a list element
NextElement(slices, n) == IF n = Len(slices) THEN 0 ELSE n + 1

\* loadAndSubmitTasks, one task at a time.
loadAndSubmitTasks(r) ==
    LET reader == readers[r]
        n == reader.next
        s == IF reader.slices[n].iters = {} THEN reader.slices[n]
             ELSE SelectTask(reader.slices[n], stored)
        next == IF s.iters # {} THEN n ELSE NextElement(reader.slices, n)
    IN /\ r \in DOMAIN readers /\ n # 0
       /\ TotalPending(readers) < MaxPendingTasksCount[r]
       /\ readers' = [readers EXCEPT
            ![r] = [slices |-> [@.slices EXCEPT ![n] = s], next |-> next]]
       /\ UNCHANGED <<stored, executed, watermark, nonReadable, deletion,
                      shardInfo, saved, disruptions>>

\* An executable is executed and acknowledged.
Ack(r, i, k) ==
    /\ k \in readers[r].slices[i].pending \ readers[r].slices[i].acked
    /\ executed' = executed \cup {k}
    /\ readers' = [readers EXCEPT ![r].slices[i].acked = @ \cup {k}]
    /\ UNCHANGED <<stored, watermark, nonReadable, deletion, shardInfo, saved,
                   disruptions>>

\* The move-group action runs when it is configured, else slice-predicate.
CheckpointActions(rs) ==
    {SlicePredicate(rs)} \cup
    {MoveGroup(rs, g) : g \in
        [0 .. MaxReaderCount - 2 ->
            SUBSET UNION {PendingGroups(rs[r].slices) : r \in DOMAIN rs}]}

\* rangeCompleteTasks: the rows that are left.
RangeCompleted(mark) == {k \in stored : ~(deletion <= k /\ k < mark)}

\* The end of checkpoint: rows are deleted, then the state is set.
CompleteAndSet(mark, state) ==
    /\ stored' = RangeCompleted(mark)
    /\ deletion' = Max({mark, deletion})
    /\ shardInfo' = state

\* (Mutant: the state is set although the rows may not be deleted.)
FailAndSet(mark, state) ==
    /\ mark >= deletion
    /\ stored' \in {stored, RangeCompleted(mark)}
    /\ shardInfo' = state /\ UNCHANGED deletion

\* rangeCompleteTasks returns an error, with or without effect.  It is called
\* when the mark moves, and after a renewal of the shard's range also when not.
FailToComplete(mark, state) ==
    /\ mark >= deletion
    /\ stored' \in {stored, RangeCompleted(mark)}
    /\ UNCHANGED <<deletion, shardInfo>>

\* The shard, which is being acquired again, does not take the state.
FailToSet(mark, state) ==
    /\ stored' = RangeCompleted(mark)
    /\ deletion' = Max({mark, deletion})
    /\ UNCHANGED shardInfo

\* The readers a checkpoint leaves behind, from the ones it finds.
CheckpointReaders(rs) ==
    LET Needed(acted) == {r \in DOMAIN acted :
                            r = DefaultReaderId \/ acted[r].slices # <<>>}
    IN {[r \in Needed(acted) |-> acted[r]] :
            acted \in CheckpointActions(Shrunk(rs))}

\* checkpoint, from the readers as the mitigation of an alert left them.
checkpoint(rs) ==
    \E kept \in CheckpointReaders(rs) :
        LET state == NewQueueState(nonReadable, kept)
        IN /\ readers' = kept
           /\ CompleteAndSet(MarkOf(state), state)
           /\ UNCHANGED <<executed, watermark, nonReadable, saved>>

\* checkpoint when one of the calls it ends with fails.
checkpointFails(rs) ==
    \E kept \in CheckpointReaders(rs) :
        LET state == NewQueueState(nonReadable, kept)
        IN /\ readers' = kept
           /\ \/ FailToComplete(MarkOf(state), state)
              \/ FailToSet(MarkOf(state), state)
           /\ UNCHANGED <<executed, watermark, nonReadable, saved>>

Checkpoint ==
    \/ checkpoint(readers) /\ UNCHANGED disruptions
    \/ Disruption /\ checkpointFails(readers)

\* handleAlert: mitigate and checkpoint.
AlertPendingTasks ==
    /\ Disruption
    /\ TotalPending(readers) > CriticalPending
    /\ \E rs \in PendingTaskOutcomes(readers) : checkpoint(rs)

AlertSliceCount ==
    /\ Disruption
    /\ TotalSlices(readers) > CriticalSliceCount
    /\ \E rs \in SliceCountOutcomes(readers) : checkpoint(rs)

\* The watermark of the default reader is the key of a task it has read,
\* truncated; the keys up to the next watermark are moved.
AlertReaderStuck(k) ==
    /\ Scheduled /\ Disruption
    /\ DefaultReaderId \in DOMAIN readers
    /\ \/ k \in executed
       \/ \E r \in DOMAIN readers : k \in Pending(readers[r].slices)
    /\ \E low \in 0 .. k :
        /\ low % WatermarkPrecision = 0 /\ k < low + WatermarkPrecision
        /\ checkpoint(ReaderStuck(readers, low, low + WatermarkPrecision))

\* The shard writes its row (see ShardTasks).
UpdateShard ==
    /\ saved' = shardInfo
    /\ UNCHANGED <<stored, executed, watermark, nonReadable, readers, deletion,
                   shardInfo, disruptions>>

\* The shard is loaded by another host, or again by this one: newQueueBase.
Restart ==
    /\ Disruption
    /\ shardInfo' = saved
    /\ nonReadable' = saved.high
    /\ deletion' = MarkOf(saved)
    /\ readers' = [r \in DOMAIN saved.scopes |->
            NewReader([i \in DOMAIN saved.scopes[r] |->
                          NewSlice(saved.scopes[r][i])])]
    /\ UNCHANGED <<stored, executed, watermark, saved>>

Next ==
    \/ \E k \in Keys : WriteTask(k) \/ AlertReaderStuck(k)
    \/ \E m \in Watermarks, force \in BOOLEAN : processNewRange(m, force)
    \/ \E r \in ReaderIDs : loadAndSubmitTasks(r)
    \/ \E r \in DOMAIN readers :
          \E i \in DOMAIN readers[r].slices, k \in Keys : Ack(r, i, k)
    \/ Checkpoint \/ AlertPendingTasks \/ AlertSliceCount
    \/ UpdateShard \/ Restart

Spec == Init /\ [][Next]_vars

-----------------------------------------------------------------------------
(* Properties *)

\* Every variable holds values of its kind; nextReadSlice is a slice of the list
\* or nil.
TypeOK ==
    /\ stored \subseteq Keys /\ executed \subseteq Keys
    /\ {watermark, nonReadable, deletion} \subseteq 1 .. End
    /\ DOMAIN readers \subseteq ReaderIDs
    /\ \A r \in DOMAIN readers :
          /\ readers[r].next \in 0 .. Len(readers[r].slices)
          /\ Range(readers[r].slices) \subseteq SliceSet
    /\ \A state \in {shardInfo, saved} :
          /\ state.high \in 1 .. End
          /\ DOMAIN state.scopes \subseteq ReaderIDs
          /\ \A r \in DOMAIN state.scopes : Range(state.scopes[r]) \subseteq ScopeSet

Unfinished == stored \ executed

\* A task that is not executed is still ahead of the queue, or some slice has it
\* loaded or is still going to read it.
EveryTaskCovered ==
    \A k \in Unfinished :
        \/ k >= nonReadable
        \/ \E r \in DOMAIN readers : \E s \in Range(readers[r].slices) :
              \/ k \in s.pending
              \/ InScope(s, k) /\ \E it \in s.iters : ContainsKey(it, k)

\* Whoever loads the shard from its row reads every task that is not executed.
SavedStateCovers ==
    \A k \in Unfinished :
        \/ k >= saved.high
        \/ \E r \in DOMAIN saved.scopes :
              \E scope \in Range(saved.scopes[r]) : InScope(scope, k)

\* No row is left below the point from which a new owner deletes.
NoRowLeftBehind == \A k \in stored : k >= MarkOf(saved)

\* What the panics in SelectTasks, split, AppendSlices and MergeSlices rule out:
\* the slices of a reader are in order and disjoint, and what a slice tracks or
\* is going to read is in its scope.
SlicesInOrder ==
    \A r \in DOMAIN readers :
        LET slices == readers[r].slices
        IN /\ \A i, j \in DOMAIN slices :
                 i < j => slices[i].max <= slices[j].min
           /\ \A s \in Range(slices) :
                /\ s.min <= s.max
                /\ \A k \in s.pending : InScope(s, k)
                /\ \A it \in s.iters : s.min <= it.min /\ it.max <= s.max

\* Only executed tasks are deleted.
DeletedWereExecuted == [][stored \ stored' \subseteq executed]_vars

\* When nextReadSlice is nil there are no more tasks to load: no unfinished task
\* is in a range that the reader still has to read.  (Not of the default reader:
\* each poll finds its first unread slice again.)
NoMoreTasksToLoad ==
    \A r \in DOMAIN readers \ {DefaultReaderId} :
        readers[r].next = 0 =>
            \A s \in Range(readers[r].slices), k \in Unfinished :
                InScope(s, k) /\ (\E it \in s.iters : ContainsKey(it, k))
                    => k \in s.pending
=============================================================================
