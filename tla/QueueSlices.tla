----------------------------- MODULE QueueSlices -----------------------------
(***************************************************************************)
(* Slices of a history task queue: a slice is responsible for the tasks in *)
(* a range of keys that pass a predicate.  It knows which parts of its     *)
(* range are still to be read (its iterators) and which tasks it has read  *)
(* and not yet seen acknowledged.  Slices are split, merged, compacted,    *)
(* shrunk and cleared; none of that may lose a task.                       *)
(*                                                                         *)
(* A task is its key.  A predicate is the set of the groups (namespaces)   *)
(* that it lets pass; Other stands for the namespaces without tasks here,  *)
(* so that the complement of a set of groups is never empty.               *)
(*                                                                         *)
(* Sources: src/temporal/service/history/queues/{slice, scope, range,      *)
(* iterator, tracker, grouper}.go, src/temporal/service/history/tasks/     *)
(* predicates.go.                                                          *)
(***************************************************************************)
EXTENDS Naturals, FiniteSets, Sequences, FiniteSetsExt, Functions

CONSTANTS
    Keys,               \* task keys, natural numbers
    GroupOf,            \* the group of the task with a key
    Other,              \* a group of which there is no task
    MaxPredicateSize,   \* config; 0 is no limit
    MaxPendingKeys      \* shrinkPredicateMaxPendingKeys

Universal == Range(GroupOf) \cup {Other}

ASSUME SliceAssumption ==
    /\ Keys \subseteq Nat \ {0} /\ IsFiniteSet(Keys)
    /\ DOMAIN GroupOf = Keys
    /\ Other \notin Range(GroupOf)
    /\ MaxPredicateSize \in Nat /\ MaxPendingKeys \in Nat

-----------------------------------------------------------------------------
(* Ranges *)

KeyRange == [min : Nat, max : Nat]
NewRange(a, b) == [min |-> a, max |-> b]

\* The operators on ranges also take scopes and slices, which have a range.
ContainsKey(r, k) == r.min <= k /\ k < r.max
CanSplit(r, k) == ContainsKey(r, k) \/ r.max = k
CanMerge(r, q) == r.min <= q.max /\ r.max >= q.min

\* appendIterator over iterators in the order of their ranges: those that
\* overlap or touch become one.
MergedRanges(S) ==
    LET starts == {r.min : r \in {x \in S :
                       ~\E q \in S : q.min < x.min /\ x.min <= q.max}}
        End(a) == Min({r.max : r \in {x \in S :
                      /\ a <= x.max
                      /\ ~\E q \in S : q.min <= x.max /\ x.max < q.max}})
    IN {NewRange(a, End(a)) : a \in starts}

-----------------------------------------------------------------------------
(* Scopes and slices *)

\* Scope.IsEmpty
IsEmpty(s) == s.min = s.max \/ s.groups = {}
InScope(s, k) == ContainsKey(s, k) /\ GroupOf[k] \in s.groups
Scope(s) == [min |-> s.min, max |-> s.max, groups |-> s.groups]
ScopeSet == [min : Nat, max : Nat, groups : SUBSET Universal]

\* pending: pendingExecutables, of which acked are in TaskStateAcked.
\* recounted: groups that pendingPerKey counts although they may have no pending
\* task left, because an executable was tracked twice.
SliceSet ==
    [min : Nat, max : Nat, groups : SUBSET Universal, iters : SUBSET KeyRange,
     pending : SUBSET Keys, acked : SUBSET Keys, recounted : SUBSET Universal]

GroupsOf(ks) == {GroupOf[k] : k \in ks}
PendingPerKey(s) == GroupsOf(s.pending) \cup s.recounted

\* A predicate is a set of groups or the complement of one.
PredicateSize(g) == Cardinality(IF Other \in g THEN Universal \ g ELSE g)

\* ensurePredicateSizeLimit
Limited(g) ==
    IF MaxPredicateSize > 0 /\ PredicateSize(g) > MaxPredicateSize
    THEN Universal ELSE g

NewSlice(scope) ==
    [min |-> scope.min, max |-> scope.max, groups |-> Limited(scope.groups),
     iters |-> {NewRange(scope.min, scope.max)},
     pending |-> {}, acked |-> {}, recounted |-> {}]

\* executableTracker.split: the executables of s that are in ks.
Tracking(s, ks) == [s EXCEPT !.pending = @ \cap ks, !.acked = @ \cap ks]

\* (Mutant: an iterator across the key stays with the left side only.)
SplitByRangeKeepsLeft(s, k) ==
    LET left == {it \in s.iters : it.min < k \/ it.max <= k}
        l == [s EXCEPT !.max = k, !.iters = {NewRange(it.min, Min({it.max, k}))
                                                 : it \in left}]
        r == [s EXCEPT !.min = k, !.iters = @ \ left, !.recounted = {}]
    IN <<Tracking(l, {x \in Keys : x < k}), Tracking(r, {x \in Keys : x >= k})>>

SplitByRange(s, k) ==
    LET cut == {it \in s.iters : it.min < k /\ k < it.max}
        l == [s EXCEPT !.max = k,
                       !.iters = {it \in @ : it.max <= k}
                           \cup {NewRange(it.min, k) : it \in cut}]
        r == [s EXCEPT !.min = k,
                       !.iters = {it \in @ : it.max > k /\ it.min >= k}
                           \cup {NewRange(k, it.max) : it \in cut},
                       !.recounted = {}]
    IN <<Tracking(l, {x \in Keys : x < k}), Tracking(r, {x \in Keys : x >= k})>>

\* SplitByPredicate: both sides have all the iterators.
SplitByPredicate(s, g) ==
    LET Side(h) == Tracking([s EXCEPT !.groups = Limited(h)],
                            {x \in Keys : GroupOf[x] \in h})
    IN [pass |-> Side(s.groups \cap g),
        fail |-> [Side(s.groups \ g) EXCEPT !.recounted = {}]]

\* executableTracker.merge and mergeIterators: a slice over the given scope.
\* The smaller map is added to the larger one.
MergedInto(scope, s, q) ==
    LET swap == Cardinality(s.pending) < Cardinality(q.pending)
        big == IF swap THEN q ELSE s
        small == IF swap THEN s ELSE q
    IN [min |-> scope.min, max |-> scope.max, groups |-> Limited(scope.groups),
        iters |-> MergedRanges(s.iters \cup q.iters),
        pending |-> s.pending \cup q.pending,
        acked |-> (big.acked \ small.pending) \cup small.acked,
        recounted |-> big.recounted \cup GroupsOf(s.pending \cap q.pending)]

Hull(s, q) ==
    [min |-> Min({s.min, q.min}), max |-> Max({s.max, q.max}),
     groups |-> s.groups \cup q.groups]

CompactWithSlice(s, q) == MergedInto(Hull(s, q), s, q)

\* mergeByPredicate, for slices with the same range.
mergeByPredicate(s, q) ==
    MergedInto([Scope(s) EXCEPT !.groups = @ \cup q.groups], s, q)

\* The lists one after the other.
Joined(lists) ==
    LET upTo[n \in DOMAIN lists] ==
            IF n = 1 THEN lists[1] ELSE upTo[n - 1] \o lists[n]
    IN IF Len(lists) = 0 THEN <<>> ELSE upTo[Len(lists)]

NonEmpty(slices) ==
    Joined([i \in DOMAIN slices |-> IF IsEmpty(slices[i]) THEN <<>>
                                    ELSE <<slices[i]>>])

\* MergeWithSlice, for slices that overlap or touch, s first.  Slices with
\* different predicates become a left, a middle and a right one.
MergeInOrder(s, q) ==
    LET cur == SplitByRange(s, q.min)
        rest == cur[2]
        parts == IF CanSplit(q, rest.max)
                 THEN LET inc == SplitByRange(q, rest.max)
                      IN <<cur[1], mergeByPredicate(rest, inc[1]), inc[2]>>
                 ELSE LET mid == SplitByRange(rest, q.max)
                      IN <<cur[1], mergeByPredicate(mid[1], q), mid[2]>>
    IN IF s.groups = q.groups THEN <<MergedInto(Hull(s, q), s, q)>>
       ELSE NonEmpty(parts)

MergeWithSlice(s, q) ==
    IF s.min > q.min THEN MergeInOrder(q, s) ELSE MergeInOrder(s, q)

\* What shrinkRange must keep: pending tasks and unread ranges.
LowKeys(s) == (s.pending \ s.acked) \cup {it.min : it \in s.iters}

\* ShrinkScope: acknowledged executables are forgotten, then the range and, when
\* all is read, the predicate are fitted to what is left.
ShrinkScope(s) ==
    LET t == Tracking(s, s.pending \ s.acked)
        low == LowKeys(s)
        keep == s.iters # {} \/ Cardinality(PendingPerKey(t)) > MaxPendingKeys
    IN [t EXCEPT !.min = IF low = {} THEN s.max ELSE Min(low),
                 !.groups = IF keep THEN @ ELSE Limited(PendingPerKey(t))]

\* Clear: what was read and is not acknowledged is cancelled and read again.
Clear(s) ==
    LET t == ShrinkScope(s)
    IN [t EXCEPT !.iters = {NewRange(t.min, t.max)}, !.pending = {},
                 !.acked = {}, !.recounted = {}]

\* One turn of the loop in SelectTasks: the next task of the first iterator that
\* is in the store, or the end of that iterator.  A batch is several turns, and
\* a failed read ends it after any of them.
SelectTask(s, stored) ==
    LET first == CHOOSE it \in s.iters : \A i \in s.iters : it.min <= i.min
        found == {k \in stored : ContainsKey(first, k)}
        k == Min(found)
        rest == (s.iters \ {first}) \cup {NewRange(k + 1, first.max)}
    IN IF found = {} THEN [s EXCEPT !.iters = @ \ {first}]
       ELSE IF GroupOf[k] \notin s.groups THEN [s EXCEPT !.iters = rest]
       ELSE [s EXCEPT !.iters = rest, !.pending = @ \cup {k}, !.acked = @ \ {k},
                      !.recounted = @ \cup GroupsOf({k} \cap s.pending)]
=============================================================================
