---------------------------- MODULE QueueReaders ----------------------------
(***************************************************************************)
(* Facts about the slices and readers of a history queue (modules          *)
(* QueueSlices and HistoryQueue), for any keys, groups and limits: every   *)
(* operation on slices (split, merge, compact, shrink, clear, select),     *)
(* every operation on the slices of a reader and every action on the       *)
(* readers of a queue (but actionReaderStuck, which is in                  *)
(* HistoryQueueProofs) keeps the slices of each reader in order and        *)
(* disjoint, and loses no task that is not executed.                       *)
(*                                                                         *)
(* A task is covered by a slice that tracks it or is going to read it.     *)
(* The loops of the code are recursive functions here: LoopRuns turns an   *)
(* invariant of their turns into a fact about what they return.            *)
(***************************************************************************)
EXTENDS HistoryQueue, WellFoundedInduction, TLAPS

(* Zenon is the prover of a step that names no other. *)
USE Zenon

-----------------------------------------------------------------------------
(* Slices that a reader may have *)

\* Task k is tracked by slice s, or s is going to read it: what SelectTasks,
\* ShrinkScope and the splits must not lose while k is not executed.
Covers(s, k) ==
    \/ k \in s.pending
    \/ InScope(s, k) /\ \E it \in s.iters : ContainsKey(it, k)

\* The slices that a reader may have, when the tasks in done are executed and
\* no key from bound on is readable.
Slices(done, bound) ==
    {s \in SliceSet :
        /\ 1 <= s.min /\ s.min <= s.max /\ s.max <= bound
        /\ \A it \in s.iters :
              s.min <= it.min /\ it.min <= it.max /\ it.max <= s.max
        /\ \A k \in s.pending : InScope(s, k)
        /\ s.acked \subseteq done}

-----------------------------------------------------------------------------
(* Numbers and loops *)

\* A set of natural numbers that is not empty has a least member.
LEMMA LeastExists ==
    ASSUME NEW S \in SUBSET Nat, S # {}
    PROVE \E x \in S : \A y \in S : x <= y
<1> DEFINE R == OpToRel(<, Nat)
<1>1. IsWellFoundedOn(R, Nat)
  BY NatLessThanWellFounded
<1>2. \A x, y \in Nat : x < y => <<x, y>> \in R
  BY DEF OpToRel
<1> HIDE DEF R
<1>3. PICK x \in S : \A y \in S : ~ (<<y, x>> \in R)
  BY <1>1, WFMin
<1>4. \A y \in S : ~ (y < x)
  BY <1>2, <1>3
<1> QED BY <1>4, SMT

\* Min, which ShrinkScope and the deletion mark are computed with, is a lower
\* bound in the set.
LEMMA MinFacts ==
    ASSUME NEW S \in SUBSET Nat, S # {}
    PROVE Min(S) \in S /\ \A y \in S : Min(S) <= y
BY LeastExists DEF Min

\* A bounded set of natural numbers that is not empty has a greatest member.
LEMMA GreatestExists ==
    ASSUME NEW S \in SUBSET Nat, S # {}, NEW b \in Nat, \A y \in S : y <= b
    PROVE \E x \in S : \A y \in S : x >= y
<1> DEFINE D == {b - y : y \in S}
<1>0. \A y \in S : b - y \in Nat
  BY SMT
<1>1. D \in SUBSET Nat /\ D # {}
  BY <1>0
<1> HIDE DEF D
<1>2. PICK d \in D : \A e \in D : d <= e
  BY <1>1, LeastExists
<1>3. PICK x \in S : d = b - x
  BY <1>2 DEF D
<1>4. \A y \in S : b - x <= b - y
  BY <1>2, <1>3 DEF D
<1>5. \A y \in S : x >= y
  BY <1>4, SMT
<1> QED BY <1>5

\* Max, which the merged ranges are computed with, is an upper bound in the set.
LEMMA MaxFacts ==
    ASSUME NEW S \in SUBSET Nat, S # {}, NEW b \in Nat, \A y \in S : y <= b
    PROVE Max(S) \in S /\ \A y \in S : Max(S) >= y
BY GreatestExists DEF Max

\* The larger of two keys (tasks.MaxKey).
LEMMA MaxOfTwo ==
    ASSUME NEW a \in Nat, NEW b \in Nat
    PROVE Max({a, b}) = IF a <= b THEN b ELSE a
<1>1. {a, b} \in SUBSET Nat /\ {a, b} # {} /\ a + b \in Nat
       /\ \A y \in {a, b} : y <= a + b
  BY SMT
<1>2. Max({a, b}) \in {a, b} /\ \A y \in {a, b} : Max({a, b}) >= y
  BY <1>1, MaxFacts
<1> QED BY <1>2, SMT

\* The values f[n] of a loop variable, b at first, after n of N turns.
IsLoop(f, N, b, step) ==
    /\ f = [n \in 0 .. N |-> f[n]]
    /\ f[0] = b
    /\ \A n \in 1 .. N : f[n] = step[n][f[n - 1]]

\* A loop: what holds before its first turn and is kept by each turn holds after
\* every turn, as in the loops of MergeSlices, CompactSlices and the actions.
LEMMA LoopInvariant ==
    ASSUME NEW N \in Nat, NEW I, NEW f, f[0] \in I[0],
           \A n \in 1 .. N : f[n - 1] \in I[n - 1] => f[n] \in I[n]
    PROVE \A n \in 0 .. N : f[n] \in I[n]
<1> DEFINE Bad == {n \in 0 .. N : f[n] \notin I[n]}
<1> SUFFICES ASSUME Bad # {} PROVE FALSE
  OBVIOUS
<1>1. Bad \in SUBSET Nat
  BY SMT
<1>2. PICK n \in Bad : \A m \in Bad : n <= m
  BY <1>1, LeastExists
<1>3. n \in 0 .. N /\ f[n] \notin I[n]
  BY <1>2
<1>4. n # 0
  BY <1>3
<1>5. n \in 1 .. N /\ n - 1 \in 0 .. N /\ ~(n <= n - 1)
  BY <1>3, <1>4, SMT
<1>6. f[n - 1] \in I[n - 1]
  BY <1>2, <1>5
<1> QED BY <1>3, <1>5, <1>6

\* A loop with an invariant: its turns exist and keep the invariant.
LEMMA LoopRuns ==
    ASSUME NEW N \in Nat, NEW I, NEW b, b \in I[0], NEW step,
           \A n \in 1 .. N : \A x \in I[n - 1] : step[n][x] \in I[n]
    PROVE \E f : IsLoop(f, N, b, step) /\ \A n \in 0 .. N : f[n] \in I[n]
\* A loop over a list has a value after each of its turns.
<1>LoopExists.
      ASSUME NEW N1 \in Nat, NEW b1, NEW step1
      PROVE \E f : IsLoop(f, N1, b1, step1)
  <2> USE <1>LoopExists
  <2> DEFINE P(m, f) == IsLoop(f, m, b1, step1)
             Bad == {m \in 0 .. N1 : ~\E f : P(m, f)}
  <2> SUFFICES ASSUME Bad # {} PROVE FALSE
    BY SMT
  <2>1. Bad \in SUBSET Nat
    BY SMT
  <2>2. PICK m \in Bad : \A l \in Bad : m <= l
    BY <2>1, LeastExists
  <2>3. m \in 0 .. N1 /\ ~\E f : P(m, f)
    BY <2>2
  <2>4. m # 0
    <3> DEFINE f == [n \in 0 .. 0 |-> b1]
    <3>1. P(0, f)
      BY SMT DEF IsLoop
    <3> QED BY <3>1, <2>3
  <2>5. m \in 1 .. N1 /\ m - 1 \in 0 .. N1 /\ ~(m <= m - 1)
    BY <2>3, <2>4, SMT
  <2>6. PICK f : P(m - 1, f)
    BY <2>2, <2>5
  <2> DEFINE g == [n \in 0 .. m |-> IF n = m THEN step1[m][f[m - 1]] ELSE f[n]]
  <2>7. P(m, g)
    <3>0. m \in Nat /\ m # 0 /\ m - 1 \in Nat
      BY <2>5, SMT
    <3>1. \A n \in 1 .. m : n # m => n \in 1 .. (m - 1)
      BY <3>0, SMT
    <3>2. /\ \A n \in 1 .. m : n \in 0 .. m /\ n - 1 \in 0 .. m /\ n - 1 # m
          /\ 0 \in 0 .. m
      BY <3>0, SMT
    <3>3. g[0] = b1 /\ \A n \in 1 .. m : g[n - 1] = f[n - 1]
      BY <2>6, <3>0, <3>2 DEF IsLoop
    <3>4. \A n \in 1 .. m : g[n] = step1[n][f[n - 1]]
      BY <2>6, <3>1, <3>2 DEF IsLoop
    <3>5. \A n \in 1 .. m : g[n] = step1[n][g[n - 1]]
      BY <3>3, <3>4
    <3>6. g = [n \in 0 .. m |-> g[n]]
      OBVIOUS
    <3> HIDE DEF g
    <3> QED BY <3>3, <3>5, <3>6 DEF IsLoop
  <2> QED BY <2>3, <2>7
<1>1. PICK f : IsLoop(f, N, b, step)
  BY <1>LoopExists
<1>2. f[0] \in I[0] /\ \A n \in 1 .. N : f[n - 1] \in I[n - 1] => f[n] \in I[n]
  BY <1>1 DEF IsLoop
<1>3. \A n \in 0 .. N : f[n] \in I[n]
  BY <1>2, LoopInvariant
<1> QED BY <1>1, <1>3

-----------------------------------------------------------------------------
(* Operations on one slice *)

\* Task keys start at 1 and each task has a group of the universal predicate.
LEMMA KeysAndGroups ==
    /\ \A k \in Keys : k \in Nat /\ 1 <= k /\ GroupOf[k] \in Universal
    /\ Other \in Universal
<1>1. \A k \in Keys : k \in Nat /\ 1 <= k
  BY SliceAssumption, SMT
<1>2. \A k \in Keys : GroupOf[k] \in Universal
  BY SliceAssumption DEF Universal, Range
<1>3. Other \in Universal
  BY DEF Universal
<1> QED BY <1>1, <1>2, <1>3

\* When a record is a slice that a reader may have, field by field.
LEMMA SliceIntro ==
    ASSUME NEW done, NEW bound,
           NEW a \in Nat, NEW b \in Nat, NEW g \in SUBSET Universal,
           NEW its \in SUBSET KeyRange, NEW p \in SUBSET Keys,
           NEW ak \in SUBSET Keys, NEW rc \in SUBSET Universal,
           1 <= a, a <= b, b <= bound,
           \A it \in its : a <= it.min /\ it.min <= it.max /\ it.max <= b,
           \A k \in p : a <= k /\ k < b /\ GroupOf[k] \in g,
           ak \subseteq done
    PROVE [min |-> a, max |-> b, groups |-> g, iters |-> its, pending |-> p,
           acked |-> ak, recounted |-> rc] \in Slices(done, bound)
BY DEF Slices, SliceSet, InScope, ContainsKey

\* What is known of a slice that a reader has.
LEMMA SliceElim ==
    ASSUME NEW done, NEW bound, NEW s \in Slices(done, bound)
    PROVE /\ s \in SliceSet
          /\ s.min \in Nat /\ s.max \in Nat /\ s.groups \in SUBSET Universal
          /\ s.iters \in SUBSET KeyRange /\ s.pending \in SUBSET Keys
          /\ s.acked \in SUBSET Keys /\ s.recounted \in SUBSET Universal
          /\ 1 <= s.min /\ s.min <= s.max /\ s.max <= bound
          /\ \A it \in s.iters : /\ it \in KeyRange
                                 /\ it.min \in Nat /\ it.max \in Nat
                                 /\ s.min <= it.min /\ it.min <= it.max
                                 /\ it.max <= s.max
          /\ \A k \in s.pending : /\ k \in Keys /\ s.min <= k /\ k < s.max
                                  /\ GroupOf[k] \in s.groups
          /\ s.acked \subseteq done
<1>1. /\ s \in SliceSet
      /\ 1 <= s.min /\ s.min <= s.max /\ s.max <= bound
      /\ \A it \in s.iters :
            s.min <= it.min /\ it.min <= it.max /\ it.max <= s.max
      /\ \A k \in s.pending : s.min <= k /\ k < s.max /\ GroupOf[k] \in s.groups
      /\ s.acked \subseteq done
  BY DEF Slices, InScope, ContainsKey
<1>2. /\ s.min \in Nat /\ s.max \in Nat /\ s.groups \in SUBSET Universal
      /\ s.iters \in SUBSET KeyRange /\ s.pending \in SUBSET Keys
      /\ s.acked \in SUBSET Keys /\ s.recounted \in SUBSET Universal
  BY <1>1 DEF SliceSet
<1>3. \A it \in KeyRange : it.min \in Nat /\ it.max \in Nat
  BY DEF KeyRange
<1>4. \A it \in s.iters : it \in KeyRange
  BY <1>2
<1>5. \A k \in s.pending : k \in Keys
  BY <1>2
<1> QED BY <1>1, <1>2, <1>3, <1>4, <1>5

\* When a slice is one that a reader may have.
LEMMA SliceGood ==
    ASSUME NEW done, NEW bound, NEW s \in SliceSet,
           1 <= s.min, s.min <= s.max, s.max <= bound,
           \A it \in s.iters : s.min <= it.min /\ it.min <= it.max /\ it.max <= s.max,
           \A k \in s.pending : s.min <= k /\ k < s.max /\ GroupOf[k] \in s.groups,
           s.acked \subseteq done
    PROVE s \in Slices(done, bound)
BY DEF Slices, InScope, ContainsKey

\* Covers in terms of the fields of the slice.
LEMMA CoversCases ==
    ASSUME NEW s, NEW k
    PROVE Covers(s, k) <=>
            \/ k \in s.pending
            \/ /\ s.min <= k /\ k < s.max /\ GroupOf[k] \in s.groups
               /\ \E it \in s.iters : it.min <= k /\ k < it.max
BY DEF Covers, InScope, ContainsKey

\* What a slice covers is in its scope: its iterators never leave it, and its
\* executables were all read from it.
LEMMA CoveredInScope ==
    ASSUME NEW done, NEW bound, NEW s \in Slices(done, bound), NEW k, Covers(s, k)
    PROVE InScope(s, k)
BY DEF Covers, Slices

\* A slice with an empty scope, which the lists of a reader drop, covers
\* nothing.
LEMMA EmptyCoversNothing ==
    ASSUME NEW done, NEW bound, NEW s \in Slices(done, bound), IsEmpty(s),
           NEW k \in Keys
    PROVE ~Covers(s, k)
<1>1. s.min \in Nat /\ s.max \in Nat /\ k \in Nat
  BY SliceElim, KeysAndGroups
<1>2. ~(s.min = s.max /\ s.min <= k /\ k < s.max)
  BY <1>1, SMT
<1>3. ~InScope(s, k)
  BY <1>2 DEF IsEmpty, InScope, ContainsKey
<1> QED BY <1>3, CoveredInScope

\* A predicate whose size limit is exceeded becomes the universal one: it only
\* grows.
LEMMA LimitedFacts ==
    ASSUME NEW g \in SUBSET Universal
    PROVE /\ Limited(g) \in SUBSET Universal
          /\ g \subseteq Limited(g)
          /\ g # {} => Limited(g) # {}
BY DEF Limited

\* NewRange gives the range that it was asked for.
LEMMA RangeFacts ==
    ASSUME NEW a \in Nat, NEW b \in Nat
    PROVE /\ NewRange(a, b) \in KeyRange
          /\ NewRange(a, b).min = a /\ NewRange(a, b).max = b
BY DEF NewRange, KeyRange

\* NewSlice: a new slice has one iterator over all of its scope.
LEMMA NewSliceFacts ==
    ASSUME NEW done, NEW bound, NEW c,
           c.min \in Nat, c.max \in Nat, c.groups \in SUBSET Universal,
           1 <= c.min, c.min <= c.max, c.max <= bound
    PROVE /\ NewSlice(c) \in Slices(done, bound)
          /\ NewSlice(c).min = c.min /\ NewSlice(c).max = c.max
          /\ \A k \in Keys : InScope(c, k) => Covers(NewSlice(c), k)
<1> DEFINE its == {NewRange(c.min, c.max)}
<1>1. /\ NewSlice(c).min = c.min /\ NewSlice(c).max = c.max
      /\ NewSlice(c).groups = Limited(c.groups) /\ NewSlice(c).iters = its
  BY DEF NewSlice
<1>2. its \in SUBSET KeyRange
  BY RangeFacts
<1> DEFINE all == NewRange(c.min, c.max)
<1>a. all.min = c.min /\ all.max = c.max
  BY RangeFacts
<1>b. all \in its /\ \A it \in its : it = all
  OBVIOUS
<1> HIDE DEF its, all
<1>3. \A it \in its : it.min = c.min /\ it.max = c.max
  BY <1>a, <1>b
<1>4. c.min <= c.min /\ c.max <= c.max
  BY SMT
<1>5. \A it \in its : c.min <= it.min /\ it.min <= it.max /\ it.max <= c.max
  BY <1>3, <1>4
<1>6. NewSlice(c) \in Slices(done, bound)
  BY <1>2, <1>5, LimitedFacts, SliceIntro DEF NewSlice, its
<1>7. ASSUME NEW k \in Keys, InScope(c, k)
      PROVE Covers(NewSlice(c), k)
  <2>1. c.min <= k /\ k < c.max /\ GroupOf[k] \in Limited(c.groups)
    BY <1>7, LimitedFacts DEF InScope, ContainsKey
  <2>2. all \in NewSlice(c).iters /\ all.min <= k /\ k < all.max
    BY <1>1, <1>a, <1>b, <2>1
  <2> QED BY <1>1, <2>1, <2>2, CoversCases
<1> QED BY <1>1, <1>6, <1>7

\* SplitByRange at a key of the slice: two slices side by side with the same
\* predicate, and one of them covers what the slice covered.
LEMMA SplitByRangeFacts ==
    ASSUME NEW done, NEW bound \in Nat, NEW s \in Slices(done, bound),
           NEW k \in Nat, s.min <= k, k <= s.max
    PROVE LET l == SplitByRange(s, k)[1]
              r == SplitByRange(s, k)[2]
          IN /\ SplitByRange(s, k) = <<l, r>>
             /\ l \in Slices(done, bound) /\ r \in Slices(done, bound)
             /\ l.min = s.min /\ l.max = k /\ l.groups = s.groups
             /\ r.min = k /\ r.max = s.max /\ r.groups = s.groups
             /\ \A x \in Keys : Covers(s, x) => Covers(l, x) \/ Covers(r, x)
\* SplitByRange gives two slices.
<1>SplitByRangePair.
      ASSUME NEW s3, NEW k3
      PROVE SplitByRange(s3, k3) = <<SplitByRange(s3, k3)[1], SplitByRange(s3, k3)[2]>>
  BY <1>SplitByRangePair DEF SplitByRange
\* SplitByRange: the right side as a record.
<1>SplitByRangeRight.
      ASSUME NEW s2 \in SliceSet, NEW k2 \in Nat
      PROVE SplitByRange(s2, k2)[2] =
              [min |-> k2, max |-> s2.max, groups |-> s2.groups,
               iters |-> {it \in s2.iters : it.max > k2 /\ it.min >= k2}
                           \cup {NewRange(k2, it.max) : it \in
                                  {it \in s2.iters : it.min < k2 /\ k2 < it.max}},
               pending |-> s2.pending \cap {x \in Keys : x >= k2},
               acked |-> s2.acked \cap {x \in Keys : x >= k2},
               recounted |-> {}]
  BY <1>SplitByRangeRight DEF SplitByRange, SliceSet, Tracking
\* SplitByRange: the left side as a record.
<1>SplitByRangeLeft.
      ASSUME NEW s1 \in SliceSet, NEW k1 \in Nat
      PROVE SplitByRange(s1, k1)[1] =
              [min |-> s1.min, max |-> k1, groups |-> s1.groups,
               iters |-> {it \in s1.iters : it.max <= k1}
                           \cup {NewRange(it.min, k1) : it \in
                                  {it \in s1.iters : it.min < k1 /\ k1 < it.max}},
               pending |-> s1.pending \cap {x \in Keys : x < k1},
               acked |-> s1.acked \cap {x \in Keys : x < k1},
               recounted |-> s1.recounted]
  BY <1>SplitByRangeLeft DEF SplitByRange, SliceSet, Tracking
<1> DEFINE cut == {it \in s.iters : it.min < k /\ k < it.max}
           lits == {it \in s.iters : it.max <= k}
                     \cup {NewRange(it.min, k) : it \in cut}
           rits == {it \in s.iters : it.max > k /\ it.min >= k}
                     \cup {NewRange(k, it.max) : it \in cut}
           lp == s.pending \cap {x \in Keys : x < k}
           rp == s.pending \cap {x \in Keys : x >= k}
           la == s.acked \cap {x \in Keys : x < k}
           ra == s.acked \cap {x \in Keys : x >= k}
           l == [min |-> s.min, max |-> k, groups |-> s.groups, iters |-> lits,
                 pending |-> lp, acked |-> la, recounted |-> s.recounted]
           r == [min |-> k, max |-> s.max, groups |-> s.groups, iters |-> rits,
                 pending |-> rp, acked |-> ra, recounted |-> {}]
<1>1. SplitByRange(s, k)[1] = l
  BY SliceElim, <1>SplitByRangeLeft
<1>0. SplitByRange(s, k)[2] = r
  BY SliceElim, <1>SplitByRangeRight
<1>2. /\ s.min \in Nat /\ s.max \in Nat /\ s.groups \in SUBSET Universal
      /\ s.recounted \in SUBSET Universal
      /\ s.pending \in SUBSET Keys /\ s.acked \in SUBSET Keys
      /\ 1 <= s.min /\ s.max <= bound
      /\ s.acked \subseteq done
  BY SliceElim
<1>3. \A it \in s.iters : /\ it \in KeyRange /\ it.min \in Nat /\ it.max \in Nat
                          /\ s.min <= it.min /\ it.min <= it.max
                          /\ it.max <= s.max
  BY SliceElim
<1>4. \A x \in s.pending : /\ x \in Nat /\ s.min <= x /\ x < s.max
                           /\ GroupOf[x] \in s.groups
  BY SliceElim, KeysAndGroups
<1>5. ASSUME NEW it \in lits
      PROVE it \in KeyRange /\ s.min <= it.min /\ it.min <= it.max /\ it.max <= k
  <2>1. CASE it \in s.iters /\ it.max <= k
    BY <1>3, <2>1
  <2>2. CASE \E i \in cut : it = NewRange(i.min, k)
    <3>1. PICK i \in s.iters : i.min < k /\ it = NewRange(i.min, k)
      BY <2>2
    <3>2. i.min \in Nat /\ s.min <= i.min
      BY <1>3
    <3>3. it \in KeyRange /\ it.min = i.min /\ it.max = k
      BY <3>1, <3>2, RangeFacts
    <3>4. i.min <= k /\ k <= k
      BY <3>1, <3>2, SMT
    <3> QED BY <3>2, <3>3, <3>4
  <2> QED BY <2>1, <2>2
<1>6. ASSUME NEW it \in rits
      PROVE it \in KeyRange /\ k <= it.min /\ it.min <= it.max /\ it.max <= s.max
  <2>1. CASE it \in s.iters /\ it.max > k /\ it.min >= k
    BY <1>3, <2>1
  <2>2. CASE \E i \in cut : it = NewRange(k, i.max)
    <3>1. PICK i \in s.iters : k < i.max /\ it = NewRange(k, i.max)
      BY <2>2
    <3>2. i.max \in Nat /\ i.max <= s.max
      BY <1>3
    <3>3. it \in KeyRange /\ it.min = k /\ it.max = i.max
      BY <3>1, <3>2, RangeFacts
    <3>4. k <= i.max /\ k <= k
      BY <3>1, <3>2, SMT
    <3> QED BY <3>2, <3>3, <3>4
  <2> QED BY <2>1, <2>2
<1>7. /\ \A x \in lp : s.min <= x /\ x < k /\ GroupOf[x] \in s.groups
      /\ \A x \in rp : k <= x /\ x < s.max /\ GroupOf[x] \in s.groups
  BY <1>4
<1>8. /\ lp \in SUBSET Keys /\ rp \in SUBSET Keys
      /\ la \in SUBSET Keys /\ ra \in SUBSET Keys
      /\ la \subseteq done /\ ra \subseteq done
  BY <1>2
<1>9. k <= bound /\ 1 <= k
  BY <1>2, SMT
<1>10. lits \in SUBSET KeyRange /\ rits \in SUBSET KeyRange
  BY <1>5, <1>6
<1>11. {} \in SUBSET Universal
  OBVIOUS
<1>12. ASSUME NEW x \in Keys, Covers(s, x)
       PROVE Covers(l, x) \/ Covers(r, x)
  <2>1. x \in Nat
    BY KeysAndGroups
  <2>2. x < k \/ x >= k
    BY <2>1, SMT
  <2>3. CASE x \in s.pending
    BY <2>2, <2>3 DEF Covers
  <2>4. CASE /\ s.min <= x /\ x < s.max /\ GroupOf[x] \in s.groups
             /\ \E it \in s.iters : it.min <= x /\ x < it.max
    <3>1. PICK it \in s.iters : it.min <= x /\ x < it.max
      BY <2>4
    <3>2. it.min \in Nat /\ it.max \in Nat
      BY <1>3
    <3>3. CASE x < k
      <4>1. \E i \in lits : i.min <= x /\ x < i.max
        <5>1. CASE it.max <= k
          BY <3>1, <5>1
        <5>2. CASE k < it.max
          <6>1. it.min < k
            BY <2>1, <3>1, <3>2, <3>3, SMT
          <6>2. NewRange(it.min, k) \in lits
            BY <5>2, <6>1
          <6> QED BY <3>1, <3>2, <3>3, <6>2, RangeFacts
        <5> QED BY <3>2, <5>1, <5>2, SMT
      <4> QED BY <2>4, <3>3, <4>1, CoversCases
    <3>4. CASE x >= k
      <4>1. \E i \in rits : i.min <= x /\ x < i.max
        <5>0. k < it.max /\ k <= x
          BY <2>1, <3>1, <3>2, <3>4, SMT
        <5>1. CASE it.min >= k
          <6>1. it.max > k
            BY <5>0, <3>2
          <6> QED BY <3>1, <5>1, <6>1
        <5>2. CASE it.min < k
          <6>2. NewRange(k, it.max) \in rits
            BY <5>0, <5>2
          <6> QED BY <3>1, <3>2, <5>0, <6>2, RangeFacts
        <5> QED BY <3>2, <5>1, <5>2, SMT
      <4>2. k <= x
        BY <2>1, <3>4
      <4> QED BY <2>4, <4>1, <4>2, CoversCases
    <3> QED BY <2>2, <3>3, <3>4
  <2> QED BY <1>12, <2>3, <2>4, CoversCases
<1>13. l.min = s.min /\ l.max = k /\ l.groups = s.groups
  OBVIOUS
<1>14. r.min = k /\ r.max = s.max /\ r.groups = s.groups
  OBVIOUS
<1>15. l \in Slices(done, bound)
  <2> HIDE DEF lits, lp, la
  <2> QED BY <1>2, <1>5, <1>7, <1>8, <1>9, <1>10, SliceIntro
<1>16. r \in Slices(done, bound)
  <2> HIDE DEF rits, rp, ra
  <2> QED BY <1>2, <1>6, <1>7, <1>8, <1>9, <1>10, <1>11, SliceIntro
<1> HIDE DEF l, r
<1> QED BY <1>0, <1>1, <1>12, <1>13, <1>14, <1>15, <1>16, <1>SplitByRangePair

\* SplitByPredicate: two slices over the range of the first, and one of them
\* covers what the slice covered.
LEMMA SplitByPredicateFacts ==
    ASSUME NEW done, NEW bound \in Nat, NEW s \in Slices(done, bound), NEW g
    PROVE LET pass == SplitByPredicate(s, g).pass
              fail == SplitByPredicate(s, g).fail
          IN /\ pass \in Slices(done, bound) /\ fail \in Slices(done, bound)
             /\ pass.min = s.min /\ pass.max = s.max
             /\ fail.min = s.min /\ fail.max = s.max
             /\ \A x \in Keys : Covers(s, x) => Covers(pass, x) \/ Covers(fail, x)
\* SplitByPredicate: the two sides, field by field.
<1>SplitByPredicateFields.
      ASSUME NEW s2 \in SliceSet, NEW g1
      PROVE LET pass == SplitByPredicate(s2, g1).pass
                fail == SplitByPredicate(s2, g1).fail
                h == s2.groups \cap g1
                f == s2.groups \ g1
            IN /\ pass \in SliceSet /\ fail \in SliceSet
               /\ pass.min = s2.min /\ pass.max = s2.max /\ pass.iters = s2.iters
               /\ fail.min = s2.min /\ fail.max = s2.max /\ fail.iters = s2.iters
               /\ pass.groups = Limited(h) /\ fail.groups = Limited(f)
               /\ pass.pending = s2.pending \cap {x \in Keys : GroupOf[x] \in h}
               /\ fail.pending = s2.pending \cap {x \in Keys : GroupOf[x] \in f}
               /\ pass.acked \subseteq s2.acked /\ fail.acked \subseteq s2.acked
  <2> USE <1>SplitByPredicateFields
  <2> DEFINE h == s2.groups \cap g1
             f == s2.groups \ g1
             Side(x) == Tracking([s2 EXCEPT !.groups = Limited(x)],
                                 {k \in Keys : GroupOf[k] \in x})
  <2>1. /\ s2.groups \in SUBSET Universal /\ s2.pending \in SUBSET Keys
        /\ s2.acked \in SUBSET Keys /\ s2.recounted \in SUBSET Universal
    BY DEF SliceSet
  <2>2. ASSUME NEW x \in SUBSET Universal
        PROVE /\ Side(x) \in SliceSet
              /\ Side(x).min = s2.min /\ Side(x).max = s2.max
              /\ Side(x).iters = s2.iters /\ Side(x).groups = Limited(x)
              /\ Side(x).pending = s2.pending \cap {k \in Keys : GroupOf[k] \in x}
              /\ Side(x).acked \subseteq s2.acked
    <3> DEFINE ks == {k \in Keys : GroupOf[k] \in x}
               t == [s2 EXCEPT !.groups = Limited(x)]
    <3>1. Limited(x) \in SUBSET Universal
      BY LimitedFacts
    <3>2. /\ t \in SliceSet
          /\ t.min = s2.min /\ t.max = s2.max /\ t.iters = s2.iters
          /\ t.groups = Limited(x) /\ t.pending = s2.pending /\ t.acked = s2.acked
      BY <3>1 DEF SliceSet
    <3> HIDE DEF t, ks
    <3>3. t.pending \cap ks \in SUBSET Keys /\ t.acked \cap ks \in SUBSET Keys
      BY <2>1, <3>2
    <3>4. /\ Tracking(t, ks) \in SliceSet
          /\ Tracking(t, ks).min = t.min /\ Tracking(t, ks).max = t.max
          /\ Tracking(t, ks).iters = t.iters /\ Tracking(t, ks).groups = t.groups
          /\ Tracking(t, ks).pending = t.pending \cap ks
          /\ Tracking(t, ks).acked = t.acked \cap ks
      BY <3>2, <3>3 DEF Tracking, SliceSet
    <3> QED BY <3>2, <3>4 DEF t, ks
  <2>3. h \in SUBSET Universal /\ f \in SUBSET Universal
    BY <2>1
  <2>4. /\ SplitByPredicate(s2, g1).pass = Side(h)
        /\ SplitByPredicate(s2, g1).fail = [Side(f) EXCEPT !.recounted = {}]
    BY DEF SplitByPredicate
  <2> HIDE DEF Side
  <2>5. {} \in SUBSET Universal
    OBVIOUS
  <2>6. LET t == [Side(f) EXCEPT !.recounted = {}]
        IN /\ t \in SliceSet
           /\ t.min = Side(f).min /\ t.max = Side(f).max /\ t.iters = Side(f).iters
           /\ t.groups = Side(f).groups /\ t.pending = Side(f).pending
           /\ t.acked = Side(f).acked
    <3> DEFINE q == Side(f)
    <3>1. q \in SliceSet
      BY <2>2, <2>3
    <3> HIDE DEF q
    <3>2. LET t == [q EXCEPT !.recounted = {}]
          IN /\ t \in SliceSet
             /\ t.min = q.min /\ t.max = q.max /\ t.iters = q.iters
             /\ t.groups = q.groups /\ t.pending = q.pending /\ t.acked = q.acked
      BY <2>5, <3>1 DEF SliceSet
    <3> QED BY <3>2 DEF q
  <2> QED BY <2>2, <2>3, <2>4, <2>6
\* SplitByPredicate: a slice narrowed to the groups h of its predicate still
\* covers what it covered of those groups.
<1>SideFacts.
      ASSUME NEW s1 \in Slices(done, bound), NEW h \in SUBSET s1.groups,
             NEW t \in SliceSet, t.min = s1.min, t.max = s1.max,
             t.groups = Limited(h), t.iters = s1.iters,
             t.pending = s1.pending \cap {x \in Keys : GroupOf[x] \in h},
             t.acked \subseteq s1.acked
      PROVE /\ t \in Slices(done, bound)
            /\ \A x \in Keys : Covers(s1, x) /\ GroupOf[x] \in h => Covers(t, x)
  <2> USE <1>SideFacts
  <2>1. /\ s1.groups \in SUBSET Universal
        /\ 1 <= s1.min /\ s1.min <= s1.max /\ s1.max <= bound
        /\ s1.acked \subseteq done
    BY SliceElim
  <2>2. \A it \in s1.iters : /\ s1.min <= it.min /\ it.min <= it.max
                            /\ it.max <= s1.max
    BY SliceElim
  <2>3. \A x \in s1.pending : s1.min <= x /\ x < s1.max /\ GroupOf[x] \in s1.groups
    BY SliceElim
  <2>4. h \in SUBSET Universal
    BY <2>1
  <2>5. h \subseteq Limited(h)
    BY <2>4, LimitedFacts
  <2>6. t.acked \subseteq done
    BY <2>1
  <2>7. \A x \in t.pending : s1.min <= x /\ x < s1.max /\ GroupOf[x] \in Limited(h)
    BY <2>3, <2>5
  <2>8. t \in Slices(done, bound)
    BY <2>1, <2>2, <2>6, <2>7, SliceGood
  <2>9. ASSUME NEW x \in Keys, Covers(s1, x), GroupOf[x] \in h
        PROVE Covers(t, x)
    <3>1. CASE x \in s1.pending
      BY <2>9, <3>1, CoversCases
    <3>2. CASE x \notin s1.pending
      BY <2>5, <2>9, <3>2, CoversCases
    <3> QED BY <3>1, <3>2
  <2> QED BY <2>8, <2>9
<1> DEFINE pass == SplitByPredicate(s, g).pass
           fail == SplitByPredicate(s, g).fail
           h == s.groups \cap g
           f == s.groups \ g
<1>1. s \in SliceSet
  BY SliceElim
<1>2. /\ pass \in SliceSet /\ fail \in SliceSet
      /\ pass.min = s.min /\ pass.max = s.max /\ pass.iters = s.iters
      /\ fail.min = s.min /\ fail.max = s.max /\ fail.iters = s.iters
      /\ pass.groups = Limited(h) /\ fail.groups = Limited(f)
      /\ pass.pending = s.pending \cap {x \in Keys : GroupOf[x] \in h}
      /\ fail.pending = s.pending \cap {x \in Keys : GroupOf[x] \in f}
      /\ pass.acked \subseteq s.acked /\ fail.acked \subseteq s.acked
  BY <1>1, <1>SplitByPredicateFields
<1>3. h \in SUBSET s.groups /\ f \in SUBSET s.groups
  OBVIOUS
<1>4. \A x : x \in s.groups => x \in h \/ x \in f
  OBVIOUS
<1> HIDE DEF pass, fail, h, f
<1>5. /\ pass \in Slices(done, bound)
      /\ \A x \in Keys : Covers(s, x) /\ GroupOf[x] \in h => Covers(pass, x)
  BY <1>2, <1>3, <1>SideFacts
<1>6. /\ fail \in Slices(done, bound)
      /\ \A x \in Keys : Covers(s, x) /\ GroupOf[x] \in f => Covers(fail, x)
  BY <1>2, <1>3, <1>SideFacts
<1>7. \A x \in Keys : Covers(s, x) => GroupOf[x] \in s.groups
  BY CoveredInScope DEF InScope
<1> QED BY <1>2, <1>4, <1>5, <1>6, <1>7 DEF pass, fail

\* ShrinkScope drops acknowledged executables and moves the minimum up, but no
\* task is lost that is not executed.
LEMMA ShrinkScopeFacts ==
    ASSUME NEW done, NEW bound \in Nat, NEW s \in Slices(done, bound)
    PROVE LET t == ShrinkScope(s)
          IN /\ t \in Slices(done, bound) /\ s.min <= t.min /\ t.max = s.max
             /\ \A k \in Keys \ done : Covers(s, k) => Covers(t, k)
\* ShrinkScope, field by field.
<1>ShrinkScopeFields.
      ASSUME NEW s1 \in SliceSet,
             LowKeys(s1) # {} => Min(LowKeys(s1)) \in Nat
      PROVE LET t == ShrinkScope(s1)
            IN /\ t \in SliceSet /\ t.max = s1.max /\ t.iters = s1.iters
               /\ t.min = (IF LowKeys(s1) = {} THEN s1.max ELSE Min(LowKeys(s1)))
               /\ t.pending = s1.pending \ s1.acked /\ t.acked = {}
               /\ GroupsOf(t.pending) \subseteq t.groups \/ t.groups = s1.groups
               /\ s1.iters # {} => t.groups = s1.groups
  <2> USE <1>ShrinkScopeFields
  <2> DEFINE u == Tracking(s1, s1.pending \ s1.acked)
             low == LowKeys(s1)
             a == IF low = {} THEN s1.max ELSE Min(low)
             keep == s1.iters # {} \/ Cardinality(PendingPerKey(u)) > MaxPendingKeys
             g == IF keep THEN u.groups ELSE Limited(PendingPerKey(u))
             t == ShrinkScope(s1)
  <2>1. /\ s1.max \in Nat /\ s1.groups \in SUBSET Universal
        /\ s1.pending \in SUBSET Keys /\ s1.acked \in SUBSET Keys
        /\ s1.recounted \in SUBSET Universal
    BY DEF SliceSet
  <2>2. /\ s1.pending \cap (s1.pending \ s1.acked) \in SUBSET Keys
        /\ s1.acked \cap (s1.pending \ s1.acked) \in SUBSET Keys
    BY <2>1
  <2>3. /\ u \in SliceSet /\ u.max = s1.max /\ u.iters = s1.iters
        /\ u.groups = s1.groups /\ u.recounted = s1.recounted
        /\ u.pending = s1.pending \cap (s1.pending \ s1.acked)
        /\ u.acked = s1.acked \cap (s1.pending \ s1.acked)
    BY <2>2 DEF Tracking, SliceSet
  <2>4. u.pending = s1.pending \ s1.acked /\ u.acked = {}
    BY <2>3
  <2>5. t = [u EXCEPT !.min = a, !.groups = g]
    BY DEF ShrinkScope
  <2> HIDE DEF u, t
  <2>6. GroupsOf(u.pending) \in SUBSET Universal
    BY <2>1, <2>4, KeysAndGroups DEF GroupsOf
  <2>7. PendingPerKey(u) \in SUBSET Universal
    BY <2>1, <2>3, <2>6 DEF PendingPerKey
  <2>8. g \in SUBSET Universal /\ (s1.iters # {} => g = s1.groups)
        /\ (g = s1.groups \/ PendingPerKey(u) \subseteq g)
    BY <2>1, <2>3, <2>7, LimitedFacts
  <2>9. a \in Nat
    BY <2>1
  <2> HIDE DEF a, g, low, keep
  <2>10. /\ t \in SliceSet /\ t.max = u.max /\ t.iters = u.iters /\ t.min = a
         /\ t.pending = u.pending /\ t.acked = u.acked /\ t.groups = g
    BY <2>3, <2>5, <2>8, <2>9 DEF SliceSet
  <2>11. GroupsOf(u.pending) \subseteq PendingPerKey(u)
    BY DEF PendingPerKey
  <2>12. GroupsOf(t.pending) \subseteq t.groups \/ t.groups = s1.groups
    BY <2>8, <2>10, <2>11
  <2> QED BY <2>3, <2>4, <2>8, <2>10, <2>12 DEF t, a, low
<1> DEFINE t == ShrinkScope(s)
           low == LowKeys(s)
<1>1. /\ s \in SliceSet /\ s.min \in Nat /\ s.max \in Nat
      /\ s.pending \in SUBSET Keys
      /\ 1 <= s.min /\ s.min <= s.max /\ s.max <= bound
      /\ s.acked \subseteq done
  BY SliceElim
<1>2. \A it \in s.iters : /\ it.min \in Nat /\ it.max \in Nat
                          /\ s.min <= it.min /\ it.min <= it.max
                          /\ it.max <= s.max
  BY SliceElim
<1>3. \A k \in s.pending : /\ k \in Nat /\ s.min <= k /\ k < s.max
                           /\ GroupOf[k] \in s.groups
  BY SliceElim, KeysAndGroups
<1>4. \A x \in low : x \in Nat /\ s.min <= x /\ x <= s.max
  <2>1. ASSUME NEW x \in low
        PROVE x \in s.pending \/ \E it \in s.iters : x = it.min
    BY DEF LowKeys
  <2>2. \A x \in s.pending : x \in Nat /\ s.min <= x /\ x <= s.max
    BY <1>1, <1>3, SMT
  <2>3. \A it \in s.iters : it.min \in Nat /\ s.min <= it.min /\ it.min <= s.max
    BY <1>1, <1>2, SMT
  <2> QED BY <2>1, <2>2, <2>3
<1>5. low # {} => /\ Min(low) \in low /\ Min(low) \in Nat
                  /\ s.min <= Min(low) /\ Min(low) <= s.max
                  /\ \A x \in low : Min(low) <= x
  <2>1. low \in SUBSET Nat
    BY <1>4
  <2> HIDE DEF low
  <2> QED BY <1>4, <2>1, MinFacts
<1>6. /\ t \in SliceSet /\ t.max = s.max /\ t.iters = s.iters
      /\ t.min = (IF low = {} THEN s.max ELSE Min(low))
      /\ t.pending = s.pending \ s.acked /\ t.acked = {}
      /\ GroupsOf(t.pending) \subseteq t.groups \/ t.groups = s.groups
      /\ s.iters # {} => t.groups = s.groups
  BY <1>1, <1>5, <1>ShrinkScopeFields
<1>7. /\ \A it \in s.iters : it.min \in low
      /\ \A k \in t.pending : k \in low /\ k \in s.pending
  BY <1>6 DEF LowKeys
<1> HIDE DEF t, low
<1>8. \A x \in low : t.min <= x
  BY <1>5, <1>6
<1>9. t.min \in Nat /\ s.min <= t.min /\ t.min <= t.max
  <2>1. CASE low = {}
    <3>1. s.max <= s.max
      BY <1>1, SMT
    <3> QED BY <1>1, <1>6, <2>1, <3>1
  <2>2. CASE low # {}
    BY <1>5, <1>6, <2>2
  <2> QED BY <2>1, <2>2
<1>10. 1 <= t.min
  BY <1>1, <1>9, SMT
<1>11. \A k \in t.pending : GroupOf[k] \in t.groups
  BY <1>3, <1>6, <1>7 DEF GroupsOf
<1>12. \A it \in t.iters : t.min <= it.min /\ it.min <= it.max /\ it.max <= t.max
  BY <1>2, <1>6, <1>7, <1>8
<1>13. \A k \in t.pending : t.min <= k /\ k < t.max /\ GroupOf[k] \in t.groups
  BY <1>3, <1>6, <1>7, <1>8, <1>11
<1>14. t.acked \subseteq done /\ t.max <= bound
  BY <1>1, <1>6
<1>15. t \in Slices(done, bound)
  BY <1>6, <1>9, <1>10, <1>12, <1>13, <1>14, SliceGood
<1>16. ASSUME NEW k \in Keys \ done, Covers(s, k)
       PROVE Covers(t, k)
  <2>1. CASE k \in s.pending
    <3>1. k \in t.pending
      BY <1>1, <1>6, <2>1
    <3> QED BY <3>1 DEF Covers
  <2>2. CASE k \notin s.pending
    <3>1. /\ k < s.max /\ GroupOf[k] \in s.groups
          /\ \E it \in s.iters : it.min <= k /\ k < it.max
      BY <1>16, <2>2, CoversCases
    <3>2. PICK it \in s.iters : it.min <= k /\ k < it.max
      BY <3>1
    <3>3. t.groups = s.groups /\ t.min <= it.min /\ it.min \in Nat
      BY <1>2, <1>6, <1>7, <1>8
    <3>4. k \in Nat
      BY KeysAndGroups
    <3>5. t.min <= k
      BY <1>9, <3>2, <3>3, <3>4, SMT
    <3> QED BY <1>6, <3>1, <3>2, <3>3, <3>5, CoversCases
  <2> QED BY <2>1, <2>2
<1> QED BY <1>6, <1>9, <1>15, <1>16 DEF t

-----------------------------------------------------------------------------
(* Merging two slices *)

\* The merged iterators of two slices cover what the iterators did, within the
\* same bounds.
LEMMA MergedRangesFacts ==
    ASSUME NEW lo \in Nat, NEW hi \in Nat, NEW S \in SUBSET KeyRange,
           \A it \in S : lo <= it.min /\ it.min <= it.max /\ it.max <= hi
    PROVE /\ MergedRanges(S) \in SUBSET KeyRange
          /\ \A r \in MergedRanges(S) :
                lo <= r.min /\ r.min <= r.max /\ r.max <= hi
          /\ \A it \in S : \A k \in Nat :
                it.min <= k /\ k < it.max =>
                    \E r \in MergedRanges(S) : r.min <= k /\ k < r.max
<1> DEFINE first == {x \in S : ~\E q \in S : q.min < x.min /\ x.min <= q.max}
           starts == {r.min : r \in first}
           last(a) == {x \in S : /\ a <= x.max
                                 /\ ~\E q \in S : q.min <= x.max /\ x.max < q.max}
           ends(a) == {r.max : r \in last(a)}
           M == MergedRanges(S)
<1>1. M = {NewRange(a, Min(ends(a))) : a \in starts}
  BY DEF MergedRanges
<1>2. \A it \in S : it.min \in Nat /\ it.max \in Nat
  BY DEF KeyRange
<1>3. ASSUME NEW a \in starts
      PROVE /\ a \in Nat /\ lo <= a
            /\ \E x \in last(a) : \A y \in last(a) : x.max <= y.max
  <2>1. PICK z \in first : a = z.min
    OBVIOUS
  <2>2. z \in S /\ a \in Nat /\ lo <= a /\ a <= z.max /\ z.max \in Nat
    BY <1>2, <2>1
  <2> DEFINE maxes == {x.max : x \in S}
  <2>3. maxes \in SUBSET Nat /\ maxes # {} /\ \A y \in maxes : y <= hi
    BY <1>2, <2>2
  <2>4. PICK m \in maxes : \A y \in maxes : m >= y
    <3> HIDE DEF maxes
    <3> QED BY <2>3, GreatestExists
  <2>5. PICK x \in S : x.max = m
    BY <2>4
  <2>6. x.max \in Nat /\ x.max >= z.max /\ \A q \in S : x.max >= q.max
    BY <1>2, <2>2, <2>4, <2>5
  <2>7. a <= x.max /\ \A q \in S : ~(x.max < q.max)
    BY <1>2, <2>2, <2>6, SMT
  <2>8. x \in last(a)
    BY <2>7
  <2>9. ends(a) \in SUBSET Nat /\ ends(a) # {}
    <3>1. x.max \in ends(a)
      BY <2>8
    <3>2. ASSUME NEW y \in ends(a) PROVE y \in Nat
      <4>1. PICK u \in last(a) : y = u.max
        OBVIOUS
      <4> QED BY <1>2, <4>1
    <3> QED BY <3>1, <3>2
  <2>10. PICK e \in ends(a) : \A y \in ends(a) : e <= y
    <3> HIDE DEF ends
    <3> QED BY <2>9, LeastExists
  <2>11. PICK w \in last(a) : e = w.max
    BY <2>10
  <2>12. ASSUME NEW y \in last(a) PROVE w.max <= y.max
    <3>1. y.max \in ends(a)
      OBVIOUS
    <3> QED BY <2>10, <2>11, <3>1
  <2> QED BY <2>2, <2>12
<1>4. ASSUME NEW a \in starts
      PROVE /\ Min(ends(a)) \in Nat /\ a <= Min(ends(a)) /\ Min(ends(a)) <= hi
            /\ \A q \in S : ~(q.min <= Min(ends(a)) /\ Min(ends(a)) < q.max)
  <2>1. ends(a) \in SUBSET Nat /\ ends(a) # {}
    <3>0. PICK x \in last(a) : TRUE
      BY <1>3
    <3>1. x.max \in ends(a)
      BY <3>0
    <3>2. ASSUME NEW y \in ends(a) PROVE y \in Nat
      <4>1. PICK u \in last(a) : y = u.max
        OBVIOUS
      <4> QED BY <1>2, <4>1
    <3> QED BY <3>1, <3>2
  <2>2. Min(ends(a)) \in ends(a)
    <3> HIDE DEF ends
    <3> QED BY <2>1, MinFacts
  <2>3. PICK x \in last(a) : Min(ends(a)) = x.max
    BY <2>2
  <2> QED BY <1>2, <2>3
<1>5. \A a \in starts : /\ NewRange(a, Min(ends(a))) \in KeyRange
                        /\ NewRange(a, Min(ends(a))).min = a
                        /\ NewRange(a, Min(ends(a))).max = Min(ends(a))
  BY <1>3, <1>4, RangeFacts
<1> HIDE DEF M
<1>6. M \in SUBSET KeyRange
      /\ \A r \in M : lo <= r.min /\ r.min <= r.max /\ r.max <= hi
  <2> SUFFICES ASSUME NEW r \in M
               PROVE r \in KeyRange /\ lo <= r.min /\ r.min <= r.max /\ r.max <= hi
    OBVIOUS
  <2>1. PICK a \in starts : r = NewRange(a, Min(ends(a)))
    BY <1>1
  <2>2. r \in KeyRange /\ r.min = a /\ r.max = Min(ends(a))
    BY <1>5, <2>1
  <2> QED BY <1>3, <1>4, <2>2
<1>7. ASSUME NEW it \in S, NEW k \in Nat, it.min <= k, k < it.max
      PROVE \E r \in M : r.min <= k /\ k < r.max
  <2> DEFINE below == {a \in starts : a <= k}
             mins == {x.min : x \in S}
  <2>1. below # {}
    <3>1. mins \in SUBSET Nat /\ mins # {} /\ it.min \in mins
      BY <1>2
    <3>2. PICK m \in mins : \A y \in mins : m <= y
      <4> HIDE DEF mins
      <4> QED BY <3>1, LeastExists
    <3>3. PICK x \in S : x.min = m
      BY <3>2
    <3>4. x.min \in Nat /\ \A q \in S : x.min <= q.min
      BY <1>2, <3>2, <3>3
    <3>5. x.min <= k /\ \A q \in S : ~(q.min < x.min)
      BY <1>2, <1>7, <3>4, SMT
    <3>6. x \in first
      BY <3>5
    <3> QED BY <3>5, <3>6
  <2>2. below \in SUBSET Nat /\ \A y \in below : y <= k
    BY <1>3
  <2>3. PICK a \in below : \A y \in below : a >= y
    <3> HIDE DEF below
    <3> QED BY <2>1, <2>2, GreatestExists
  <2>4. a \in starts /\ a \in Nat /\ a <= k
    BY <2>2, <2>3
  <2> DEFINE e == Min(ends(a))
  <2>5. /\ e \in Nat /\ a <= e
        /\ \A q \in S : ~(q.min <= e /\ e < q.max)
    BY <1>4, <2>4
  <2>6. NewRange(a, e) \in M /\ NewRange(a, e).min = a /\ NewRange(a, e).max = e
    BY <1>1, <1>5, <2>4
  <2> HIDE DEF e, starts, ends
  <2>7. ASSUME ~(k < e) PROVE FALSE
    <3> DEFINE later == {x.min : x \in {y \in S : e < y.min}}
    <3>1. e <= k /\ e < it.max /\ it.max \in Nat /\ it.min \in Nat
      BY <1>2, <1>7, <2>5, <2>7, SMT
    <3>2. e < it.min
      BY <2>5, <3>1, SMT
    <3>3. later \in SUBSET Nat /\ it.min \in later
      BY <1>2, <3>2
    <3>4. PICK b \in later : \A y \in later : b <= y
      <4> HIDE DEF later
      <4> QED BY <3>3, LeastExists
    <3>5. PICK y \in S : b = y.min /\ e < y.min
      BY <3>4
    <3>6. b \in Nat /\ e < b /\ b <= it.min
      BY <1>2, <3>3, <3>4, <3>5
    <3>7. \A q \in S : e < q.min => b <= q.min
      BY <3>4
    <3>8. ASSUME NEW q \in S, q.min < b, b <= q.max PROVE FALSE
      <4>1. q.min \in Nat /\ q.max \in Nat /\ ~(q.min <= e /\ e < q.max)
        BY <1>2, <2>5
      <4>2. ~(e < q.min)
        BY <3>6, <3>7, <3>8, <4>1, SMT
      <4> QED BY <2>5, <3>6, <3>8, <4>1, <4>2, SMT
    <3>9. b \in starts
      BY <3>5, <3>8 DEF starts
    <3>10. b <= k
      BY <1>7, <3>1, <3>6, SMT
    <3>11. a >= b
      BY <2>3, <3>9, <3>10
    <3> QED BY <2>4, <2>5, <3>6, <3>11, SMT
  <2> QED BY <2>4, <2>6, <2>7
<1> QED BY <1>6, <1>7 DEF M

\* A slice made of two others, over a scope that has both of theirs, covers what
\* they covered.
LEMMA MergedIntoFacts ==
    ASSUME NEW done, NEW bound \in Nat,
           NEW s \in Slices(done, bound), NEW q \in Slices(done, bound),
           NEW c, c.min \in Nat, c.max \in Nat,
           c.groups = s.groups \cup q.groups,
           1 <= c.min, c.max <= bound,
           c.min <= s.min, c.min <= q.min, s.max <= c.max, q.max <= c.max
    PROVE LET t == MergedInto(c, s, q)
          IN /\ t \in Slices(done, bound)
             /\ t.min = c.min /\ t.max = c.max /\ c.groups \subseteq t.groups
             /\ c.groups # {} => t.groups # {}
             /\ \A k \in Keys : Covers(s, k) \/ Covers(q, k) => Covers(t, k)
<1> DEFINE swap == Cardinality(s.pending) < Cardinality(q.pending)
           big == IF swap THEN q ELSE s
           small == IF swap THEN s ELSE q
           g == Limited(c.groups)
           both == s.iters \cup q.iters
           its == MergedRanges(both)
           p == s.pending \cup q.pending
           ak == (big.acked \ small.pending) \cup small.acked
           rc == big.recounted \cup GroupsOf(s.pending \cap q.pending)
           t == MergedInto(c, s, q)
<1>1. t = [min |-> c.min, max |-> c.max, groups |-> g, iters |-> its,
           pending |-> p, acked |-> ak, recounted |-> rc]
  BY DEF MergedInto
<1>2. /\ s.min \in Nat /\ s.max \in Nat /\ s.min <= s.max
      /\ s.groups \in SUBSET Universal /\ s.pending \in SUBSET Keys
      /\ s.iters \in SUBSET KeyRange /\ s.acked \in SUBSET Keys
      /\ s.recounted \in SUBSET Universal /\ s.acked \subseteq done
  BY SliceElim
<1>3. /\ q.min \in Nat /\ q.max \in Nat /\ q.min <= q.max
      /\ q.groups \in SUBSET Universal /\ q.pending \in SUBSET Keys
      /\ q.iters \in SUBSET KeyRange /\ q.acked \in SUBSET Keys
      /\ q.recounted \in SUBSET Universal /\ q.acked \subseteq done
  BY SliceElim
<1>4. \A x \in {s, q} : /\ x.min \in Nat /\ x.max \in Nat
                        /\ c.min <= x.min /\ x.max <= c.max
                        /\ x.groups \subseteq c.groups
  BY <1>2, <1>3
<1>5. \A it \in both : /\ it.min \in Nat /\ it.max \in Nat /\ it.min <= it.max
                       /\ \E x \in {s, q} : x.min <= it.min /\ it.max <= x.max
  BY SliceElim
<1>6. \A it \in both : c.min <= it.min /\ it.min <= it.max /\ it.max <= c.max
  BY <1>4, <1>5, SMT
<1>7. /\ its \in SUBSET KeyRange
      /\ \A it \in its : c.min <= it.min /\ it.min <= it.max /\ it.max <= c.max
      /\ \A it \in both : \A k \in Nat :
            it.min <= k /\ k < it.max => \E r \in its : r.min <= k /\ k < r.max
  <2>1. both \in SUBSET KeyRange
    BY <1>2, <1>3
  <2> HIDE DEF both
  <2>2. \A it \in both : c.min <= it.min /\ it.min <= it.max /\ it.max <= c.max
    BY <1>6
  <2> QED BY <2>1, <2>2, MergedRangesFacts, SMT
<1>8. g \in SUBSET Universal /\ c.groups \subseteq g /\ (c.groups # {} => g # {})
  <2>1. c.groups \in SUBSET Universal
    BY <1>2, <1>3
  <2> QED BY <2>1, LimitedFacts
<1>9. p \in SUBSET Keys /\ ak \in SUBSET Keys /\ ak \subseteq done
  BY <1>2, <1>3
<1>10. rc \in SUBSET Universal
  <2>1. GroupsOf(s.pending \cap q.pending) \in SUBSET Universal
    BY <1>2, KeysAndGroups DEF GroupsOf
  <2> QED BY <1>2, <1>3, <2>1
<1>11. \A k \in p : /\ k \in Nat /\ GroupOf[k] \in g
                    /\ \E x \in {s, q} : x.min <= k /\ k < x.max
  BY <1>4, <1>8, SliceElim, KeysAndGroups
<1>12. \A k \in p : c.min <= k /\ k < c.max
  <2> HIDE DEF p, g
  <2> QED BY <1>4, <1>11, SMT
<1>13. c.min <= c.max
  BY <1>2, <1>4, SMT
<1> HIDE DEF g, its, p, ak, rc, t
<1>14. t \in Slices(done, bound)
  BY <1>1, <1>7, <1>8, <1>9, <1>10, <1>11, <1>12, <1>13, SliceIntro
<1>15. /\ t.min = c.min /\ t.max = c.max /\ t.groups = g /\ t.iters = its
       /\ t.pending = p
  BY <1>1
<1>16. ASSUME NEW k \in Keys, NEW x \in {s, q}, Covers(x, k)
       PROVE Covers(t, k)
  <2>1. CASE k \in x.pending
    BY <1>15, <2>1 DEF Covers, p
  <2>2. CASE k \notin x.pending
    <3>1. /\ x.min <= k /\ k < x.max /\ GroupOf[k] \in x.groups
          /\ \E it \in x.iters : it.min <= k /\ k < it.max
      BY <1>16, <2>2, CoversCases
    <3>2. k \in Nat
      BY KeysAndGroups
    <3>3. c.min <= k /\ k < c.max
      BY <1>4, <3>1, <3>2, SMT
    <3>4. \E it \in its : it.min <= k /\ k < it.max
      BY <1>7, <3>1, <3>2
    <3>5. GroupOf[k] \in g
      BY <1>4, <1>8, <3>1
    <3> QED BY <1>15, <3>3, <3>4, <3>5, CoversCases
  <2> QED BY <2>1, <2>2
<1> QED BY <1>8, <1>14, <1>15, <1>16 DEF t

\* CompactWithSlice: one slice over both ranges and what lies between them.
LEMMA CompactFacts ==
    ASSUME NEW done, NEW bound \in Nat,
           NEW s \in Slices(done, bound), NEW q \in Slices(done, bound)
    PROVE LET t == CompactWithSlice(s, q)
          IN /\ t \in Slices(done, bound) /\ (~IsEmpty(s) => ~IsEmpty(t))
             /\ t.min = s.min \/ t.min = q.min
             /\ t.max = s.max \/ t.max = q.max
             /\ t.min <= s.min /\ t.min <= q.min /\ s.max <= t.max /\ q.max <= t.max
             /\ \A k \in Keys : Covers(s, k) \/ Covers(q, k) => Covers(t, k)
\* The smallest range with two others in it, and their groups.
<1>HullFacts.
      ASSUME NEW s1, NEW q1, s1.min \in Nat, s1.max \in Nat, q1.min \in Nat,
             q1.max \in Nat
      PROVE LET c == Hull(s1, q1)
            IN /\ c.min \in Nat /\ c.max \in Nat /\ c.groups = s1.groups \cup q1.groups
               /\ c.min <= s1.min /\ c.min <= q1.min /\ s1.max <= c.max /\ q1.max <= c.max
               /\ c.min = s1.min \/ c.min = q1.min
               /\ c.max = s1.max \/ c.max = q1.max
  <2> USE <1>HullFacts
  \* The smaller of two keys (tasks.MinKey).
  <2>MinOfTwo.
        ASSUME NEW a \in Nat, NEW b \in Nat
        PROVE Min({a, b}) = IF a <= b THEN a ELSE b
    <3> USE <2>MinOfTwo
    <3>1. {a, b} \in SUBSET Nat /\ {a, b} # {}
      OBVIOUS
    <3>2. Min({a, b}) \in {a, b} /\ \A y \in {a, b} : Min({a, b}) <= y
      BY <3>1, MinFacts
    <3> QED BY <3>2, SMT
  <2> DEFINE a == Min({s1.min, q1.min})
             b == Max({s1.max, q1.max})
  <2>1. a = (IF s1.min <= q1.min THEN s1.min ELSE q1.min)
    BY <2>MinOfTwo
  <2>2. b = (IF s1.max <= q1.max THEN q1.max ELSE s1.max)
    BY MaxOfTwo
  <2>3. Hull(s1, q1).min = a /\ Hull(s1, q1).max = b
        /\ Hull(s1, q1).groups = s1.groups \cup q1.groups
    BY DEF Hull
  <2> HIDE DEF a, b
  <2>4. /\ a \in Nat /\ b \in Nat /\ a <= s1.min /\ a <= q1.min /\ s1.max <= b
        /\ q1.max <= b /\ (a = s1.min \/ a = q1.min) /\ (b = s1.max \/ b = q1.max)
    BY <2>1, <2>2, SMT
  <2> QED BY <2>3, <2>4
<1> DEFINE c == Hull(s, q)
           t == MergedInto(c, s, q)
<1>1. /\ s.min \in Nat /\ s.max \in Nat /\ s.min <= s.max /\ 1 <= s.min
      /\ s.max <= bound
  BY SliceElim
<1>2. /\ q.min \in Nat /\ q.max \in Nat /\ q.min <= q.max /\ 1 <= q.min
      /\ q.max <= bound
  BY SliceElim
<1>3. /\ c.min \in Nat /\ c.max \in Nat /\ c.groups = s.groups \cup q.groups
      /\ c.min <= s.min /\ c.min <= q.min /\ s.max <= c.max /\ q.max <= c.max
      /\ c.min = s.min \/ c.min = q.min
      /\ c.max = s.max \/ c.max = q.max
  BY <1>1, <1>2, <1>HullFacts
<1> HIDE DEF c
<1>5. 1 <= c.min /\ c.max <= bound /\ (s.min # s.max => c.min # c.max)
  BY <1>1, <1>2, <1>3, SMT
<1>6. s.groups # {} => c.groups # {}
  BY <1>3
<1>7. /\ t \in Slices(done, bound)
      /\ t.min = c.min /\ t.max = c.max
      /\ c.groups # {} => t.groups # {}
      /\ \A k \in Keys : Covers(s, k) \/ Covers(q, k) => Covers(t, k)
  BY <1>3, <1>5, MergedIntoFacts, SMT
<1> HIDE DEF t
<1>8. ~IsEmpty(s) => ~IsEmpty(t)
  BY <1>5, <1>6, <1>7 DEF IsEmpty
<1> QED BY <1>3, <1>7, <1>8 DEF c, t, CompactWithSlice

-----------------------------------------------------------------------------
(* Lists of slices *)

\* The slices that are not empty.
Full(done, bound) == {s \in Slices(done, bound) : ~IsEmpty(s)}

\* Lists over T in the order of the ranges.
Lists(T) ==
    {l \in Seq(T) : \A i, j \in DOMAIN l : i < j => l[i].max <= l[j].min}

\* The tasks that the slices in S cover.
Held(S) == {k \in Keys : \E s \in S : Covers(s, k)}

\* All of S are before all of Q.
Before(S, Q) == \A s \in S, q \in Q : s.max <= q.min

\* The slices of two lists after one another.
LEMMA RangeOfConcat ==
    ASSUME NEW T, NEW a \in Seq(T), NEW b \in Seq(T)
    PROVE Range(a \o b) = Range(a) \cup Range(b)
<1>1. /\ DOMAIN (a \o b) = 1 .. (Len(a) + Len(b)) /\ DOMAIN a = 1 .. Len(a)
      /\ DOMAIN b = 1 .. Len(b) /\ Len(a) \in Nat /\ Len(b) \in Nat
      /\ \A i \in 1 .. Len(a) : (a \o b)[i] = a[i]
      /\ \A i \in 1 .. Len(b) : (a \o b)[Len(a) + i] = b[i]
  BY SMT
<1>2. \A i \in DOMAIN (a \o b) :
        i \in DOMAIN a \/ \E j \in DOMAIN b : i = Len(a) + j
  <2> SUFFICES ASSUME NEW i \in 1 .. (Len(a) + Len(b)), i \notin 1 .. Len(a)
               PROVE \E j \in 1 .. Len(b) : i = Len(a) + j
    BY <1>1
  <2>1. i - Len(a) \in 1 .. Len(b) /\ i = Len(a) + (i - Len(a))
    BY <1>1, SMT
  <2> QED BY <2>1
<1>3. /\ \A i \in DOMAIN a : i \in DOMAIN (a \o b)
      /\ \A i \in DOMAIN b : Len(a) + i \in DOMAIN (a \o b)
  BY <1>1, SMT
<1>4. ASSUME NEW x \in Range(a \o b) PROVE x \in Range(a) \cup Range(b)
  <2>1. PICK i \in DOMAIN (a \o b) : x = (a \o b)[i]
    BY DEF Range
  <2> QED BY <1>1, <1>2, <2>1 DEF Range
<1>5. ASSUME NEW x \in Range(a) \cup Range(b) PROVE x \in Range(a \o b)
  BY <1>1, <1>3, <1>5 DEF Range
<1> QED BY <1>4, <1>5

\* Two lists after one another are in order when all of the first is before all
\* of the second, as AppendSlices demands.
LEMMA ConcatInOrder ==
    ASSUME NEW T, NEW a \in Lists(T), NEW b \in Lists(T),
           Before(Range(a), Range(b))
    PROVE a \o b \in Lists(T)
<1>1. /\ a \in Seq(T) /\ \A i, j \in DOMAIN a : i < j => a[i].max <= a[j].min
      /\ b \in Seq(T) /\ \A i, j \in DOMAIN b : i < j => b[i].max <= b[j].min
  BY DEF Lists
<1>2. a \o b \in Seq(T)
  BY <1>1, SMT
<1>3. /\ DOMAIN (a \o b) = 1 .. (Len(a) + Len(b)) /\ DOMAIN a = 1 .. Len(a)
      /\ DOMAIN b = 1 .. Len(b) /\ Len(a) \in Nat /\ Len(b) \in Nat
      /\ \A i \in 1 .. Len(a) : (a \o b)[i] = a[i]
      /\ \A i \in 1 .. Len(b) : (a \o b)[Len(a) + i] = b[i]
  BY <1>1, SMT
<1>4. \A i \in DOMAIN a, j \in DOMAIN b : a[i].max <= b[j].min
  BY DEF Before, Range
<1>5. ASSUME NEW i \in DOMAIN (a \o b), NEW j \in DOMAIN (a \o b), i < j
      PROVE (a \o b)[i].max <= (a \o b)[j].min
  <2>0. i \in Nat /\ j \in Nat /\ 1 <= i /\ i <= Len(a) + Len(b)
        /\ 1 <= j /\ j <= Len(a) + Len(b)
    BY <1>3, SMT
  <2>1. CASE j <= Len(a)
    <3>1. i \in DOMAIN a /\ j \in DOMAIN a
      BY <1>3, <1>5, <2>0, <2>1, SMT
    <3> QED BY <1>1, <1>3, <1>5, <3>1
  <2>2. CASE i <= Len(a) /\ ~(j <= Len(a))
    <3>1. i \in DOMAIN a /\ j - Len(a) \in DOMAIN b /\ j = Len(a) + (j - Len(a))
      BY <1>3, <2>0, <2>2, SMT
    <3>2. (a \o b)[i] = a[i] /\ (a \o b)[j] = b[j - Len(a)]
      BY <1>3, <3>1
    <3> QED BY <1>4, <3>1, <3>2
  <2>3. CASE ~(i <= Len(a))
    <3>1. /\ i - Len(a) \in DOMAIN b /\ i = Len(a) + (i - Len(a))
          /\ j - Len(a) \in DOMAIN b /\ j = Len(a) + (j - Len(a))
          /\ i - Len(a) < j - Len(a)
      BY <1>3, <1>5, <2>0, <2>3, SMT
    <3>2. (a \o b)[i] = b[i - Len(a)] /\ (a \o b)[j] = b[j - Len(a)]
      BY <1>3, <3>1
    <3> QED BY <1>1, <3>1, <3>2
  <2> QED BY <1>5, <1>3, <2>0, <2>1, <2>2, <2>3
<1> QED BY <1>2, <1>5 DEF Lists

\* Lists with no slice or with one.
LEMMA SmallLists ==
    ASSUME NEW T
    PROVE /\ <<>> \in Lists(T) /\ Range(<<>>) = {}
          /\ \A s \in T : <<s>> \in Lists(T) /\ Range(<<s>>) = {s}
<1>1. <<>> \in Seq(T) /\ DOMAIN <<>> = {}
  BY SMT
<1>2. ASSUME NEW s \in T
      PROVE <<s>> \in Seq(T) /\ DOMAIN <<s>> = {1} /\ <<s>>[1] = s
  BY SMT
<1>3. ~(1 < 1)
  BY SMT
<1>4. ASSUME NEW s \in T PROVE <<s>> \in Lists(T) /\ Range(<<s>>) = {s}
  <2> DEFINE l == <<s>>
  <2>1. l \in Seq(T) /\ DOMAIN l = {1} /\ l[1] = s
    BY <1>2
  <2> HIDE DEF l
  <2>2. l \in Lists(T) /\ Range(l) = {s}
    BY <1>3, <2>1 DEF Lists, Range
  <2> QED BY <2>2 DEF l
<1>5. <<>> \in Lists(T) /\ Range(<<>>) = {}
  BY <1>1 DEF Lists, Range
<1> QED BY <1>4, <1>5

\* Joined as a loop over its lists.
LEMMA JoinedLoop ==
    ASSUME NEW T, NEW lists \in Seq(Seq(T))
    PROVE \E g : /\ g[0] = <<>> /\ g[0] \in Seq(T)
                 /\ \A n \in 1 .. Len(lists) : /\ g[n] = g[n - 1] \o lists[n]
                                               /\ g[n] \in Seq(T)
                 /\ Joined(lists) = g[Len(lists)]
<1> DEFINE N == Len(lists)
           I == [n \in 0 .. N |-> Seq(T)]
           step == [n \in 1 .. N |-> [x \in Seq(T) |-> x \o lists[n]]]
           IsUpTo(f) == f = [n \in DOMAIN lists |->
                               IF n = 1 THEN lists[1] ELSE f[n - 1] \o lists[n]]
<1>1. N \in Nat /\ DOMAIN lists = 1 .. N /\ \A n \in 1 .. N : lists[n] \in Seq(T)
  BY SMT
<1>2. <<>> \in Seq(T) /\ (\A x, y \in Seq(T) : x \o y \in Seq(T))
      /\ \A x \in Seq(T) : <<>> \o x = x
  BY SMT
<1>3. /\ \A n \in 1 .. N : n \in 0 .. N /\ n - 1 \in 0 .. N
      /\ \A n \in 1 .. N : n # 1 => n - 1 \in 1 .. N
      /\ 0 \in 0 .. N /\ ~(0 \in 1 .. N) /\ (N # 0 => N \in 1 .. N)
      /\ \A n \in 0 .. N : n # 0 => n \in 1 .. N
  BY <1>1, SMT
<1> HIDE DEF N
<1>4. /\ \A n \in 0 .. N : I[n] = Seq(T)
      /\ \A n \in 1 .. N : \A x \in Seq(T) : step[n][x] = x \o lists[n]
  OBVIOUS
<1>5. /\ <<>> \in I[0]
      /\ \A n \in 1 .. N : \A x \in I[n - 1] : step[n][x] \in I[n]
  BY <1>1, <1>2, <1>3, <1>4
<1> HIDE DEF I, step
<1>6. PICK g : IsLoop(g, N, <<>>, step) /\ \A n \in 0 .. N : g[n] \in I[n]
  BY <1>1, <1>5, LoopRuns
<1>7. /\ g[0] = <<>> /\ \A n \in 0 .. N : g[n] \in Seq(T)
      /\ \A n \in 1 .. N : g[n] = g[n - 1] \o lists[n]
  <2>1. /\ g[0] = <<>> /\ \A n \in 1 .. N : g[n] = step[n][g[n - 1]]
    BY <1>6 DEF IsLoop
  <2>2. \A n \in 0 .. N : g[n] \in Seq(T)
    BY <1>4, <1>6
  <2> QED BY <1>3, <1>4, <2>1, <2>2
<1> DEFINE f0 == [n \in 1 .. N |-> g[n]]
           u == CHOOSE f : IsUpTo(f)
<1>8. IsUpTo(f0)
  <2>1. \A n \in 1 .. N : g[n] = IF n = 1 THEN lists[1] ELSE f0[n - 1] \o lists[n]
    <3>1. ASSUME 1 \in 1 .. N PROVE g[1] = lists[1]
      <4>1. 1 - 1 = 0
        BY SMT
      <4>2. g[1] = g[1 - 1] \o lists[1] /\ lists[1] \in Seq(T)
        BY <1>1, <1>7, <3>1
      <4>3. g[1] = <<>> \o lists[1]
        BY <1>7, <4>1, <4>2
      <4> QED BY <1>2, <4>2, <4>3
    <3> QED BY <1>3, <1>7, <3>1
  <2>2. f0 = [n \in 1 .. N |-> IF n = 1 THEN lists[1] ELSE f0[n - 1] \o lists[n]]
    BY <2>1
  <2> HIDE DEF f0
  <2> QED BY <1>1, <2>2
<1>9. IsUpTo(u)
  <2> HIDE DEF f0, IsUpTo
  <2> QED BY <1>8
<1>10. Joined(lists) = IF N = 0 THEN <<>> ELSE u[N]
  BY DEF Joined, N
<1> HIDE DEF u
<1>11. \A n \in 1 .. N : u[n] = IF n = 1 THEN lists[1] ELSE u[n - 1] \o lists[n]
  <2>1. u = [n \in DOMAIN lists |->
               IF n = 1 THEN lists[1] ELSE u[n - 1] \o lists[n]]
    BY <1>9
  <2> QED BY <1>1, <2>1
<1> DEFINE h == [n \in 0 .. N |-> IF n = 0 THEN <<>> ELSE u[n]]
           J == [n \in 0 .. N |-> {g[n]}]
<1>12. /\ h[0] \in J[0]
       /\ \A n \in 1 .. N : h[n - 1] \in J[n - 1] => h[n] \in J[n]
  <2>1. h[0] \in J[0]
    BY <1>3, <1>7
  <2>2. ASSUME NEW n \in 1 .. N, h[n - 1] \in J[n - 1] PROVE h[n] \in J[n]
    <3>1. CASE n = 1
      <4>1. 1 - 1 = 0 /\ 1 # 0
        BY SMT
      <4>3. g[1] = g[1 - 1] \o lists[1] /\ lists[1] \in Seq(T)
        BY <1>1, <1>7, <3>1
      <4>4. g[1] = <<>> \o lists[1]
        BY <1>7, <4>1, <4>3
      <4>2. g[1] = lists[1]
        BY <1>2, <4>3, <4>4
      <4> QED BY <1>3, <1>11, <3>1, <4>1, <4>2
    <3>2. CASE n # 1
      <4>1. n - 1 \in 1 .. N /\ n # 0 /\ n - 1 # 0
        BY <1>1, <3>2, SMT
      <4>2. u[n - 1] = g[n - 1]
        BY <1>3, <2>2, <4>1
      <4> QED BY <1>3, <1>7, <1>11, <3>2, <4>1, <4>2
    <3> QED BY <3>1, <3>2
  <2> QED BY <2>1, <2>2
<1>13. \A n \in 0 .. N : h[n] \in J[n]
  <2> HIDE DEF h, J
  <2> QED BY <1>1, <1>12, LoopInvariant
<1>14. N # 0 => u[N] = g[N]
  BY <1>3, <1>13
<1>15. Joined(lists) = g[N]
  BY <1>7, <1>10, <1>14
<1> QED BY <1>3, <1>7, <1>15 DEF N

\* Lists that follow one another, joined: in order, with the slices of all.
LEMMA JoinedFacts ==
    ASSUME NEW T, NEW lists \in Seq(Lists(T)),
           \A m, n \in DOMAIN lists :
              m < n => Before(Range(lists[m]), Range(lists[n]))
    PROVE /\ Joined(lists) \in Lists(T)
          /\ \A x : x \in Range(Joined(lists)) <=>
                       \E n \in DOMAIN lists : x \in Range(lists[n])
<1> DEFINE N == Len(lists)
           J == [n \in 0 .. N |->
                   {l \in Lists(T) : \A x : x \in Range(l) <=>
                      \E m \in 1 .. N : m <= n /\ x \in Range(lists[m])}]
<1>1. N \in Nat /\ DOMAIN lists = 1 .. N
      /\ \A n \in 1 .. N : lists[n] \in Lists(T)
  BY SMT
<1>2. lists \in Seq(Seq(T))
  <2>1. \A n \in 1 .. N : lists[n] \in Seq(T)
    BY <1>1 DEF Lists
  <2> QED BY <2>1, SMT
<1>3. PICK g : /\ g[0] = <<>>
               /\ \A n \in 1 .. N : /\ g[n] = g[n - 1] \o lists[n]
                                    /\ g[n] \in Seq(T)
               /\ Joined(lists) = g[N]
  BY <1>2, JoinedLoop
<1> HIDE DEF N
<1>4. g[0] \in J[0]
  <2>1. 0 \in 0 .. N /\ \A m \in 1 .. N : ~(m <= 0)
    BY <1>1, SMT
  <2> QED BY <1>3, <2>1, SmallLists
<1>5. ASSUME NEW n \in 1 .. N, g[n - 1] \in J[n - 1] PROVE g[n] \in J[n]
  <2>1. /\ n \in 0 .. N /\ n - 1 \in 0 .. N
        /\ \A m \in 1 .. N : m <= n <=> (m <= n - 1 \/ m = n)
        /\ \A m \in 1 .. N : m <= n - 1 => m < n
    BY <1>1, SMT
  <2> DEFINE l == g[n - 1]
  <2>2. /\ l \in Lists(T)
        /\ \A x : x \in Range(l) <=>
              \E m \in 1 .. N : m <= n - 1 /\ x \in Range(lists[m])
    BY <1>5, <2>1
  <2>3. Before(Range(l), Range(lists[n]))
    BY <1>1, <2>1, <2>2 DEF Before
  <2>4. g[n] = l \o lists[n]
    BY <1>3
  <2> HIDE DEF l
  <2>5. g[n] \in Lists(T)
    BY <1>1, <2>2, <2>3, <2>4, ConcatInOrder
  <2>6. Range(g[n]) = Range(l) \cup Range(lists[n])
    <3>1. l \in Seq(T) /\ lists[n] \in Seq(T)
      BY <1>1, <2>2 DEF Lists
    <3>2. Range(l \o lists[n]) = Range(l) \cup Range(lists[n])
      BY <3>1, RangeOfConcat
    <3> QED BY <2>4, <3>2
  <2>7. \A x : x \in Range(g[n]) <=>
              \E m \in 1 .. N : m <= n /\ x \in Range(lists[m])
    BY <2>1, <2>2, <2>6
  <2> QED BY <2>1, <2>5, <2>7
<1>6. \A n \in 0 .. N : g[n] \in J[n]
  <2> HIDE DEF J
  <2> QED BY <1>1, <1>4, <1>5, LoopInvariant
<1>7. N \in 0 .. N /\ \A m \in 1 .. N : m <= N
  BY <1>1, SMT
<1>8. /\ g[N] \in Lists(T)
      /\ \A x : x \in Range(g[N]) <=> \E m \in 1 .. N : x \in Range(lists[m])
  BY <1>6, <1>7
<1> QED BY <1>1, <1>3, <1>8

\* NonEmpty as a join of lists with at most one slice.
LEMMA NonEmptyParts ==
    ASSUME NEW T, NEW l \in Seq(T)
    PROVE LET lists == [i \in DOMAIN l |-> IF IsEmpty(l[i]) THEN <<>> ELSE <<l[i]>>]
          IN /\ lists \in Seq(Seq(T)) /\ DOMAIN lists = DOMAIN l
             /\ Len(lists) = Len(l)
             /\ \A i \in DOMAIN l : /\ IsEmpty(l[i]) => lists[i] = <<>>
                                    /\ ~IsEmpty(l[i]) => lists[i] = <<l[i]>>
             /\ NonEmpty(l) = Joined(lists)
<1> DEFINE lists == [i \in DOMAIN l |-> IF IsEmpty(l[i]) THEN <<>> ELSE <<l[i]>>]
<1>1. Len(l) \in Nat /\ DOMAIN l = 1 .. Len(l) /\ \A i \in DOMAIN l : l[i] \in T
  BY SMT
<1>2. \A x \in T : <<>> \in Seq(T) /\ <<x>> \in Seq(T)
  BY SMT
<1>3. \A i \in DOMAIN l : lists[i] \in Seq(T)
  BY <1>1, <1>2
<1>4. DOMAIN lists = DOMAIN l
  OBVIOUS
<1>5. \A i \in DOMAIN l : /\ IsEmpty(l[i]) => lists[i] = <<>>
                          /\ ~IsEmpty(l[i]) => lists[i] = <<l[i]>>
  OBVIOUS
<1>6. lists = [i \in 1 .. Len(l) |-> lists[i]]
  BY <1>1
<1>7. NonEmpty(l) = Joined(lists)
  BY DEF NonEmpty
<1> HIDE DEF lists
<1>8. lists \in Seq(Seq(T)) /\ Len(lists) = Len(l)
  BY <1>1, <1>3, <1>6, SMT
<1> QED BY <1>4, <1>5, <1>7, <1>8 DEF lists

\* Dropping the empty slices of a list loses no task.
LEMMA NonEmptyFacts ==
    ASSUME NEW done, NEW bound, NEW l \in Lists(Slices(done, bound))
    PROVE /\ NonEmpty(l) \in Lists(Full(done, bound))
          /\ \A x : x \in Range(NonEmpty(l)) <=> x \in Range(l) /\ ~IsEmpty(x)
          /\ Held(Range(NonEmpty(l))) = Held(Range(l))
<1> DEFINE T == Slices(done, bound)
           F == Full(done, bound)
           lists == [i \in DOMAIN l |-> IF IsEmpty(l[i]) THEN <<>> ELSE <<l[i]>>]
<1>1. l \in Seq(T) /\ \A i, j \in DOMAIN l : i < j => l[i].max <= l[j].min
  BY DEF Lists
<1>2. /\ lists \in Seq(Seq(T)) /\ DOMAIN lists = DOMAIN l
      /\ Len(lists) = Len(l)
      /\ \A i \in DOMAIN l : /\ IsEmpty(l[i]) => lists[i] = <<>>
                             /\ ~IsEmpty(l[i]) => lists[i] = <<l[i]>>
      /\ NonEmpty(l) = Joined(lists)
  BY <1>1, NonEmptyParts
<1> HIDE DEF lists
<1>3. \A i \in DOMAIN l : l[i] \in T
  BY <1>1, SMT
<1>4. ASSUME NEW i \in DOMAIN l
      PROVE /\ lists[i] \in Lists(F)
            /\ \A x : x \in Range(lists[i]) <=> x = l[i] /\ ~IsEmpty(x)
  <2>1. CASE IsEmpty(l[i])
    BY <1>2, <2>1, SmallLists
  <2>2. CASE ~IsEmpty(l[i])
    <3>1. l[i] \in F
      BY <1>3, <2>2 DEF Full
    <3>2. lists[i] = <<l[i]>>
      BY <1>2, <2>2
    <3>3. <<l[i]>> \in Lists(F) /\ Range(<<l[i]>>) = {l[i]}
      <4> HIDE DEF F
      <4> QED BY <3>1, SmallLists
    <3>4. lists[i] \in Lists(F) /\ Range(lists[i]) = {l[i]}
      BY <3>2, <3>3
    <3> QED BY <2>2, <3>4
  <2> QED BY <2>1, <2>2
<1>5. lists \in Seq(Lists(F))
  <2>1. \A i \in DOMAIN lists : lists[i] \in Lists(F)
    BY <1>2, <1>4
  <2>2. /\ lists = [i \in 1 .. Len(lists) |-> lists[i]]
        /\ DOMAIN lists = 1 .. Len(lists) /\ Len(lists) \in Nat
    BY <1>2, SMT
  <2> DEFINE X == Lists(F)
  <2> HIDE DEF X
  <2>3. \A i \in 1 .. Len(lists) : lists[i] \in X
    BY <2>1, <2>2 DEF X
  <2>4. lists \in Seq(X)
    BY <2>2, <2>3, SMT
  <2> QED BY <2>4 DEF X
<1>6. ASSUME NEW m \in DOMAIN lists, NEW n \in DOMAIN lists, m < n
      PROVE Before(Range(lists[m]), Range(lists[n]))
  <2>1. m \in DOMAIN l /\ n \in DOMAIN l
    BY <1>2
  <2>2. l[m].max <= l[n].min
    BY <1>1, <1>6, <2>1
  <2>3. /\ \A x \in Range(lists[m]) : x = l[m]
        /\ \A x \in Range(lists[n]) : x = l[n]
    BY <1>4, <2>1
  <2> QED BY <2>2, <2>3 DEF Before
<1>7. /\ Joined(lists) \in Lists(F)
      /\ \A x : x \in Range(Joined(lists)) <=>
                  \E n \in DOMAIN lists : x \in Range(lists[n])
  <2> HIDE DEF F
  <2> QED BY <1>5, <1>6, JoinedFacts
<1>8. \A x : x \in Range(NonEmpty(l)) <=> x \in Range(l) /\ ~IsEmpty(x)
  <2>1. \A x : x \in Range(l) <=> \E n \in DOMAIN l : x = l[n]
    BY DEF Range
  <2>2. \A x : x \in Range(NonEmpty(l)) <=>
                 \E n \in DOMAIN l : x = l[n] /\ ~IsEmpty(x)
    BY <1>2, <1>4, <1>7
  <2> QED BY <2>1, <2>2
<1>9. \A x \in Range(l) : x \in T
  BY <1>3 DEF Range
<1>10. Held(Range(NonEmpty(l))) = Held(Range(l))
  BY <1>8, <1>9, EmptyCoversNothing DEF Held
<1> QED BY <1>2, <1>7, <1>8, <1>10

\* The first and the last slice of a list bound the others.
LEMMA FirstAndLast ==
    ASSUME NEW done, NEW bound, NEW T \in SUBSET Slices(done, bound),
           NEW l \in Lists(T), l # <<>>
    PROVE /\ Len(l) \in Nat \ {0} /\ 1 \in DOMAIN l /\ Len(l) \in DOMAIN l
          /\ l[1] \in Range(l) /\ l[Len(l)] \in Range(l)
          /\ \A s \in Range(l) : /\ s \in T
                                 /\ l[1].min <= s.min
                                 /\ s.max <= l[Len(l)].max
<1>1. l \in Seq(T) /\ \A i, j \in DOMAIN l : i < j => l[i].max <= l[j].min
  BY DEF Lists
<1>2. Len(l) \in Nat \ {0} /\ DOMAIN l = 1 .. Len(l)
      /\ \A i \in DOMAIN l : l[i] \in T
  BY <1>1, SMT
<1>3. 1 \in DOMAIN l /\ Len(l) \in DOMAIN l
  BY <1>2, SMT
<1>4. ASSUME NEW i \in DOMAIN l
      PROVE l[1].min <= l[i].min /\ l[i].max <= l[Len(l)].max
  <2>1. \A x \in {1, i, Len(l)} :
          l[x].min \in Nat /\ l[x].max \in Nat /\ l[x].min <= l[x].max
    <3>1. \A x \in {1, i, Len(l)} : l[x] \in Slices(done, bound)
      BY <1>2, <1>3
    <3> QED BY <3>1, SliceElim
  <2>2. i # 1 => l[1].max <= l[i].min
    BY <1>1, <1>2, <1>3, SMT
  <2>3. i # Len(l) => l[i].max <= l[Len(l)].min
    BY <1>1, <1>2, <1>3, SMT
  <2> QED BY <2>1, <2>2, <2>3, SMT
<1>5. l[1] \in Range(l) /\ l[Len(l)] \in Range(l)
  BY <1>3 DEF Range
<1>6. ASSUME NEW s \in Range(l)
      PROVE s \in T /\ l[1].min <= s.min /\ s.max <= l[Len(l)].max
  <2>1. PICK i \in DOMAIN l : s = l[i]
    BY DEF Range
  <2> QED BY <1>2, <1>4, <2>1
<1> QED BY <1>2, <1>3, <1>5, <1>6

-----------------------------------------------------------------------------
(* MergeWithSlice *)

\* The parts of two merged slices follow one another, and the last one that is
\* not empty ends where the merged range does.
LEMMA ThreeParts ==
    ASSUME NEW done, NEW bound \in Nat, NEW x \in Slices(done, bound),
           NEW y \in Slices(done, bound), NEW z \in Slices(done, bound),
           x.max = y.min, y.max = z.min, ~IsEmpty(z) \/ (~IsEmpty(y) /\ z.min = z.max)
    PROVE LET m == NonEmpty(<<x, y, z>>)
          IN /\ m \in Lists(Full(done, bound)) /\ m # <<>>
             /\ \A s \in Range(m) : s \in {x, y, z}
             /\ m[Len(m)].max = z.max
             /\ Held(Range(m)) = Held({x, y, z})
<1> DEFINE T == Slices(done, bound)
           l == <<x, y, z>>
           m == NonEmpty(l)
<1>1. /\ x.min \in Nat /\ x.max \in Nat /\ x.min <= x.max
      /\ y.min \in Nat /\ y.max \in Nat /\ y.min <= y.max
      /\ z.min \in Nat /\ z.max \in Nat /\ z.min <= z.max
  BY SliceElim
<1>2. l \in Seq(T) /\ DOMAIN l = {1, 2, 3} /\ l[1] = x /\ l[2] = y /\ l[3] = z
  <2>1. x \in T /\ y \in T /\ z \in T
    OBVIOUS
  <2> HIDE DEF T
  <2> QED BY <2>1, SMT
<1> HIDE DEF l
<1>3. \A i, j \in {1, 2, 3} : i < j => l[i].max <= l[j].min
  BY <1>1, <1>2, SMT
<1>4. l \in Lists(T)
  BY <1>2, <1>3 DEF Lists
<1>5. Range(l) = {x, y, z}
  BY <1>2 DEF Range
<1>6. /\ m \in Lists(Full(done, bound))
      /\ \A s : s \in Range(m) <=> s \in Range(l) /\ ~IsEmpty(s)
      /\ Held(Range(m)) = Held(Range(l))
  BY <1>4, NonEmptyFacts
<1> HIDE DEF m
<1>7. \E s \in Range(m) : s.max = z.max
  <2>1. CASE ~IsEmpty(z)
    BY <1>5, <1>6, <2>1
  <2>2. CASE ~IsEmpty(y) /\ z.min = z.max
    BY <1>5, <1>6, <2>2
  <2> QED BY <2>1, <2>2
<1>8. m # <<>>
  BY <1>7, SmallLists
<1>9. /\ m[Len(m)] \in Range(m)
      /\ \A s \in Range(m) : s.max <= m[Len(m)].max
  <2>1. Full(done, bound) \in SUBSET T
    BY DEF Full
  <2> DEFINE F == Full(done, bound)
  <2>2. F \in SUBSET T /\ m \in Lists(F)
    BY <1>6, <2>1
  <2> HIDE DEF F
  <2> QED BY <1>8, <2>2, FirstAndLast
<1>10. \A s \in Range(m) : s \in {x, y, z} /\ s.max \in Nat /\ s.max <= z.max
  <2>1. \A s \in {x, y, z} : s.max \in Nat /\ s.max <= z.max
    BY <1>1, SMT
  <2> QED BY <1>5, <1>6, <2>1
<1>11. m[Len(m)].max <= z.max /\ z.max <= m[Len(m)].max /\ m[Len(m)].max \in Nat
  BY <1>7, <1>9, <1>10
<1>12. m[Len(m)].max = z.max
  BY <1>1, <1>11, SMT
<1>13. \A s \in Range(m) : s \in {x, y, z}
  BY <1>10
<1>14. Held(Range(m)) = Held({x, y, z})
  BY <1>5, <1>6
<1> QED BY <1>6, <1>8, <1>12, <1>13, <1>14 DEF l, m

-----------------------------------------------------------------------------
(* Reading and acknowledging *)

\* SelectTasks: a row that the slice was going to read is tracked once the
\* iterator has passed it.
LEMMA SelectTaskFacts ==
    ASSUME NEW done, NEW bound \in Nat, NEW s \in Slices(done, bound),
           s.iters # {}, NEW rows \in SUBSET Keys
    PROVE LET t == SelectTask(s, rows)
          IN /\ t \in Slices(done, bound) /\ t.min = s.min /\ t.max = s.max
             /\ \A x \in rows : Covers(s, x) => Covers(t, x)
<1> DEFINE first == CHOOSE it \in s.iters : \A i \in s.iters : it.min <= i.min
           found == {k \in rows : ContainsKey(first, k)}
           k == Min(found)
           next == NewRange(k + 1, first.max)
           left == s.iters \ {first}
           rest == left \cup {next}
           t == SelectTask(s, rows)
<1>1. /\ s \in SliceSet /\ s.min \in Nat /\ s.max \in Nat
      /\ 1 <= s.min /\ s.min <= s.max /\ s.max <= bound
      /\ s.acked \subseteq done /\ s.iters \in SUBSET KeyRange
  BY SliceElim
<1>2. \A it \in s.iters : /\ it \in KeyRange /\ it.min \in Nat /\ it.max \in Nat
                          /\ s.min <= it.min /\ it.min <= it.max
                          /\ it.max <= s.max
  BY SliceElim
<1>3. \A x \in s.pending : s.min <= x /\ x < s.max /\ GroupOf[x] \in s.groups
  BY SliceElim
<1>4. first \in s.iters
  <2> DEFINE mins == {it.min : it \in s.iters}
  <2>1. mins \in SUBSET Nat /\ mins # {}
    BY <1>2
  <2>2. PICK m \in mins : \A y \in mins : m <= y
    <3> HIDE DEF mins
    <3> QED BY <2>1, LeastExists
  <2>3. \E it \in s.iters : \A i \in s.iters : it.min <= i.min
    BY <2>2
  <2> QED BY <2>3
<1>5. /\ first.min \in Nat /\ first.max \in Nat
      /\ s.min <= first.min /\ first.max <= s.max
  BY <1>2, <1>4
<1>6. t = IF found = {} THEN [s EXCEPT !.iters = @ \ {first}]
          ELSE IF GroupOf[k] \notin s.groups THEN [s EXCEPT !.iters = rest]
          ELSE [s EXCEPT !.iters = rest, !.pending = @ \cup {k},
                         !.acked = @ \ {k},
                         !.recounted = @ \cup GroupsOf({k} \cap s.pending)]
  BY DEF SelectTask
<1> HIDE DEF first, t
<1>7. found # {} => /\ k \in rows /\ k \in Keys /\ k \in Nat
                    /\ first.min <= k /\ k < first.max
                    /\ \A x \in found : k <= x
  <2>1. found \in SUBSET Nat
    BY KeysAndGroups
  <2>2. found # {} => k \in found /\ \A x \in found : k <= x
    <3> HIDE DEF found
    <3> QED BY <2>1, MinFacts
  <2>3. \A x \in found : /\ x \in rows /\ x \in Keys /\ x \in Nat
                         /\ first.min <= x /\ x < first.max
    BY KeysAndGroups DEF ContainsKey
  <2> HIDE DEF found, k
  <2> QED BY <2>2, <2>3
<1>8. \A x \in rows : first.min <= x /\ x < first.max => x \in found
  BY DEF ContainsKey
<1> HIDE DEF found, k
<1>9. \A it \in left : it \in s.iters
  OBVIOUS
<1>10. found # {} => /\ next \in KeyRange /\ next.min = k + 1
                     /\ next.max = first.max /\ s.min <= k + 1
                     /\ k + 1 <= first.max
  <2> SUFFICES ASSUME found # {}
               PROVE /\ next \in KeyRange /\ next.min = k + 1
                     /\ next.max = first.max /\ s.min <= k + 1
                     /\ k + 1 <= first.max
    OBVIOUS
  <2>1. k + 1 \in Nat /\ s.min <= k + 1 /\ k + 1 <= first.max
    BY <1>1, <1>5, <1>7, SMT
  <2> QED BY <1>5, <2>1, RangeFacts
<1> HIDE DEF next

\* Whatever the new iterators are, when they are in range the slice is good.
<1>11. ASSUME NEW its \in SUBSET KeyRange, NEW y \in SliceSet,
              y.min = s.min, y.max = s.max, y.groups = s.groups, y.iters = its,
              \A it \in its : it \in s.iters \/ (found # {} /\ it = next),
              y.acked \subseteq s.acked,
              \A x \in y.pending : x \in s.pending
                  \/ (found # {} /\ x = k /\ GroupOf[k] \in s.groups)
       PROVE y \in Slices(done, bound)
  <2>1. \A it \in its : s.min <= it.min /\ it.min <= it.max /\ it.max <= s.max
    BY <1>2, <1>5, <1>10, <1>11
  <2>2. found # {} => s.min <= k /\ k < s.max
    BY <1>1, <1>5, <1>7, SMT
  <2>3. \A x \in y.pending : s.min <= x /\ x < s.max /\ GroupOf[x] \in s.groups
    BY <1>3, <1>11, <2>2
  <2>4. y.acked \subseteq done
    BY <1>1, <1>11
  <2> QED BY <1>1, <1>11, <2>1, <2>3, <2>4, SliceGood
\* What the slice covers through the first iterator is found or the next one's.
<1>12. ASSUME NEW y, y.min = s.min, y.max = s.max, y.groups = s.groups,
              s.pending \subseteq y.pending,
              left \subseteq y.iters, found # {} => next \in y.iters,
              found # {} => (GroupOf[k] \in s.groups => k \in y.pending),
              NEW x \in rows, Covers(s, x)
       PROVE Covers(y, x)
  <2>1. CASE x \in s.pending
    BY <1>12, <2>1, CoversCases
  <2>2. CASE x \notin s.pending
    <3>1. /\ s.min <= x /\ x < s.max /\ GroupOf[x] \in s.groups
          /\ \E it \in s.iters : it.min <= x /\ x < it.max
      BY <1>12, <2>2, CoversCases
    <3>2. PICK it \in s.iters : it.min <= x /\ x < it.max
      BY <3>1
    <3>3. CASE it # first
      <4>1. it \in y.iters
        BY <1>12, <3>3
      <4> QED BY <1>12, <3>1, <3>2, <4>1, CoversCases
    <3>4. CASE it = first
      <4>1. x \in found
        BY <1>8, <3>2, <3>4
      <4>2. x \in Nat /\ k \in Nat /\ k <= x /\ x < first.max
        BY <1>7, <3>2, <3>4, <4>1, KeysAndGroups
      <4>3. CASE x = k
        <5>1. x \in y.pending
          BY <1>12, <3>1, <4>1, <4>3
        <5> QED BY <5>1, CoversCases
      <4>4. CASE x # k
        <5>1. k + 1 <= x
          BY <4>2, <4>4, SMT
        <5>2. next \in y.iters /\ next.min <= x /\ x < next.max
          BY <1>10, <1>12, <4>1, <4>2, <5>1
        <5> QED BY <1>12, <3>1, <5>2, CoversCases
      <4> QED BY <4>3, <4>4
    <3> QED BY <3>3, <3>4
  <2> QED BY <2>1, <2>2
<1>13. left \in SUBSET KeyRange /\ (found # {} => rest \in SUBSET KeyRange)
  BY <1>1, <1>10
<1>14. left \subseteq rest /\ next \in rest
       /\ \A it \in rest : it \in s.iters \/ it = next
  OBVIOUS
<1>15. CASE found = {}
  <2>1. t = [s EXCEPT !.iters = left]
    BY <1>6, <1>15
  <2> HIDE DEF left
  <2>2. /\ t \in SliceSet /\ t.min = s.min /\ t.max = s.max
        /\ t.groups = s.groups /\ t.iters = left
        /\ t.pending = s.pending /\ t.acked = s.acked
    BY <1>1, <1>13, <2>1 DEF SliceSet
  <2>3. t \in Slices(done, bound)
    BY <1>9, <1>11, <1>13, <2>2
  <2>4. \A x \in rows : Covers(s, x) => Covers(t, x)
    BY <1>12, <1>15, <2>2
  <2> QED BY <2>2, <2>3, <2>4 DEF t
<1>16. CASE found # {} /\ GroupOf[k] \notin s.groups
  <2>1. t = [s EXCEPT !.iters = rest]
    BY <1>6, <1>16
  <2> HIDE DEF left, rest
  <2>2. /\ t \in SliceSet /\ t.min = s.min /\ t.max = s.max
        /\ t.groups = s.groups /\ t.iters = rest
        /\ t.pending = s.pending /\ t.acked = s.acked
    BY <1>1, <1>13, <1>16, <2>1 DEF SliceSet
  <2>3. t \in Slices(done, bound)
    BY <1>11, <1>13, <1>14, <1>16, <2>2
  <2>4. \A x \in rows : Covers(s, x) => Covers(t, x)
    BY <1>12, <1>14, <1>16, <2>2
  <2> QED BY <2>2, <2>3, <2>4 DEF t
<1>17. CASE found # {} /\ GroupOf[k] \in s.groups
  <2>1. t = [s EXCEPT !.iters = rest, !.pending = @ \cup {k}, !.acked = @ \ {k},
                      !.recounted = @ \cup GroupsOf({k} \cap s.pending)]
    BY <1>6, <1>17
  <2> HIDE DEF left, rest
  <2>2. /\ t \in SliceSet /\ t.min = s.min /\ t.max = s.max
        /\ t.groups = s.groups /\ t.iters = rest
        /\ t.pending = s.pending \cup {k} /\ t.acked = s.acked \ {k}
    <3> DEFINE rc == GroupsOf({k} \cap s.pending)
               p == s.pending \cup {k}
               ak == s.acked \ {k}
               r == s.recounted \cup rc
    <3>1. rest \in SUBSET KeyRange /\ k \in Keys
      BY <1>7, <1>13, <1>17
    <3>2. rc \in SUBSET Universal
      BY <3>1, KeysAndGroups DEF GroupsOf
    <3>3. /\ s.pending \in SUBSET Keys /\ s.acked \in SUBSET Keys
          /\ s.recounted \in SUBSET Universal
      BY <1>1 DEF SliceSet
    <3>4. p \in SUBSET Keys /\ ak \in SUBSET Keys /\ r \in SUBSET Universal
      <4> HIDE DEF rc
      <4> QED BY <3>1, <3>2, <3>3
    <3>5. t = [s EXCEPT !.iters = rest, !.pending = p, !.acked = ak,
                        !.recounted = r]
      BY <2>1
    <3> HIDE DEF p, ak, r, rc
    <3>6. /\ t \in SliceSet /\ t.min = s.min /\ t.max = s.max
          /\ t.groups = s.groups /\ t.iters = rest
          /\ t.pending = p /\ t.acked = ak
      BY <1>1, <3>1, <3>4, <3>5 DEF SliceSet
    <3> QED BY <3>6 DEF p, ak
  <2>3. t \in Slices(done, bound)
    BY <1>11, <1>13, <1>14, <1>17, <2>2
  <2>4. \A x \in rows : Covers(s, x) => Covers(t, x)
    BY <1>12, <1>14, <1>17, <2>2
  <2> QED BY <2>2, <2>3, <2>4 DEF t
<1> QED BY <1>15, <1>16, <1>17

\* More executed tasks and more readable keys: a slice stays a proper one.
LEMMA SlicesGrow ==
    ASSUME NEW done, NEW more, done \subseteq more,
           NEW bound \in Nat, NEW higher \in Nat, bound <= higher
    PROVE /\ Slices(done, bound) \subseteq Slices(more, higher)
          /\ Full(done, bound) \subseteq Full(more, higher)
<1>1. ASSUME NEW s \in Slices(done, bound) PROVE s \in Slices(more, higher)
  <2>1. /\ s \in SliceSet /\ s.min \in Nat /\ s.max \in Nat
        /\ 1 <= s.min /\ s.min <= s.max /\ s.max <= bound
        /\ \A it \in s.iters : s.min <= it.min /\ it.min <= it.max
                               /\ it.max <= s.max
        /\ \A k \in s.pending : s.min <= k /\ k < s.max /\ GroupOf[k] \in s.groups
        /\ s.acked \subseteq done
    BY SliceElim
  <2>2. s.max <= higher
    BY <2>1, SMT
  <2>3. s.acked \subseteq more
    BY <2>1
  <2> QED BY <2>1, <2>2, <2>3, SliceGood
<1> QED BY <1>1 DEF Full

\* An executable of a slice is acknowledged: the slice still covers its task
\* until it shrinks.
LEMMA AckedFacts ==
    ASSUME NEW done, NEW bound \in Nat, NEW s \in Slices(done, bound),
           NEW k \in Keys
    PROVE LET t == [s EXCEPT !.acked = @ \cup {k}]
          IN /\ t \in Slices(done \cup {k}, bound)
             /\ t.min = s.min /\ t.max = s.max
             /\ \A x : Covers(s, x) => Covers(t, x)
<1> DEFINE t == [s EXCEPT !.acked = @ \cup {k}]
           more == done \cup {k}
<1>1. /\ s \in SliceSet /\ s.acked \in SUBSET Keys
      /\ 1 <= s.min /\ s.min <= s.max /\ s.max <= bound
      /\ \A it \in s.iters : s.min <= it.min /\ it.min <= it.max
                             /\ it.max <= s.max
      /\ \A x \in s.pending : s.min <= x /\ x < s.max /\ GroupOf[x] \in s.groups
      /\ s.acked \subseteq done
  BY SliceElim
<1>2. /\ t \in SliceSet /\ t.min = s.min /\ t.max = s.max /\ t.groups = s.groups
      /\ t.iters = s.iters /\ t.pending = s.pending /\ t.acked = s.acked \cup {k}
  BY <1>1 DEF SliceSet
<1> HIDE DEF t
<1>3. t.acked \subseteq more
  BY <1>1, <1>2
<1> HIDE DEF more
<1>4. t \in Slices(more, bound)
  BY <1>1, <1>2, <1>3, SliceGood
<1>5. \A x : Covers(s, x) => Covers(t, x)
  BY <1>2, CoversCases
<1> QED BY <1>2, <1>4, <1>5 DEF t, more

-----------------------------------------------------------------------------
(* MergeSlices *)

\* A list in order is its front and then its last slice.
LEMMA FrontAndLast ==
    ASSUME NEW T, NEW l \in Lists(T), l # <<>>
    PROVE /\ Front(l) \in Lists(T) /\ Last(l) \in T
          /\ Range(l) = Range(Front(l)) \cup {Last(l)}
          /\ Before(Range(Front(l)), {Last(l)})
<1> DEFINE n == Len(l)
           f == Front(l)
<1>1. l \in Seq(T) /\ \A i, j \in DOMAIN l : i < j => l[i].max <= l[j].min
  BY DEF Lists
<1>2. n \in Nat \ {0} /\ DOMAIN l = 1 .. n /\ \A i \in DOMAIN l : l[i] \in T
  BY <1>1, SMT
<1>3. /\ f \in Seq(T) /\ DOMAIN f = 1 .. (n - 1)
      /\ \A i \in 1 .. (n - 1) : f[i] = l[i]
  BY <1>1, <1>2, SMT DEF Front
<1>4. Last(l) = l[n]
  BY DEF Last
<1> HIDE DEF n, f
<1>5. /\ \A i \in 1 .. (n - 1) : i \in 1 .. n /\ i < n
      /\ n \in 1 .. n /\ \A i \in 1 .. n : i # n => i \in 1 .. (n - 1)
  BY <1>2, SMT
<1>6. f \in Lists(T)
  <2>1. ASSUME NEW i \in DOMAIN f, NEW j \in DOMAIN f, i < j
        PROVE f[i].max <= f[j].min
    <3>1. i \in DOMAIN l /\ j \in DOMAIN l /\ f[i] = l[i] /\ f[j] = l[j]
      BY <1>2, <1>3, <1>5
    <3> QED BY <1>1, <2>1, <3>1
  <2> QED BY <1>3, <2>1 DEF Lists
<1>7. Range(l) = Range(f) \cup {l[n]}
  <2>1. \A x \in Range(l) : x \in Range(f) \cup {l[n]}
    BY <1>2, <1>3, <1>5 DEF Range
  <2>2. \A x \in Range(f) \cup {l[n]} : x \in Range(l)
    BY <1>2, <1>3, <1>5 DEF Range
  <2> QED BY <2>1, <2>2
<1>8. Before(Range(f), {l[n]})
  BY <1>1, <1>2, <1>3, <1>5 DEF Before, Range
<1> QED BY <1>2, <1>4, <1>5, <1>6, <1>7, <1>8 DEF f

\* A slice after all of a list, appended to it.
LEMMA AppendInOrder ==
    ASSUME NEW T, NEW l \in Lists(T), NEW s \in T, Before(Range(l), {s})
    PROVE /\ Append(l, s) \in Lists(T)
          /\ Range(Append(l, s)) = Range(l) \cup {s}
          /\ Append(l, s) # <<>> /\ Append(l, s)[Len(Append(l, s))] = s
<1>1. l \in Seq(T)
  BY DEF Lists
<1>2. /\ Append(l, s) = l \o <<s>>
      /\ Append(l, s) # <<>> /\ Append(l, s)[Len(Append(l, s))] = s
      /\ <<s>> \in Seq(T)
  BY <1>1, SMT
<1>3. <<s>> \in Lists(T) /\ Range(<<s>>) = {s}
  BY SmallLists
<1> DEFINE b == <<s>>
<1>4. b \in Lists(T) /\ Range(b) = {s} /\ b \in Seq(T) /\ Append(l, s) = l \o b
  BY <1>2, <1>3
<1> HIDE DEF b
<1>5. l \o b \in Lists(T)
  BY <1>4, ConcatInOrder
<1>6. Range(l \o b) = Range(l) \cup Range(b)
  BY <1>1, <1>4, RangeOfConcat, SMT
<1> QED BY <1>2, <1>4, <1>5, <1>6

\* The tasks that a set of slices covers: of unions and subsets.
LEMMA HeldFacts ==
    ASSUME NEW S, NEW Q
    PROVE /\ Held(S \cup Q) = Held(S) \cup Held(Q)
          /\ S \subseteq Q => Held(S) \subseteq Held(Q)
          /\ Held(S) \subseteq Keys
<1>1. Held(S \cup Q) = Held(S) \cup Held(Q)
  BY DEF Held
<1>2. S \subseteq Q => Held(S) \subseteq Held(Q)
  BY DEF Held
<1>3. Held(S) \subseteq Keys
  BY DEF Held
<1> QED BY <1>1, <1>2, <1>3

\* A turn of MergeSlices: slice q, from one of two lists of which the slices so
\* far end at f, joins the merged list, the other list having come to g.
Follows(out, q, f, g) ==
    /\ f <= q.min
    /\ out # <<>> => /\ Last(out).max = f \/ Last(out).max = g
                     /\ Last(out).min <= q.min

\* Slice q has joined the merged list, which is now out.
Includes(out, q, e, g) ==
    /\ e <= q.max
    /\ out # <<>> => /\ Last(out).max = e \/ Last(out).max = g
                     /\ \A x \in Nat : q.min <= x /\ (q.max <= x \/ g <= x)
                                           => Last(out).min <= x

\* mergeOrAppendSlice: a slice that starts no earlier than the last one joins a
\* list in order, and the list stays in order and loses nothing.
LEMMA mergeOrAppendSliceFacts ==
    ASSUME NEW done, NEW bound \in Nat,
           NEW out \in Lists(Full(done, bound)), NEW q \in Slices(done, bound),
           NEW f \in Nat, NEW g \in Nat, Follows(out, q, f, g)
    PROVE LET new == mergeOrAppendSlice(out, q)
          IN /\ new \in Lists(Full(done, bound))
             /\ Held(Range(out)) \cup Held({q}) \subseteq Held(Range(new))
             /\ \E e \in Nat : Includes(new, q, e, g)
\* mergeByRange: merging two slices that overlap or touch, in the order of their
\* minimum, gives a list in order that covers what they did.  Its last slice
\* starts no later than what may come next from either list.
<1>MergeInOrderFacts.
      ASSUME NEW s \in Full(done, bound), NEW q2 \in Full(done, bound),
             s.min <= q2.min, q2.min <= s.max
      PROVE LET m == MergeInOrder(s, q2)
                last == m[Len(m)]
            IN /\ m \in Lists(Full(done, bound)) /\ m # <<>>
               /\ \A x \in Range(m) : s.min <= x.min
               /\ s.max <= last.max /\ q2.max <= last.max
               /\ last.max = s.max \/ last.max = q2.max
               /\ last.min <= q2.min \/ (last.min <= s.max /\ last.min <= q2.max)
               /\ Held({s, q2}) \subseteq Held(Range(m))
  <2> USE <1>MergeInOrderFacts
  \* mergeByPredicate: two slices of the same range become one with the groups of
  \* both.
  <2>MergeByPredicateFacts.
        ASSUME NEW s1 \in Slices(done, bound), NEW q1 \in Slices(done, bound),
               s1.min = q1.min, s1.max = q1.max
        PROVE LET t == mergeByPredicate(s1, q1)
              IN /\ t \in Slices(done, bound)
                 /\ t.min = s1.min /\ t.max = s1.max
                 /\ s1.groups # {} => t.groups # {}
                 /\ \A k \in Keys : Covers(s1, k) \/ Covers(q1, k) => Covers(t, k)
    <3> USE <2>MergeByPredicateFacts
    <3> DEFINE c == [Scope(s1) EXCEPT !.groups = @ \cup q1.groups]
               t == MergedInto(c, s1, q1)
    <3>1. /\ s1.min \in Nat /\ s1.max \in Nat /\ 1 <= s1.min /\ s1.max <= bound
          /\ s1.groups \in SUBSET Universal
      BY SliceElim
    <3>2. c.min = s1.min /\ c.max = s1.max /\ c.groups = s1.groups \cup q1.groups
      BY DEF Scope
    <3> HIDE DEF c
    <3>3. /\ c.min \in Nat /\ c.max \in Nat /\ 1 <= c.min /\ c.max <= bound
          /\ c.min <= s1.min /\ c.min <= q1.min /\ s1.max <= c.max /\ q1.max <= c.max
      BY <3>1, <3>2, SMT
    <3>4. /\ t \in Slices(done, bound)
          /\ t.min = c.min /\ t.max = c.max
          /\ c.groups # {} => t.groups # {}
          /\ \A k \in Keys : Covers(s1, k) \/ Covers(q1, k) => Covers(t, k)
      <4>1. c.groups = s1.groups \cup q1.groups
        BY <3>2
      <4> QED BY <3>3, <4>1, MergedIntoFacts, SMT
    <3>5. s1.groups # {} => c.groups # {}
      BY <3>2
    <3> HIDE DEF t
    <3> QED BY <3>2, <3>4, <3>5 DEF c, t, mergeByPredicate
  <2> DEFINE T == Slices(done, bound)
             F == Full(done, bound)
             m == MergeInOrder(s, q2)
             cur == SplitByRange(s, q2.min)
             rest == cur[2]
  <2>1. /\ s \in T /\ s.min \in Nat /\ s.max \in Nat /\ s.min < s.max
        /\ s.groups # {}
        /\ q2 \in T /\ q2.min \in Nat /\ q2.max \in Nat /\ q2.min < q2.max
        /\ q2.groups # {}
    <3>1. /\ s \in T /\ s.min # s.max /\ s.groups # {}
          /\ q2 \in T /\ q2.min # q2.max /\ q2.groups # {}
      BY DEF Full, IsEmpty
    <3>2. /\ s.min \in Nat /\ s.max \in Nat /\ s.min <= s.max
          /\ q2.min \in Nat /\ q2.max \in Nat /\ q2.min <= q2.max
      BY <3>1, SliceElim
    <3> QED BY <3>1, <3>2, SMT
  <2>2. CASE s.groups = q2.groups
    <3> DEFINE t == CompactWithSlice(s, q2)
    <3>1. m = <<t>>
      BY <2>2 DEF MergeInOrder, CompactWithSlice
    <3>2. /\ t \in T /\ (~IsEmpty(s) => ~IsEmpty(t))
          /\ t.min = s.min \/ t.min = q2.min
          /\ t.max = s.max \/ t.max = q2.max
          /\ t.min <= s.min /\ t.min <= q2.min /\ s.max <= t.max /\ q2.max <= t.max
          /\ \A k \in Keys : Covers(s, k) \/ Covers(q2, k) => Covers(t, k)
      BY <2>1, CompactFacts
    <3> HIDE DEF t, m
    <3>3. t \in F
      BY <3>2 DEF Full
    <3>4. Len(m) = 1 /\ m[Len(m)] = t /\ m # <<>>
      BY <3>1
    <3>5. m \in Lists(F) /\ Range(m) = {t}
      BY <3>1, <3>3, SmallLists
    <3>6. s.min <= t.min
      BY <2>1, <3>2
    <3>7. Held({s, q2}) \subseteq Held(Range(m))
      BY <3>2, <3>5 DEF Held
    <3> QED BY <3>2, <3>4, <3>5, <3>6, <3>7 DEF m
  <2>3. ASSUME NEW x \in T, NEW y \in T, NEW z \in T,
               m = NonEmpty(<<x, y, z>>), s.groups # q2.groups,
               x.min = s.min, x.max = q2.min, y.min = q2.min, y.max = z.min,
               z.min <= s.max, z.min <= q2.max, q2.min <= z.min,
               s.max <= z.max, q2.max <= z.max, z.max = s.max \/ z.max = q2.max,
               z.min = s.max \/ z.min = q2.max,
               y.groups # {}, z.groups # {},
               \A k \in Keys : Covers(s, k) \/ Covers(q2, k) =>
                                  Covers(x, k) \/ Covers(y, k) \/ Covers(z, k)
        PROVE /\ m \in Lists(Full(done, bound)) /\ m # <<>>
              /\ \A w \in Range(m) : s.min <= w.min
              /\ s.max <= m[Len(m)].max /\ q2.max <= m[Len(m)].max
              /\ m[Len(m)].max = s.max \/ m[Len(m)].max = q2.max
              /\ m[Len(m)].min <= q2.min
                    \/ (m[Len(m)].min <= s.max /\ m[Len(m)].min <= q2.max)
              /\ Held({s, q2}) \subseteq Held(Range(m))
    <3> HIDE DEF m
    <3>1. /\ x.min \in Nat /\ x.max \in Nat /\ y.min \in Nat /\ y.max \in Nat
          /\ z.min \in Nat /\ z.max \in Nat
      BY SliceElim
    <3>2. z.min = z.max => y.min # y.max
      BY <2>1, <2>3, <3>1, SMT
    <3>3. ~IsEmpty(z) \/ (~IsEmpty(y) /\ z.min = z.max)
      BY <2>3, <3>2 DEF IsEmpty
    <3>4. /\ m \in Lists(Full(done, bound)) /\ m # <<>>
          /\ \A w \in Range(m) : w \in {x, y, z}
          /\ m[Len(m)].max = z.max
          /\ Held(Range(m)) = Held({x, y, z})
      BY <2>3, <3>3, ThreeParts, SMT
    <3>5. m[Len(m)] \in {x, y, z}
      <4> DEFINE G == Full(done, bound)
      <4>1. G \in SUBSET T /\ m \in Lists(G)
        BY <3>4 DEF Full
      <4> HIDE DEF G
      <4>2. m[Len(m)] \in Range(m)
        BY <3>4, <4>1, FirstAndLast
      <4> QED BY <3>4, <4>2
    <3>6. \A w \in {x, y, z} : s.min <= w.min
      BY <2>1, <2>3, <3>1, SMT
    <3>7. \A w \in {x, y, z} : w.min <= q2.min \/ (w.min <= s.max /\ w.min <= q2.max)
      BY <2>1, <2>3, <3>1, SMT
    <3>8. Held({s, q2}) \subseteq Held({x, y, z})
      BY <2>3 DEF Held
    <3> QED BY <2>3, <3>4, <3>5, <3>6, <3>7, <3>8
  <2>4. /\ cur[1] \in T /\ rest \in T
        /\ cur[1].min = s.min /\ cur[1].max = q2.min
        /\ rest.min = q2.min /\ rest.max = s.max /\ rest.groups = s.groups
        /\ \A k \in Keys : Covers(s, k) => Covers(cur[1], k) \/ Covers(rest, k)
    BY <2>1, SplitByRangeFacts, SMT
  <2>5. CASE s.groups # q2.groups /\ CanSplit(q2, rest.max)
    <3> DEFINE inc == SplitByRange(q2, rest.max)
               y == mergeByPredicate(rest, inc[1])
               z == inc[2]
    <3>1. m = NonEmpty(<<cur[1], y, z>>)
      BY <2>5 DEF MergeInOrder
    <3>2. q2.min <= s.max /\ s.max <= q2.max
      BY <2>1, <2>4, <2>5, SMT DEF CanSplit, ContainsKey
    <3>3. /\ inc[1] \in T /\ z \in T
          /\ inc[1].min = q2.min /\ inc[1].max = s.max
          /\ z.min = s.max /\ z.max = q2.max /\ z.groups = q2.groups
          /\ \A k \in Keys : Covers(q2, k) => Covers(inc[1], k) \/ Covers(z, k)
      BY <2>1, <2>4, <3>2, SplitByRangeFacts, SMT
    <3> HIDE DEF cur, inc, z, m
    <3>4. /\ y \in T /\ y.min = q2.min /\ y.max = s.max /\ y.groups # {}
          /\ \A k \in Keys : Covers(rest, k) \/ Covers(inc[1], k) => Covers(y, k)
      <4>1. rest.min = inc[1].min /\ rest.max = inc[1].max /\ rest.groups # {}
        BY <2>1, <2>4, <3>3
      <4> HIDE DEF rest
      <4> QED BY <2>1, <2>4, <3>3, <4>1, <2>MergeByPredicateFacts, SMT
    <3> HIDE DEF rest, y
    <3>5. /\ z.groups # {} /\ z.min <= s.max /\ z.min <= q2.max /\ q2.min <= z.min
          /\ s.max <= z.max /\ q2.max <= z.max /\ y.max = z.min
      BY <2>1, <3>2, <3>3, <3>4, SMT
    <3>6. \A k \in Keys : Covers(s, k) \/ Covers(q2, k) =>
                            Covers(cur[1], k) \/ Covers(y, k) \/ Covers(z, k)
      BY <2>4, <3>3, <3>4
    <3> DEFINE x == cur[1]
    <3>7. x \in T /\ x.min = s.min /\ x.max = q2.min /\ m = NonEmpty(<<x, y, z>>)
      BY <2>4, <3>1
    <3> HIDE DEF x
    <3> QED BY <2>3, <2>5, <3>3, <3>4, <3>5, <3>6, <3>7 DEF m, x
  <2>6. CASE s.groups # q2.groups /\ ~CanSplit(q2, rest.max)
    <3> DEFINE mid == SplitByRange(rest, q2.max)
               y == mergeByPredicate(mid[1], q2)
               z == mid[2]
    <3>1. m = NonEmpty(<<cur[1], y, z>>)
      BY <2>6 DEF MergeInOrder
    <3>2. q2.min <= q2.max /\ q2.max <= s.max
      BY <2>1, <2>4, <2>6, SMT DEF CanSplit, ContainsKey
    <3>3. /\ mid[1] \in T /\ z \in T
          /\ mid[1].min = q2.min /\ mid[1].max = q2.max /\ mid[1].groups = s.groups
          /\ z.min = q2.max /\ z.max = s.max /\ z.groups = s.groups
          /\ \A k \in Keys : Covers(rest, k) => Covers(mid[1], k) \/ Covers(z, k)
      <4> HIDE DEF rest
      <4> QED BY <2>1, <2>4, <3>2, SplitByRangeFacts, SMT
    <3> HIDE DEF cur, mid, z, m, rest
    <3>4. /\ y \in T /\ y.min = q2.min /\ y.max = q2.max /\ y.groups # {}
          /\ \A k \in Keys : Covers(mid[1], k) \/ Covers(q2, k) => Covers(y, k)
      <4>1. mid[1].min = q2.min /\ mid[1].max = q2.max /\ mid[1].groups # {}
        BY <2>1, <3>3
      <4> QED BY <2>1, <3>3, <4>1, <2>MergeByPredicateFacts, SMT
    <3> HIDE DEF y
    <3>5. /\ z.groups # {} /\ z.min <= s.max /\ z.min <= q2.max /\ q2.min <= z.min
          /\ s.max <= z.max /\ q2.max <= z.max /\ y.max = z.min
      BY <2>1, <3>2, <3>3, <3>4, SMT
    <3>6. \A k \in Keys : Covers(s, k) \/ Covers(q2, k) =>
                            Covers(cur[1], k) \/ Covers(y, k) \/ Covers(z, k)
      BY <2>4, <3>3, <3>4
    <3> DEFINE x == cur[1]
    <3>7. x \in T /\ x.min = s.min /\ x.max = q2.min /\ m = NonEmpty(<<x, y, z>>)
      BY <2>4, <3>1
    <3> HIDE DEF x
    <3> QED BY <2>3, <2>6, <3>3, <3>4, <3>5, <3>6, <3>7 DEF m, x
  <2> QED BY <2>2, <2>5, <2>6
<1> DEFINE T == Slices(done, bound)
           F == Full(done, bound)
           new == mergeOrAppendSlice(out, q)
           s == Last(out)
<1>1. /\ q.min \in Nat /\ q.max \in Nat /\ q.min <= q.max /\ f <= q.min
      /\ out # <<>> => (s.max = f \/ s.max = g) /\ s.min <= q.min
  BY SliceElim DEF Follows
<1>2. ASSUME out # <<>>
      PROVE /\ s \in F /\ s \in T /\ s.min \in Nat /\ s.max \in Nat
            /\ s.min <= s.max
            /\ Front(out) \in Lists(F) /\ Range(out) = Range(Front(out)) \cup {s}
            /\ Before(Range(Front(out)), {s})
  <2>1. /\ s \in F
        /\ Front(out) \in Lists(F) /\ Range(out) = Range(Front(out)) \cup {s}
        /\ Before(Range(Front(out)), {s})
    <3> HIDE DEF F
    <3>1. out \in Lists(F)
      BY DEF F
    <3> QED BY <1>2, <3>1, FrontAndLast
  <2>2. s \in T
    BY <2>1 DEF Full
  <2>3. s.min \in Nat /\ s.max \in Nat /\ s.min <= s.max
    BY <2>2, SliceElim
  <2> QED BY <2>1, <2>2, <2>3
<1>3. CASE IsEmpty(q)
  <2>1. new = out
    BY <1>3 DEF mergeOrAppendSlice
  <2>2. Held({q}) = {}
    BY <1>3, EmptyCoversNothing DEF Held
  <2>3. f <= q.max
    BY <1>1, SMT
  <2>4. out # <<>> => \A x \in Nat : q.min <= x => s.min <= x
    BY <1>1, <1>2, SMT
  <2>5. Held(Range(out)) \cup Held({q}) \subseteq Held(Range(out))
    BY <2>2
  <2> HIDE DEF new
  <2>6. Includes(new, q, f, g)
    BY <1>1, <2>1, <2>3, <2>4 DEF Includes
  <2> QED BY <2>1, <2>5, <2>6 DEF new
<1>4. CASE ~IsEmpty(q) /\ (out = <<>> \/ ~CanMerge(Last(out), q))
  <2>1. new = Append(out, q)
    BY <1>4 DEF mergeOrAppendSlice
  <2>2. q \in F
    BY <1>4 DEF Full
  <2>3. Before(Range(out), {q})
    <3>1. CASE out = <<>>
      BY <3>1, SmallLists DEF Before
    <3>2. CASE out # <<>>
      <4>1. s.max <= q.min
        BY <1>1, <1>2, <1>4, <3>2, SMT DEF CanMerge
      <4>2. \A x \in Range(out) : x.max \in Nat /\ (x = s \/ x.max <= s.min)
        <5>1. \A x \in Range(out) : x = s \/ x.max <= s.min
          <6>1. Range(out) = Range(Front(out)) \cup {s}
                /\ Before(Range(Front(out)), {s})
            BY <1>2, <3>2
          <6> HIDE DEF s
          <6>2. \A x \in Range(Front(out)) : x.max <= s.min
            BY <6>1 DEF Before
          <6> QED BY <6>1, <6>2
        <5>2. \A x \in Range(out) : x \in T
          <6>1. out \in Seq(F)
            BY DEF Lists
          <6> DEFINE G == F
          <6> HIDE DEF G
          <6>2. out \in Seq(G)
            BY <6>1 DEF G
          <6>3. \A i \in DOMAIN out : out[i] \in G
            BY <6>2, SMT
          <6>4. G \subseteq T
            BY DEF G, Full
          <6> QED BY <6>3, <6>4 DEF Range
        <5> QED BY <5>1, <5>2, SliceElim
      <4>3. \A x \in Range(out) : x.max <= q.min
        BY <1>1, <1>2, <3>2, <4>1, <4>2, SMT
      <4> QED BY <4>3 DEF Before
    <3> QED BY <3>1, <3>2
  <2> HIDE DEF new, F
  <2>4. /\ new \in Lists(F) /\ Range(new) = Range(out) \cup {q}
        /\ new # <<>> /\ new[Len(new)] = q
    <3>1. out \in Lists(F)
      BY DEF F
    <3>2. /\ Append(out, q) \in Lists(F)
          /\ Range(Append(out, q)) = Range(out) \cup {q}
          /\ Append(out, q) # <<>> /\ Append(out, q)[Len(Append(out, q))] = q
      BY <2>2, <2>3, <3>1, AppendInOrder
    <3> QED BY <2>1, <3>2
  <2>5. Last(new) = q
    BY <2>4 DEF Last
  <2>6. Held(Range(out)) \cup Held({q}) \subseteq Held(Range(new))
    BY <2>4, HeldFacts
  <2>7. q.max <= q.max
    BY <1>1, SMT
  <2>8. Includes(new, q, q.max, g)
    BY <2>5, <2>7 DEF Includes
  <2> QED BY <1>1, <2>4, <2>6, <2>8 DEF new, F
<1>5. CASE ~IsEmpty(q) /\ out # <<>> /\ CanMerge(Last(out), q)
  <2> DEFINE m == MergeWithSlice(s, q)
             fr == Front(out)
             last == m[Len(m)]
  <2>1. new = fr \o m
    BY <1>5 DEF mergeOrAppendSlice
  <2>2. /\ s \in F /\ s \in T /\ s.min \in Nat /\ s.max \in Nat
        /\ s.min <= s.max
        /\ fr \in Lists(F) /\ Range(out) = Range(fr) \cup {s}
        /\ Before(Range(fr), {s})
    BY <1>2, <1>5
  <2>3. s.min <= q.min /\ q.min <= s.max /\ ~(s.min > q.min)
    BY <1>1, <1>5, <2>2, SMT DEF CanMerge
  <2>4. m = MergeInOrder(s, q)
    BY <2>3 DEF MergeWithSlice
  <2>5. q \in F
    BY <1>5 DEF Full
  <2> HIDE DEF s, m
  <2>6. /\ m \in Lists(Full(done, bound)) /\ m # <<>>
        /\ \A x \in Range(m) : s.min <= x.min
        /\ s.max <= last.max /\ q.max <= last.max
        /\ last.max = s.max \/ last.max = q.max
        /\ last.min <= q.min \/ (last.min <= s.max /\ last.min <= q.max)
        /\ Held({s, q}) \subseteq Held(Range(m))
    <3> DEFINE w == MergeInOrder(s, q)
    <3>1. s \in Full(done, bound) /\ q \in Full(done, bound)
      BY <2>2, <2>5
    <3>2. /\ w \in Lists(Full(done, bound)) /\ w # <<>>
          /\ \A x \in Range(w) : s.min <= x.min
          /\ s.max <= w[Len(w)].max /\ q.max <= w[Len(w)].max
          /\ w[Len(w)].max = s.max \/ w[Len(w)].max = q.max
          /\ w[Len(w)].min <= q.min
                \/ (w[Len(w)].min <= s.max /\ w[Len(w)].min <= q.max)
          /\ Held({s, q}) \subseteq Held(Range(w))
      BY <2>3, <3>1, <1>MergeInOrderFacts
    <3> HIDE DEF w
    <3>3. m = w
      BY <2>4 DEF w
    <3> QED BY <3>2, <3>3
  <2>7. last \in T /\ last.min \in Nat /\ last.max \in Nat
        /\ \A x \in Range(m) : x \in T
    <3> DEFINE G == Full(done, bound)
    <3>1. G \in SUBSET T /\ m \in Lists(G)
      BY <2>6 DEF Full
    <3> HIDE DEF G
    <3>2. last \in Range(m) /\ \A x \in Range(m) : x \in G
      BY <2>6, <3>1, FirstAndLast
    <3>3. last \in T
      BY <3>1, <3>2
    <3> QED BY <3>1, <3>2, <3>3, SliceElim
  <2>8. Before(Range(fr), Range(m))
    <3>1. \A x \in Range(fr) : x.max <= s.min
      BY <2>2 DEF Before
    <3>2. \A x \in Range(fr) : x.max \in Nat
      <4> DEFINE G == F
      <4>1. fr \in Seq(G) /\ G \subseteq T
        BY <2>2 DEF Lists, Full
      <4> HIDE DEF G, fr
      <4>2. \A i \in DOMAIN fr : fr[i] \in G
        BY <4>1, SMT
      <4>3. \A x \in Range(fr) : x \in T
        BY <4>1, <4>2 DEF Range
      <4> QED BY <4>3, SliceElim
    <3>3. \A x \in Range(m) : x.min \in Nat
      BY <2>7, SliceElim
    <3>4. \A x \in Range(fr), y \in Range(m) : x.max <= y.min
      <4> HIDE DEF fr
      <4> QED BY <2>2, <2>6, <3>1, <3>2, <3>3, SMT
    <3> QED BY <3>4 DEF Before
  <2> DEFINE H == Full(done, bound)
  <2>9. fr \in Lists(H) /\ m \in Lists(H) /\ fr \in Seq(H) /\ m \in Seq(H)
    BY <2>2, <2>6 DEF Lists
  <2> HIDE DEF H, fr, new
  <2>10. new \in Lists(H) /\ Range(new) = Range(fr) \cup Range(m)
    <3>1. fr \o m \in Lists(H)
      BY <2>8, <2>9, ConcatInOrder
    <3>2. Range(fr \o m) = Range(fr) \cup Range(m)
      BY <2>9, RangeOfConcat
    <3> QED BY <2>1, <3>1, <3>2
  <2>11. Last(new) = last
    BY <2>1, <2>6, <2>9, SMT DEF Last
  <2>12. Held(Range(out)) \cup Held({q}) \subseteq Held(Range(new))
    <3>1. Held(Range(out)) = Held(Range(fr)) \cup Held({s})
      BY <2>2, HeldFacts
    <3>2. Held(Range(new)) = Held(Range(fr)) \cup Held(Range(m))
      BY <2>10, HeldFacts
    <3>3. Held({s}) \cup Held({q}) \subseteq Held({s, q})
      BY DEF Held
    <3> QED BY <2>6, <3>1, <3>2, <3>3
  <2>13. s.max = f \/ s.max = g
    BY <1>1, <1>5
  <2>14. last.max = q.max \/ last.max = g
    BY <1>1, <2>2, <2>6, <2>7, <2>13, SMT
  <2>15. ASSUME NEW x \in Nat, q.min <= x, q.max <= x \/ g <= x
         PROVE last.min <= x
    <3> HIDE DEF last
    <3> QED BY <1>1, <2>2, <2>6, <2>7, <2>13, <2>15, SMT
  <2>16. q.max <= q.max
    BY <1>1, SMT
  <2> HIDE DEF last
  <2>17. Includes(new, q, q.max, g)
    BY <2>11, <2>14, <2>15, <2>16 DEF Includes
  <2> QED BY <1>1, <2>10, <2>12, <2>17 DEF new, H
<1> QED BY <1>3, <1>4, <1>5

\* Of list l, the slices after the first n: they start at f or later, and not
\* before the last slice of the merged list out.
Ahead(l, n, f, out) ==
    \A i \in DOMAIN l : n < i => /\ f <= l[i].min
                                 /\ out # <<>> => Last(out).min <= l[i].min

\* The merged list covers what the first n slices of l do.
TakenIn(l, n, out) ==
    \A i \in DOMAIN l : i <= n => Held({l[i]}) \subseteq Held(Range(out))

\* What MergeSlices has after n turns.
Merging(a, b, n, done, bound) ==
    {m \in [taken : Nat, list : Lists(Full(done, bound))] :
        /\ m.taken <= Len(a) /\ m.taken <= n /\ n - m.taken <= Len(b)
        /\ TakenIn(a, m.taken, m.list) /\ TakenIn(b, n - m.taken, m.list)
        /\ \E f, g \in Nat :
              /\ Ahead(a, m.taken, f, m.list) /\ Ahead(b, n - m.taken, g, m.list)
              /\ m.list # <<>> => Last(m.list).max = f \/ Last(m.list).max = g}

\* The slices of a list, and their order.
LEMMA ListElements ==
    ASSUME NEW done, NEW bound, NEW T \in SUBSET Slices(done, bound),
           NEW l \in Lists(T)
    PROVE /\ Len(l) \in Nat /\ DOMAIN l = 1 .. Len(l)
          /\ \A i \in DOMAIN l : /\ l[i] \in T /\ l[i] \in Slices(done, bound)
                                 /\ l[i].min \in Nat /\ l[i].max \in Nat
                                 /\ l[i].min <= l[i].max
          /\ \A i, j \in DOMAIN l : i < j => l[i].max <= l[j].min
          /\ Range(l) \subseteq T
<1>1. l \in Seq(T) /\ \A i, j \in DOMAIN l : i < j => l[i].max <= l[j].min
  BY DEF Lists
<1>2. Len(l) \in Nat /\ DOMAIN l = 1 .. Len(l) /\ \A i \in DOMAIN l : l[i] \in T
  BY <1>1, SMT
<1>3. \A i \in DOMAIN l : /\ l[i] \in Slices(done, bound)
                          /\ l[i].min \in Nat /\ l[i].max \in Nat
                          /\ l[i].min <= l[i].max
  BY <1>2, SliceElim
<1>4. Range(l) \subseteq T
  BY <1>2 DEF Range
<1> QED BY <1>1, <1>2, <1>3, <1>4

\* MergeSlices of two lists in order: a list in order without empty slices that
\* covers what the two did.  (The panic in the code, that the last slice starts
\* later than the next, is out of reach.)
LEMMA MergeSlicesFacts ==
    ASSUME NEW done, NEW bound \in Nat,
           NEW a \in Lists(Slices(done, bound)), NEW b \in Lists(Slices(done, bound))
    PROVE /\ MergeSlices(a, b) \in Lists(Full(done, bound))
          /\ Held(Range(a)) \cup Held(Range(b)) \subseteq Held(Range(MergeSlices(a, b)))
\* A turn of MergeSlices, from whichever list has the lower minimum.
<1>MergeTurnFacts.
      ASSUME NEW a2 \in Lists(Slices(done, bound)),
             NEW b2 \in Lists(Slices(done, bound)),
             NEW n \in 1 .. (Len(a2) + Len(b2)),
             NEW m \in Merging(a2, b2, n - 1, done, bound)
      PROVE MergeTurn(a2, b2, n - 1, m) \in Merging(a2, b2, n, done, bound)
  <2> USE <1>MergeTurnFacts
  \* A turn of MergeSlices that takes the next slice of list a2, because it starts
  \* no later than what is left of b2.
  <2>MergeOneMore.
        ASSUME NEW a1 \in Lists(Slices(done, bound)),
               NEW b1 \in Lists(Slices(done, bound)),
               NEW out \in Lists(Full(done, bound)), NEW i \in Nat,
               NEW j \in Nat, i + 1 \in DOMAIN a1,
               \A n1 \in DOMAIN b1 : j < n1 => a1[i + 1].min <= b1[n1].min,
               TakenIn(a1, i, out), TakenIn(b1, j, out), NEW f \in Nat,
               NEW g \in Nat, Ahead(a1, i, f, out), Ahead(b1, j, g, out),
               out # <<>> => Last(out).max = f \/ Last(out).max = g
        PROVE LET new == mergeOrAppendSlice(out, a1[i + 1])
              IN /\ new \in Lists(Full(done, bound))
                 /\ TakenIn(a1, i + 1, new) /\ TakenIn(b1, j, new)
                 /\ \E e \in Nat :
                      /\ Ahead(a1, i + 1, e, new) /\ Ahead(b1, j, g, new)
                      /\ new # <<>> => Last(new).max = e \/ Last(new).max = g
    <3> USE <2>MergeOneMore
    <3> DEFINE T == Slices(done, bound)
               q == a1[i + 1]
               new == mergeOrAppendSlice(out, q)
    <3>1. /\ DOMAIN a1 = 1 .. Len(a1)
          /\ \A n1 \in DOMAIN a1 : /\ a1[n1] \in T /\ a1[n1].min \in Nat /\ a1[n1].max \in Nat
                                 /\ a1[n1].min <= a1[n1].max
          /\ \A m1, n1 \in DOMAIN a1 : m1 < n1 => a1[m1].max <= a1[n1].min
      <4> HIDE DEF T
      <4>1. T \in SUBSET Slices(done, bound) /\ a1 \in Lists(T)
        BY DEF T
      <4> QED BY <4>1, ListElements
    <3>2. \A n1 \in DOMAIN b1 : b1[n1].min \in Nat
      <4> HIDE DEF T
      <4>1. T \in SUBSET Slices(done, bound) /\ b1 \in Lists(T)
        BY DEF T
      <4> QED BY <4>1, ListElements
    <3>3. i < i + 1
      BY SMT
    <3>4. /\ q \in T /\ q.min \in Nat /\ q.max \in Nat /\ q.min <= q.max /\ f <= q.min
          /\ out # <<>> => Last(out).min <= q.min
      BY <3>1, <3>3 DEF Ahead
    <3> HIDE DEF q, new
    <3>5. PICK e \in Nat :
            /\ new \in Lists(Full(done, bound))
            /\ Held(Range(out)) \cup Held({q}) \subseteq Held(Range(new))
            /\ e <= q.max
            /\ new # <<>> =>
                 /\ Last(new).max = e \/ Last(new).max = g
                 /\ \A x \in Nat : q.min <= x /\ (q.max <= x \/ g <= x)
                                       => Last(new).min <= x
      <4>1. Follows(out, q, f, g)
        BY <3>4 DEF Follows
      <4>2. /\ new \in Lists(Full(done, bound))
            /\ Held(Range(out)) \cup Held({q}) \subseteq Held(Range(new))
            /\ \E e \in Nat : Includes(new, q, e, g)
        BY <3>4, <4>1, mergeOrAppendSliceFacts DEF new
      <4> QED BY <4>2 DEF Includes
    <3>6. TakenIn(a1, i + 1, new)
      <4>1. \A n1 \in DOMAIN a1 : n1 <= i + 1 => n1 <= i \/ n1 = i + 1
        BY <3>1, SMT
      <4>2. ASSUME NEW n1 \in DOMAIN a1, n1 <= i + 1
            PROVE Held({a1[n1]}) \subseteq Held(Range(new))
        <5>1. CASE n1 <= i
          BY <3>5, <5>1 DEF TakenIn
        <5>2. CASE n1 = i + 1
          BY <3>5, <5>2 DEF q
        <5> QED BY <4>1, <4>2, <5>1, <5>2
      <4> QED BY <4>2 DEF TakenIn
    <3>7. TakenIn(b1, j, new)
      BY <3>5 DEF TakenIn
    <3>8. Ahead(a1, i + 1, e, new)
      <4> SUFFICES ASSUME NEW n1 \in DOMAIN a1, i + 1 < n1
                   PROVE /\ e <= a1[n1].min
                         /\ new # <<>> => Last(new).min <= a1[n1].min
        BY DEF Ahead
      <4>1. q.max <= a1[n1].min /\ a1[n1].min \in Nat
        BY <3>1 DEF q
      <4>2. e <= a1[n1].min /\ q.min <= a1[n1].min
        BY <3>4, <3>5, <4>1, SMT
      <4> QED BY <3>5, <4>1, <4>2
    <3>9. Ahead(b1, j, g, new)
      <4> SUFFICES ASSUME NEW n1 \in DOMAIN b1, j < n1
                   PROVE /\ g <= b1[n1].min
                         /\ new # <<>> => Last(new).min <= b1[n1].min
        BY DEF Ahead
      <4>1. g <= b1[n1].min /\ q.min <= b1[n1].min /\ b1[n1].min \in Nat
        BY <3>2 DEF Ahead, q
      <4> QED BY <3>5, <4>1
    <3> QED BY <3>5, <3>6, <3>7, <3>8, <3>9 DEF new, q
  <2> DEFINE T == Slices(done, bound)
             F == Full(done, bound)
             t == MergeTurn(a2, b2, n - 1, m)
             i == m.taken
             j == (n - 1) - m.taken
             out == m.list
  <2>1. /\ m.taken \in Nat /\ m.list \in Lists(F)
        /\ m.taken <= Len(a2) /\ m.taken <= n - 1 /\ (n - 1) - m.taken <= Len(b2)
        /\ TakenIn(a2, i, out) /\ TakenIn(b2, j, out)
        /\ \E f, g \in Nat :
                /\ Ahead(a2, i, f, out) /\ Ahead(b2, j, g, out)
                /\ out # <<>> => Last(out).max = f \/ Last(out).max = g
    BY DEF Merging
  <2>2. /\ Len(a2) \in Nat /\ DOMAIN a2 = 1 .. Len(a2)
        /\ \A x \in DOMAIN a2 : a2[x].min \in Nat /\ a2[x].max \in Nat
                               /\ a2[x].min <= a2[x].max
        /\ \A x, y \in DOMAIN a2 : x < y => a2[x].max <= a2[y].min
    <3> HIDE DEF T
    <3>1. T \in SUBSET Slices(done, bound) /\ a2 \in Lists(T)
      BY DEF T
    <3> QED BY <3>1, ListElements
  <2>3. /\ Len(b2) \in Nat /\ DOMAIN b2 = 1 .. Len(b2)
        /\ \A x \in DOMAIN b2 : b2[x].min \in Nat /\ b2[x].max \in Nat
                               /\ b2[x].min <= b2[x].max
        /\ \A x, y \in DOMAIN b2 : x < y => b2[x].max <= b2[y].min
    <3> HIDE DEF T
    <3>1. T \in SUBSET Slices(done, bound) /\ b2 \in Lists(T)
      BY DEF T
    <3> QED BY <3>1, ListElements
  <2>4. i \in Nat /\ j \in Nat /\ i <= Len(a2) /\ j <= Len(b2) /\ n = i + j + 1
        /\ n - 1 - i + 1 = j + 1
    BY <2>1, <2>2, <2>3, SMT
  <2>len. /\ Len(a2) \in Nat /\ DOMAIN a2 = 1 .. Len(a2)
          /\ Len(b2) \in Nat /\ DOMAIN b2 = 1 .. Len(b2)
    BY <2>2, <2>3
  <2> DEFINE current == /\ i + 1 <= Len(a2)
                        /\ j + 1 <= Len(b2) => a2[i + 1].min < b2[j + 1].min
  <2>5. t = IF current
            THEN [taken |-> i + 1, list |-> mergeOrAppendSlice(out, a2[i + 1])]
            ELSE [taken |-> i, list |-> mergeOrAppendSlice(out, b2[j + 1])]
    BY DEF MergeTurn
  <2>6. PICK f, g \in Nat :
           /\ Ahead(a2, i, f, out) /\ Ahead(b2, j, g, out)
           /\ out # <<>> => Last(out).max = f \/ Last(out).max = g
    BY <2>1
  <2>o. out \in Lists(Full(done, bound))
    BY <2>1
  <2>tt. TakenIn(a2, i, out) /\ TakenIn(b2, j, out)
    BY <2>1
  <2> HIDE DEF i, j, out, t
  <2>7. CASE current
    <3>0. i + 1 <= Len(a2)
      BY <2>7
    <3>1. i + 1 \in DOMAIN a2
      BY <2>4, <2>len, <3>0, SMT
    <3>2. \A x \in DOMAIN b2 : j < x => a2[i + 1].min <= b2[x].min
      <4> SUFFICES ASSUME NEW x \in DOMAIN b2, j < x PROVE a2[i + 1].min <= b2[x].min
        OBVIOUS
      <4>1. j + 1 \in DOMAIN b2 /\ (x = j + 1 \/ j + 1 < x) /\ j + 1 <= Len(b2)
        BY <2>4, <2>len, SMT
      <4>2. a2[i + 1].min < b2[j + 1].min
        BY <2>7, <4>1
      <4>3. a2[i + 1].min \in Nat /\ b2[j + 1].min \in Nat /\ b2[j + 1].max \in Nat
            /\ b2[j + 1].min <= b2[j + 1].max /\ b2[x].min \in Nat
        BY <2>2, <2>3, <3>1, <4>1
      <4>4. x = j + 1 \/ b2[j + 1].max <= b2[x].min
        BY <2>3, <4>1
      <4>5. CASE x = j + 1
        <5>1. a2[i + 1].min <= b2[j + 1].min
          BY <4>2, <4>3, SMT
        <5> QED BY <4>5, <5>1
      <4>6. CASE b2[j + 1].max <= b2[x].min
        BY <4>2, <4>3, <4>6, SMT
      <4> QED BY <4>4, <4>5, <4>6
    <3> DEFINE new == mergeOrAppendSlice(out, a2[i + 1])
    <3>3. /\ new \in Lists(F)
          /\ TakenIn(a2, i + 1, new) /\ TakenIn(b2, j, new)
          /\ \E e \in Nat :
               /\ Ahead(a2, i + 1, e, new) /\ Ahead(b2, j, g, new)
               /\ new # <<>> => Last(new).max = e \/ Last(new).max = g
      BY <2>4, <2>6, <2>o, <2>tt, <3>1, <3>2, <2>MergeOneMore
    <3>4. t = [taken |-> i + 1, list |-> new]
      BY <2>5, <2>7
    <3> HIDE DEF new
    <3>5. t \in [taken : Nat, list : Lists(F)] /\ t.taken = i + 1 /\ t.list = new
      <4>1. i + 1 \in Nat
        BY <2>4, SMT
      <4> QED BY <3>3, <3>4, <4>1
    <3>6. i + 1 <= Len(a2) /\ i + 1 <= n /\ n - (i + 1) <= Len(b2) /\ n - (i + 1) = j
      BY <2>4, <2>len, <3>0, SMT
    <3>7. /\ t.taken <= Len(a2) /\ t.taken <= n /\ n - t.taken <= Len(b2)
          /\ n - t.taken = j
      BY <3>5, <3>6
    <3>8. \E e, h \in Nat :
            /\ Ahead(a2, t.taken, e, t.list) /\ Ahead(b2, n - t.taken, h, t.list)
            /\ t.list # <<>> => Last(t.list).max = e \/ Last(t.list).max = h
      BY <3>3, <3>5, <3>7
    <3>9. TakenIn(a2, t.taken, t.list) /\ TakenIn(b2, n - t.taken, t.list)
      BY <3>3, <3>5, <3>7
    <3> QED BY <3>5, <3>7, <3>8, <3>9 DEF Merging, t
  <2>8. CASE ~current
    <3>0. ~(i + 1 <= Len(a2)) \/ j + 1 <= Len(b2)
      BY <2>8
    <3>1. j + 1 \in DOMAIN b2
      BY <2>4, <2>len, <3>0, SMT
    <3>2. \A x \in DOMAIN a2 : i < x => b2[j + 1].min <= a2[x].min
      <4> SUFFICES ASSUME NEW x \in DOMAIN a2, i < x PROVE b2[j + 1].min <= a2[x].min
        OBVIOUS
      <4>1. i + 1 \in DOMAIN a2 /\ (x = i + 1 \/ i + 1 < x) /\ i + 1 <= Len(a2)
        BY <2>4, <2>len, SMT
      <4>2. ~(a2[i + 1].min < b2[j + 1].min)
        BY <2>8, <4>1
      <4>3. b2[j + 1].min \in Nat /\ a2[i + 1].min \in Nat /\ a2[i + 1].max \in Nat
            /\ a2[i + 1].min <= a2[i + 1].max /\ a2[x].min \in Nat
        BY <2>2, <2>3, <3>1, <4>1
      <4>4. x = i + 1 \/ a2[i + 1].max <= a2[x].min
        BY <2>2, <4>1
      <4>5. CASE x = i + 1
        <5>1. b2[j + 1].min <= a2[i + 1].min
          BY <4>2, <4>3, SMT
        <5> QED BY <4>5, <5>1
      <4>6. CASE a2[i + 1].max <= a2[x].min
        BY <4>2, <4>3, <4>6, SMT
      <4> QED BY <4>4, <4>5, <4>6
    <3> DEFINE new == mergeOrAppendSlice(out, b2[j + 1])
    <3>3. /\ new \in Lists(F)
          /\ TakenIn(b2, j + 1, new) /\ TakenIn(a2, i, new)
          /\ \E e \in Nat :
               /\ Ahead(b2, j + 1, e, new) /\ Ahead(a2, i, f, new)
               /\ new # <<>> => Last(new).max = e \/ Last(new).max = f
      BY <2>4, <2>6, <2>o, <2>tt, <3>1, <3>2, <2>MergeOneMore
    <3>4. t = [taken |-> i, list |-> new]
      BY <2>5, <2>8
    <3> HIDE DEF new
    <3>5. t \in [taken : Nat, list : Lists(F)] /\ t.taken = i /\ t.list = new
      BY <2>4, <3>3, <3>4
    <3>6. i <= Len(a2) /\ i <= n /\ n - i <= Len(b2) /\ n - i = j + 1
      BY <2>4, <2>len, <3>1, SMT
    <3>7. /\ t.taken <= Len(a2) /\ t.taken <= n /\ n - t.taken <= Len(b2)
          /\ n - t.taken = j + 1
      BY <3>5, <3>6
    <3>8. \E e, h \in Nat :
            /\ Ahead(a2, t.taken, e, t.list) /\ Ahead(b2, n - t.taken, h, t.list)
            /\ t.list # <<>> => Last(t.list).max = e \/ Last(t.list).max = h
      BY <3>3, <3>5, <3>7
    <3>9. TakenIn(a2, t.taken, t.list) /\ TakenIn(b2, n - t.taken, t.list)
      BY <3>3, <3>5, <3>7
    <3> QED BY <3>5, <3>7, <3>8, <3>9 DEF Merging, t
  <2> QED BY <2>7, <2>8
<1> DEFINE N == Len(a) + Len(b)
           J == [n \in 0 .. N |-> Merging(a, b, n, done, bound)]
           first == [taken |-> 0, list |-> <<>>]
           step == [n \in 1 .. N |-> [m \in Merging(a, b, n - 1, done, bound) |->
                                        MergeTurn(a, b, n - 1, m)]]
           IsMerged(f) == f = [n \in 0 .. N |->
                                 IF n = 0 THEN first
                                 ELSE MergeTurn(a, b, n - 1, f[n - 1])]
<1>1. Len(a) \in Nat /\ DOMAIN a = 1 .. Len(a) /\ Len(b) \in Nat
      /\ DOMAIN b = 1 .. Len(b)
  <2> DEFINE T == Slices(done, bound)
  <2>1. T \in SUBSET Slices(done, bound) /\ a \in Lists(T) /\ b \in Lists(T)
    OBVIOUS
  <2> HIDE DEF T
  <2> QED BY <2>1, ListElements
<1>2. N \in Nat
  BY <1>1, SMT
<1>3. first \in Merging(a, b, 0, done, bound)
  <2>1. /\ 0 \in Nat /\ 0 <= Len(a) /\ 0 <= 0 /\ 0 - 0 = 0 /\ 0 <= Len(b)
        /\ \A i \in DOMAIN a : ~(i <= 0)
        /\ \A i \in DOMAIN b : ~(i <= 0)
    BY <1>1, SMT
  <2>2. /\ \A i \in DOMAIN a : a[i].min \in Nat
        /\ \A i \in DOMAIN b : b[i].min \in Nat
    <3> DEFINE T == Slices(done, bound)
    <3>1. T \in SUBSET Slices(done, bound) /\ a \in Lists(T) /\ b \in Lists(T)
      OBVIOUS
    <3> HIDE DEF T
    <3> QED BY <3>1, ListElements
  <2>3. /\ \A i \in DOMAIN a : 0 <= a[i].min
        /\ \A i \in DOMAIN b : 0 <= b[i].min
    BY <2>2, SMT
  <2>4. first.taken = 0 /\ first.list = <<>>
        /\ first \in [taken : Nat, list : Lists(Full(done, bound))]
    BY <2>1, SmallLists
  <2> HIDE DEF first
  <2>5. /\ TakenIn(a, 0, <<>>) /\ TakenIn(b, 0, <<>>)
        /\ Ahead(a, 0, 0, <<>>) /\ Ahead(b, 0, 0, <<>>)
    BY <2>1, <2>3 DEF TakenIn, Ahead
  <2>6. /\ first.taken <= Len(a) /\ first.taken <= 0 /\ 0 - first.taken <= Len(b)
        /\ TakenIn(a, first.taken, first.list)
        /\ TakenIn(b, 0 - first.taken, first.list)
        /\ Ahead(a, first.taken, 0, first.list)
        /\ Ahead(b, 0 - first.taken, 0, first.list)
    BY <2>1, <2>4, <2>5
  <2> QED BY <2>1, <2>4, <2>6 DEF Merging
<1>4. \A n \in 1 .. N : \A m \in Merging(a, b, n - 1, done, bound) :
        MergeTurn(a, b, n - 1, m) \in Merging(a, b, n, done, bound)
  BY <1>MergeTurnFacts
<1>5. /\ \A n \in 1 .. N : n \in 0 .. N /\ n - 1 \in 0 .. N /\ n # 0
      /\ 0 \in 0 .. N /\ N \in 0 .. N
      /\ \A n \in 0 .. N : n # 0 => n \in 1 .. N
  BY <1>2, SMT
<1> HIDE DEF N, first
<1>6. /\ \A n \in 0 .. N : J[n] = Merging(a, b, n, done, bound)
      /\ \A n \in 1 .. N : \A m \in Merging(a, b, n - 1, done, bound) :
            step[n][m] = MergeTurn(a, b, n - 1, m)
  OBVIOUS
<1>7. /\ first \in J[0]
      /\ \A n \in 1 .. N : \A m \in J[n - 1] : step[n][m] \in J[n]
  BY <1>3, <1>4, <1>5, <1>6
<1> HIDE DEF J, step
<1>8. PICK f : IsLoop(f, N, first, step) /\ \A n \in 0 .. N : f[n] \in J[n]
  BY <1>2, <1>7, LoopRuns
<1>9. IsMerged(f)
  <2>1. /\ f = [n \in 0 .. N |-> f[n]] /\ f[0] = first
        /\ \A n \in 1 .. N : f[n] = step[n][f[n - 1]]
    BY <1>8 DEF IsLoop
  <2>2. \A n \in 1 .. N : f[n] = MergeTurn(a, b, n - 1, f[n - 1])
    BY <1>5, <1>6, <1>8, <2>1
  <2>3. \A n \in 0 .. N : f[n] = IF n = 0 THEN first
                                 ELSE MergeTurn(a, b, n - 1, f[n - 1])
    BY <1>5, <2>1, <2>2
  <2> QED BY <2>1, <2>3
<1> DEFINE h == CHOOSE x : IsMerged(x)
<1>10. IsMerged(h)
  <2> HIDE DEF IsMerged
  <2> QED BY <1>9
<1>11. MergeSlices(a, b) = h[N].list
  BY DEF MergeSlices, N, first
<1> HIDE DEF h
<1>12. /\ h[0] \in J[0]
       /\ \A n \in 1 .. N : h[n - 1] \in J[n - 1] => h[n] \in J[n]
  <2>1. \A n \in 0 .. N : h[n] = IF n = 0 THEN first
                                 ELSE MergeTurn(a, b, n - 1, h[n - 1])
    BY <1>10
  <2>2. h[0] \in J[0]
    BY <1>3, <1>5, <1>6, <2>1
  <2>3. ASSUME NEW n \in 1 .. N, h[n - 1] \in J[n - 1] PROVE h[n] \in J[n]
    <3>1. h[n - 1] \in Merging(a, b, n - 1, done, bound)
      BY <1>5, <1>6, <2>3
    <3>2. h[n] = MergeTurn(a, b, n - 1, h[n - 1])
      BY <1>5, <2>1
    <3> QED BY <1>4, <1>5, <1>6, <3>1, <3>2
  <2> QED BY <2>2, <2>3
<1>13. \A n \in 0 .. N : h[n] \in J[n]
  BY <1>2, <1>12, LoopInvariant
<1> DEFINE m == h[N]
<1>14. m \in Merging(a, b, N, done, bound)
  BY <1>5, <1>6, <1>13
<1> HIDE DEF m
<1>15. /\ m.taken \in Nat /\ m.list \in Lists(Full(done, bound))
       /\ m.taken <= Len(a) /\ N - m.taken <= Len(b)
       /\ TakenIn(a, m.taken, m.list) /\ TakenIn(b, N - m.taken, m.list)
  BY <1>14 DEF Merging
<1>16. /\ \A i \in DOMAIN a : i <= m.taken
       /\ \A i \in DOMAIN b : i <= N - m.taken
  BY <1>1, <1>15, SMT DEF N
<1>17. Held(Range(a)) \cup Held(Range(b)) \subseteq Held(Range(m.list))
  <2>1. /\ \A i \in DOMAIN a : Held({a[i]}) \subseteq Held(Range(m.list))
        /\ \A i \in DOMAIN b : Held({b[i]}) \subseteq Held(Range(m.list))
    BY <1>15, <1>16 DEF TakenIn
  <2>2. ASSUME NEW k \in Held(Range(a)) PROVE k \in Held(Range(m.list))
    <3>1. PICK i \in DOMAIN a : k \in Held({a[i]})
      BY DEF Held, Range
    <3> QED BY <2>1, <3>1
  <2>3. ASSUME NEW k \in Held(Range(b)) PROVE k \in Held(Range(m.list))
    <3>1. PICK i \in DOMAIN b : k \in Held({b[i]})
      BY DEF Held, Range
    <3> QED BY <2>1, <3>1
  <2> QED BY <2>2, <2>3
<1> QED BY <1>11, <1>15, <1>17 DEF m

-----------------------------------------------------------------------------
(* Readers *)

\* Readers of which the slices are in order, and next is one of them or nil.
ReaderSet(done, bound) ==
    {x \in [slices : Lists(Slices(done, bound)), next : Nat] :
        x.next <= Len(x.slices)}

\* The readers that a queue may have: ids below MaxReaderCount.
ReaderMaps(done, bound) ==
    UNION {[D -> ReaderSet(done, bound)] : D \in SUBSET ReaderIDs}

\* The tasks that a reader of the map covers.
HeldBy(rs) == {k \in Keys : \E r \in DOMAIN rs : k \in Held(Range(rs[r].slices))}

\* What is known of a reader.
LEMMA ReaderElim ==
    ASSUME NEW done, NEW bound, NEW x \in ReaderSet(done, bound)
    PROVE /\ x.slices \in Lists(Slices(done, bound))
          /\ x.next \in Nat /\ x.next <= Len(x.slices) /\ Len(x.slices) \in Nat
<1>1. /\ x.slices \in Lists(Slices(done, bound))
      /\ x.next \in Nat /\ x.next <= Len(x.slices)
  BY DEF ReaderSet
<1> DEFINE T == Slices(done, bound)
<1>2. T \in SUBSET Slices(done, bound) /\ x.slices \in Lists(T)
  BY <1>1
<1> HIDE DEF T
<1>3. Len(x.slices) \in Nat
  BY <1>2, ListElements
<1> QED BY <1>1, <1>3

\* What is known of the readers of a queue.
LEMMA ReaderMapElim ==
    ASSUME NEW done, NEW bound, NEW rs \in ReaderMaps(done, bound)
    PROVE /\ DOMAIN rs \subseteq ReaderIDs
          /\ rs = [r \in DOMAIN rs |-> rs[r]]
          /\ \A r \in DOMAIN rs : /\ rs[r] \in ReaderSet(done, bound)
                                  /\ rs[r].slices \in Lists(Slices(done, bound))
<1>1. PICK D \in SUBSET ReaderIDs : rs \in [D -> ReaderSet(done, bound)]
  BY DEF ReaderMaps
<1>2. DOMAIN rs = D /\ \A r \in D : rs[r] \in ReaderSet(done, bound)
  BY <1>1
<1>3. rs = [r \in D |-> rs[r]]
  BY <1>1
<1> QED BY <1>2, <1>3, ReaderElim

\* When a function is a map of readers that a queue may have.
LEMMA ReaderMapIntro ==
    ASSUME NEW done, NEW bound, NEW D \in SUBSET ReaderIDs, NEW rs,
           rs = [r \in D |-> rs[r]],
           \A r \in D : rs[r] \in ReaderSet(done, bound)
    PROVE rs \in ReaderMaps(done, bound)
<1> DEFINE X == ReaderSet(done, bound)
<1>1. \A r \in D : rs[r] \in X
  OBVIOUS
<1> HIDE DEF X
<1>2. rs \in [D -> X]
  BY <1>1
<1> QED BY <1>2 DEF ReaderMaps, X

\* resetNextReadSliceLocked: nextReadSlice is the first slice with something to
\* read, or nil.
LEMMA ResetFacts ==
    ASSUME NEW done, NEW bound, NEW l \in Lists(Slices(done, bound))
    PROVE Reset(l) \in ReaderSet(done, bound) /\ Reset(l).slices = l
<1> DEFINE T == Slices(done, bound)
           unread == {i \in DOMAIN l : l[i].iters # {}}
           n == IF unread = {} THEN 0 ELSE Min(unread)
<1>1. Len(l) \in Nat /\ DOMAIN l = 1 .. Len(l)
  <2>1. T \in SUBSET Slices(done, bound) /\ l \in Lists(T)
    OBVIOUS
  <2> HIDE DEF T
  <2> QED BY <2>1, ListElements
<1>2. n \in Nat /\ n <= Len(l)
  <2>1. unread \in SUBSET Nat
    BY <1>1, SMT
  <2>2. unread # {} => Min(unread) \in unread
    <3> HIDE DEF unread
    <3> QED BY <2>1, MinFacts
  <2>3. \A i \in unread : i \in Nat /\ i <= Len(l)
    BY <1>1, SMT
  <2>4. 0 \in Nat /\ 0 <= Len(l)
    BY <1>1, SMT
  <2> HIDE DEF unread
  <2> QED BY <2>2, <2>3, <2>4
<1> DEFINE x == Reset(l)
<1>3. x = [slices |-> l, next |-> n]
  BY DEF Reset
<1> HIDE DEF n, x
<1>4. /\ x.slices = l /\ x.next = n
      /\ x \in [slices : Lists(Slices(done, bound)), next : Nat]
  BY <1>2, <1>3
<1> QED BY <1>2, <1>4 DEF ReaderSet, x

\* NewReader: a reader starts at the first of its slices.
LEMMA NewReaderFacts ==
    ASSUME NEW done, NEW bound, NEW l \in Lists(Slices(done, bound))
    PROVE NewReader(l) \in ReaderSet(done, bound) /\ NewReader(l).slices = l
<1> DEFINE T == Slices(done, bound)
           n == IF l = <<>> THEN 0 ELSE 1
<1>1. n \in Nat /\ n <= Len(l)
  <2>1. l \in Seq(T)
    BY DEF Lists
  <2> HIDE DEF T
  <2>2. l # <<>> => 1 <= Len(l)
    BY <2>1, SMT
  <2>3. 0 <= Len(l) /\ 0 \in Nat /\ 1 \in Nat
    BY <2>1, SMT
  <2> QED BY <2>2, <2>3
<1> DEFINE x == NewReader(l)
<1>2. x = [slices |-> l, next |-> n]
  BY DEF NewReader
<1> HIDE DEF n, x
<1>3. /\ x.slices = l /\ x.next = n
      /\ x \in [slices : Lists(Slices(done, bound)), next : Nat]
  BY <1>1, <1>2
<1> QED BY <1>1, <1>3 DEF ReaderSet, x

\* A reader is added or replaced, and only what the replaced one covered may be
\* lost.
LEMMA WithReaderFacts ==
    ASSUME NEW done, NEW bound, NEW rs \in ReaderMaps(done, bound),
           NEW r \in ReaderIDs, NEW x \in ReaderSet(done, bound)
    PROVE LET new == WithReader(rs, r, x)
          IN /\ new \in ReaderMaps(done, bound)
             /\ DOMAIN new = DOMAIN rs \cup {r}
             /\ new[r] = x /\ \A y \in DOMAIN rs : y # r => new[y] = rs[y]
             /\ Held(Range(x.slices)) \subseteq HeldBy(new)
             /\ \A k \in HeldBy(rs) :
                  \/ k \in HeldBy(new)
                  \/ r \in DOMAIN rs /\ k \in Held(Range(rs[r].slices))
<1> DEFINE new == WithReader(rs, r, x)
<1>1. DOMAIN rs \subseteq ReaderIDs
      /\ \A y \in DOMAIN rs : rs[y] \in ReaderSet(done, bound)
  BY ReaderMapElim
<1>2. /\ DOMAIN new = DOMAIN rs \cup {r}
      /\ new[r] = x /\ \A y \in DOMAIN rs : y # r => new[y] = rs[y]
      /\ new = [y \in DOMAIN rs \cup {r} |-> new[y]]
  BY DEF WithReader
<1> HIDE DEF new
<1>3. new \in ReaderMaps(done, bound)
  <2>1. DOMAIN rs \cup {r} \in SUBSET ReaderIDs
    BY <1>1
  <2>2. \A y \in DOMAIN rs \cup {r} : new[y] \in ReaderSet(done, bound)
    BY <1>1, <1>2
  <2> DEFINE D == DOMAIN rs \cup {r}
  <2>3. D \in SUBSET ReaderIDs /\ new = [y \in D |-> new[y]]
        /\ \A y \in D : new[y] \in ReaderSet(done, bound)
    BY <1>2, <2>1, <2>2
  <2> HIDE DEF D
  <2> QED BY <2>3, ReaderMapIntro
<1>4. Held(Range(x.slices)) \subseteq HeldBy(new)
  BY <1>2, HeldFacts DEF HeldBy
<1>5. ASSUME NEW k \in HeldBy(rs)
      PROVE \/ k \in HeldBy(new)
            \/ r \in DOMAIN rs /\ k \in Held(Range(rs[r].slices))
  <2>1. PICK y \in DOMAIN rs : k \in Held(Range(rs[y].slices))
    BY DEF HeldBy
  <2>2. k \in Keys
    BY DEF HeldBy
  <2>3. CASE y = r
    BY <2>1, <2>3
  <2>4. CASE y # r
    <3>1. y \in DOMAIN new /\ new[y] = rs[y]
      BY <1>2, <2>4
    <3> QED BY <2>1, <2>2, <3>1 DEF HeldBy
  <2> QED BY <2>3, <2>4
<1> QED BY <1>2, <1>3, <1>4, <1>5 DEF new

-----------------------------------------------------------------------------
(* SplitSlices *)

\* p is what a splitter may make of slice s: nothing outside of its range, and
\* nothing that it covers and is not executed is lost.
PartOf(p, s, done, bound) ==
    /\ p.stay \in Lists(Slices(done, bound))
    /\ p.move \in Lists(Slices(done, bound))
    /\ \A x \in Range(p.stay) \cup Range(p.move) : s.min <= x.min /\ x.max <= s.max
    /\ Held({s}) \ done \subseteq Held(Range(p.stay)) \cup Held(Range(p.move))

\* SplitSlices of a reader, and MergeSlices of what moves into another one.
LEMMA SplitAndMoveFacts ==
    ASSUME NEW done, NEW bound \in Nat, NEW rs \in ReaderMaps(done, bound),
           NEW r \in DOMAIN rs, NEW to \in ReaderIDs, NEW parts,
           parts = [i \in DOMAIN rs[r].slices |-> parts[i]],
           \A i \in DOMAIN rs[r].slices :
              PartOf(parts[i], rs[r].slices[i], done, bound)
    PROVE /\ LET new == MoveTo(Stay(rs, r, parts), to, Moved(parts))
             IN /\ new \in ReaderMaps(done, bound)
                /\ HeldBy(rs) \ done \subseteq HeldBy(new)
          /\ LET new == Stay(rs, r, parts)
             IN /\ new \in ReaderMaps(done, bound)
                /\ Moved(parts) = <<>> => HeldBy(rs) \ done \subseteq HeldBy(new)
\* SplitSlices of a reader: what it covered is covered by the slices that stay
\* or by those that move.
<1>SplitSlicesFacts.
      ASSUME NEW bound1, NEW rs2 \in ReaderMaps(done, bound1),
             NEW r2 \in DOMAIN rs2, NEW parts1,
             parts1 = [i \in DOMAIN rs2[r2].slices |-> parts1[i]],
             \A i \in DOMAIN rs2[r2].slices : PartOf(parts1[i], rs2[r2].slices[i], done, bound1)
      PROVE /\ Stay(rs2, r2, parts1) \in ReaderMaps(done, bound1)
            /\ Moved(parts1) \in Lists(Slices(done, bound1))
            /\ HeldBy(rs2) \ done \subseteq
                  HeldBy(Stay(rs2, r2, parts1)) \cup Held(Range(Moved(parts1)))
  <2> USE <1>SplitSlicesFacts
  \* SplitSlices: lists that replace the slices of a list, each within the range
  \* of its slice, are in order when joined.
  <2>JoinInPlace.
        ASSUME NEW slices \in Lists(Slices(done, bound1)), NEW lists,
               lists = [i \in DOMAIN slices |-> lists[i]],
               \A i \in DOMAIN slices : /\ lists[i] \in Lists(Slices(done, bound1)) /\ \A x \in Range(lists[i]) : slices[i].min <= x.min /\ x.max <= slices[i].max
        PROVE /\ Joined(lists) \in Lists(Slices(done, bound1))
              /\ \A x : x \in Range(Joined(lists)) <=>
                          \E i \in DOMAIN slices : x \in Range(lists[i])
    <3> USE <2>JoinInPlace
    <3> DEFINE T == Slices(done, bound1)
               L == Lists(T)
    <3>1. /\ Len(slices) \in Nat /\ DOMAIN slices = 1 .. Len(slices)
          /\ \A i \in DOMAIN slices : slices[i].min \in Nat /\ slices[i].max \in Nat
          /\ \A i, j \in DOMAIN slices : i < j => slices[i].max <= slices[j].min
      <4>1. T \in SUBSET Slices(done, bound1) /\ slices \in Lists(T)
        OBVIOUS
      <4> HIDE DEF T
      <4> QED BY <4>1, ListElements
    <3>2. \A i \in DOMAIN slices : \A x \in Range(lists[i]) :
             x \in T /\ x.min \in Nat /\ x.max \in Nat
      <4>1. ASSUME NEW i \in DOMAIN slices PROVE Range(lists[i]) \subseteq T
        <5> DEFINE l == lists[i]
        <5>1. T \in SUBSET Slices(done, bound1) /\ l \in Lists(T)
          OBVIOUS
        <5> HIDE DEF T, l
        <5>2. Range(l) \subseteq T
          BY <5>1, ListElements
        <5> QED BY <5>2 DEF l
      <4> QED BY <4>1, SliceElim
    <3>3. DOMAIN lists = DOMAIN slices
      OBVIOUS
    <3>4. lists \in Seq(L)
      <4>1. \A i \in 1 .. Len(slices) : lists[i] \in L
        BY <3>1
      <4>2. lists = [i \in 1 .. Len(slices) |-> lists[i]]
        BY <3>1
      <4> HIDE DEF L
      <4> QED BY <3>1, <4>1, <4>2, SMT
    <3>5. ASSUME NEW m \in DOMAIN lists, NEW n \in DOMAIN lists, m < n
          PROVE Before(Range(lists[m]), Range(lists[n]))
      <4> SUFFICES ASSUME NEW x \in Range(lists[m]), NEW y \in Range(lists[n])
                   PROVE x.max <= y.min
        BY DEF Before
      <4>1. m \in DOMAIN slices /\ n \in DOMAIN slices
        BY <3>3
      <4>2. /\ x.max \in Nat /\ y.min \in Nat /\ slices[m].max \in Nat
            /\ slices[n].min \in Nat /\ x.max <= slices[m].max
            /\ slices[n].min <= y.min /\ slices[m].max <= slices[n].min
        BY <3>1, <3>2, <3>5, <4>1
      <4> QED BY <4>2, SMT
    <3> HIDE DEF T
    <3>6. /\ Joined(lists) \in Lists(T)
          /\ \A x : x \in Range(Joined(lists)) <=>
                      \E n \in DOMAIN lists : x \in Range(lists[n])
      BY <3>4, <3>5, JoinedFacts
    <3> QED BY <3>3, <3>6 DEF T
  <2> DEFINE slices == rs2[r2].slices
             T == Slices(done, bound1)
             stays == [i \in DOMAIN parts1 |-> parts1[i].stay]
             moves == [i \in DOMAIN parts1 |-> parts1[i].move]
             kept == Joined(stays)
             gone == Joined(moves)
             x == Reset(kept)
             new == Stay(rs2, r2, parts1)
  <2>1. slices \in Lists(T) /\ DOMAIN rs2 \subseteq ReaderIDs
    BY ReaderMapElim
  <2>2. DOMAIN parts1 = DOMAIN slices
    OBVIOUS
  <2>3. /\ stays = [i \in DOMAIN slices |-> stays[i]]
        /\ moves = [i \in DOMAIN slices |-> moves[i]]
        /\ \A i \in DOMAIN slices : /\ stays[i] = parts1[i].stay
                                    /\ moves[i] = parts1[i].move
    BY <2>2
  <2>4. new = WithReader(rs2, r2, x) /\ Moved(parts1) = gone
    BY DEF Stay, Moved
  <2> HIDE DEF stays, moves, slices
  <2>5. \A i \in DOMAIN slices :
          /\ stays[i] \in Lists(T) /\ moves[i] \in Lists(T)
          /\ \A y \in Range(stays[i]) :
                slices[i].min <= y.min /\ y.max <= slices[i].max
          /\ \A y \in Range(moves[i]) :
                slices[i].min <= y.min /\ y.max <= slices[i].max
          /\ Held({slices[i]}) \ done \subseteq
                Held(Range(stays[i])) \cup Held(Range(moves[i]))
    BY <2>3 DEF PartOf, slices
  <2>6. /\ kept \in Lists(T)
        /\ \A y : y \in Range(kept) <=> \E i \in DOMAIN slices : y \in Range(stays[i])
    BY <2>1, <2>3, <2>5, <2>JoinInPlace
  <2>7. /\ gone \in Lists(T)
        /\ \A y : y \in Range(gone) <=> \E i \in DOMAIN slices : y \in Range(moves[i])
    BY <2>1, <2>3, <2>5, <2>JoinInPlace
  <2> HIDE DEF kept, gone
  <2>8. Held(Range(slices)) \ done \subseteq Held(Range(kept)) \cup Held(Range(gone))
    <3> SUFFICES ASSUME NEW k \in Held(Range(slices)) \ done
                 PROVE k \in Held(Range(kept)) \cup Held(Range(gone))
      OBVIOUS
    <3>1. PICK i \in DOMAIN slices : k \in Held({slices[i]})
      BY DEF Held, Range
    <3>2. k \in Held(Range(stays[i])) \cup Held(Range(moves[i]))
      BY <2>5, <3>1
    <3>3. Range(stays[i]) \subseteq Range(kept) /\ Range(moves[i]) \subseteq Range(gone)
      BY <2>6, <2>7
    <3> QED BY <3>2, <3>3, HeldFacts
  <2>9. x \in ReaderSet(done, bound1) /\ x.slices = kept
    BY <2>6, ResetFacts
  <2> DEFINE w == WithReader(rs2, r2, x)
  <2> HIDE DEF x
  <2>10. /\ w \in ReaderMaps(done, bound1)
         /\ Held(Range(x.slices)) \subseteq HeldBy(w)
         /\ \A k \in HeldBy(rs2) :
              \/ k \in HeldBy(w)
              \/ r2 \in DOMAIN rs2 /\ k \in Held(Range(rs2[r2].slices))
    <3>1. r2 \in ReaderIDs /\ x \in ReaderSet(done, bound1)
      BY <2>1, <2>9
    <3> QED BY <3>1, WithReaderFacts
  <2> HIDE DEF new, w
  <2>11. new = w
    BY <2>4 DEF w
  <2>12. HeldBy(rs2) \ done \subseteq HeldBy(w) \cup Held(Range(gone))
    BY <2>8, <2>9, <2>10 DEF slices
  <2>14. /\ new \in ReaderMaps(done, bound1)
         /\ HeldBy(rs2) \ done \subseteq HeldBy(new) \cup Held(Range(gone))
    BY <2>10, <2>11, <2>12
  <2> QED BY <2>4, <2>7, <2>14 DEF new
\* GetOrCreateReader and MergeSlices: slices moved to another reader are covered
\* there.
<1>MoveToFacts.
      ASSUME NEW rs1 \in ReaderMaps(done, bound), NEW r1 \in ReaderIDs,
             NEW moved \in Lists(Slices(done, bound))
      PROVE /\ MoveTo(rs1, r1, moved) \in ReaderMaps(done, bound)
            /\ HeldBy(rs1) \cup Held(Range(moved)) \subseteq HeldBy(MoveTo(rs1, r1, moved))
  <2> USE <1>MoveToFacts
  <2> DEFINE T == Slices(done, bound)
             slices == IF r1 \in DOMAIN rs1 THEN rs1[r1].slices ELSE <<>>
             all == MergeSlices(slices, moved)
             x == Reset(all)
             new == MoveTo(rs1, r1, moved)
  <2>1. slices \in Lists(T)
    BY ReaderMapElim, SmallLists
  <2>2. CASE moved # <<>>
    <3>1. new = WithReader(rs1, r1, x)
      BY <2>2 DEF MoveTo
    <3>2. r1 \in DOMAIN rs1 => slices = rs1[r1].slices
      OBVIOUS
    <3> HIDE DEF slices
    <3>3. all \in Lists(Full(done, bound))
          /\ Held(Range(slices)) \cup Held(Range(moved)) \subseteq Held(Range(all))
      BY <2>1, MergeSlicesFacts
    <3>4. all \in Lists(T)
      <4>1. \A A, B : A \subseteq B => Seq(A) \subseteq Seq(B)
        BY SMT
      <4>2. Full(done, bound) \subseteq T
        BY DEF Full
      <4> QED BY <3>3, <4>1, <4>2 DEF Lists
    <3> HIDE DEF all
    <3>5. x \in ReaderSet(done, bound) /\ x.slices = all
      BY <3>4, ResetFacts
    <3> HIDE DEF x, new
    <3>6. /\ new \in ReaderMaps(done, bound)
          /\ Held(Range(x.slices)) \subseteq HeldBy(new)
          /\ \A k \in HeldBy(rs1) :
               \/ k \in HeldBy(new)
               \/ r1 \in DOMAIN rs1 /\ k \in Held(Range(rs1[r1].slices))
      <4> DEFINE w == WithReader(rs1, r1, x)
      <4>1. /\ w \in ReaderMaps(done, bound)
            /\ Held(Range(x.slices)) \subseteq HeldBy(w)
            /\ \A k \in HeldBy(rs1) :
                 \/ k \in HeldBy(w)
                 \/ r1 \in DOMAIN rs1 /\ k \in Held(Range(rs1[r1].slices))
        BY <3>5, WithReaderFacts
      <4> HIDE DEF w
      <4>2. new = w
        BY <3>1 DEF w
      <4> QED BY <4>1, <4>2
    <3>7. HeldBy(rs1) \cup Held(Range(moved)) \subseteq HeldBy(new)
      BY <3>2, <3>3, <3>5, <3>6
    <3> QED BY <3>6, <3>7 DEF new
  <2>3. CASE moved = <<>> /\ r1 \in DOMAIN rs1
    <3>1. new = rs1
      BY <2>3 DEF MoveTo
    <3>2. Held(Range(moved)) = {}
      BY <2>3, SmallLists DEF Held
    <3> HIDE DEF new
    <3>3. HeldBy(rs1) \cup Held(Range(moved)) \subseteq HeldBy(new)
      BY <3>1, <3>2
    <3> QED BY <3>1, <3>3 DEF new
  <2>4. CASE moved = <<>> /\ r1 \notin DOMAIN rs1
    <3> DEFINE y == NewReader(<<>>)
    <3>1. new = WithReader(rs1, r1, y)
      BY <2>4 DEF MoveTo
    <3>2. Held(Range(moved)) = {}
      BY <2>4, SmallLists DEF Held
    <3>3. y \in ReaderSet(done, bound)
      BY SmallLists, NewReaderFacts
    <3> HIDE DEF y, new
    <3>4. /\ new \in ReaderMaps(done, bound)
          /\ \A k \in HeldBy(rs1) :
               \/ k \in HeldBy(new)
               \/ r1 \in DOMAIN rs1 /\ k \in Held(Range(rs1[r1].slices))
      <4> DEFINE w == WithReader(rs1, r1, y)
      <4>1. /\ w \in ReaderMaps(done, bound)
            /\ \A k \in HeldBy(rs1) :
                 \/ k \in HeldBy(w)
                 \/ r1 \in DOMAIN rs1 /\ k \in Held(Range(rs1[r1].slices))
        BY <3>3, WithReaderFacts
      <4> HIDE DEF w
      <4>2. new = w
        BY <3>1 DEF w
      <4> QED BY <4>1, <4>2
    <3>5. HeldBy(rs1) \cup Held(Range(moved)) \subseteq HeldBy(new)
      BY <2>4, <3>2, <3>4
    <3> QED BY <3>4, <3>5 DEF new
  <2> QED BY <2>2, <2>3, <2>4
<1> DEFINE rest == Stay(rs, r, parts)
           moved == Moved(parts)
           new == MoveTo(rest, to, moved)
<1>1. /\ rest \in ReaderMaps(done, bound)
      /\ moved \in Lists(Slices(done, bound))
      /\ HeldBy(rs) \ done \subseteq HeldBy(rest) \cup Held(Range(moved))
  BY <1>SplitSlicesFacts
<1> HIDE DEF rest, moved
<1>2. /\ new \in ReaderMaps(done, bound)
      /\ HeldBy(rest) \cup Held(Range(moved)) \subseteq HeldBy(new)
  BY <1>1, <1>MoveToFacts
<1> HIDE DEF new
<1>3. HeldBy(rs) \ done \subseteq HeldBy(new)
  BY <1>1, <1>2
<1>4. moved = <<>> => HeldBy(rs) \ done \subseteq HeldBy(rest)
  <2>1. moved = <<>> => Held(Range(moved)) = {}
    BY SmallLists DEF Held
  <2> QED BY <1>1, <2>1
<1> QED BY <1>1, <1>2, <1>3, <1>4 DEF rest, moved, new

\* A splitter that leaves a slice alone.
LEMMA UntouchedFacts ==
    ASSUME NEW done, NEW bound, NEW s \in Slices(done, bound)
    PROVE PartOf(Untouched(s), s, done, bound)
<1> DEFINE p == Untouched(s)
           T == Slices(done, bound)
<1>1. p.stay = <<s>> /\ p.move = <<>>
  BY DEF Untouched
<1>2. <<s>> \in Lists(T) /\ Range(<<s>>) = {s} /\ <<>> \in Lists(T)
      /\ Range(<<>>) = {}
  BY SmallLists
<1> HIDE DEF p
<1>3. /\ p.stay \in Lists(T) /\ p.move \in Lists(T)
      /\ Range(p.stay) = {s} /\ Range(p.move) = {}
  BY <1>1, <1>2
<1>4. s.min <= s.min /\ s.max <= s.max
  <2>1. s.min \in Nat /\ s.max \in Nat
    BY SliceElim
  <2> QED BY <2>1, SMT
<1>5. \A x \in Range(p.stay) \cup Range(p.move) : s.min <= x.min /\ x.max <= s.max
  BY <1>3, <1>4
<1>6. Held({s}) \ done \subseteq Held(Range(p.stay)) \cup Held(Range(p.move))
  BY <1>3
<1> QED BY <1>3, <1>5, <1>6 DEF PartOf, p

\* A splitter that gives slices within the range, which cover what is not
\* executed.
LEMMA SplitFacts ==
    ASSUME NEW done, NEW bound, NEW s \in Slices(done, bound),
           NEW stay \in Lists(Slices(done, bound)),
           NEW move \in Lists(Slices(done, bound)),
           \A x \in Range(stay) \cup Range(move) : s.min <= x.min /\ x.max <= s.max,
           Held({s}) \ done \subseteq Held(Range(stay)) \cup Held(Range(move))
    PROVE PartOf(Split(stay, move), s, done, bound)
<1> DEFINE p == Split(stay, move)
           T == Slices(done, bound)
<1>1. p.stay = NonEmpty(stay) /\ p.move = move
  BY DEF Split
<1>2. /\ NonEmpty(stay) \in Lists(Full(done, bound))
      /\ \A x : x \in Range(NonEmpty(stay)) <=> x \in Range(stay) /\ ~IsEmpty(x)
      /\ Held(Range(NonEmpty(stay))) = Held(Range(stay))
  BY NonEmptyFacts
<1>3. NonEmpty(stay) \in Lists(T)
  <2>1. \A A, B : A \subseteq B => Seq(A) \subseteq Seq(B)
    BY SMT
  <2>2. Full(done, bound) \subseteq T
    BY DEF Full
  <2> QED BY <1>2, <2>1, <2>2 DEF Lists
<1> HIDE DEF p
<1>4. /\ p.stay \in Lists(T) /\ p.move \in Lists(T)
      /\ Range(p.stay) \subseteq Range(stay) /\ Range(p.move) = Range(move)
      /\ Held(Range(p.stay)) = Held(Range(stay))
  BY <1>1, <1>2, <1>3
<1>5. \A x \in Range(p.stay) \cup Range(p.move) : s.min <= x.min /\ x.max <= s.max
  BY <1>4
<1>6. Held({s}) \ done \subseteq Held(Range(p.stay)) \cup Held(Range(p.move))
  BY <1>4
<1> QED BY <1>4, <1>5, <1>6 DEF PartOf, p

-----------------------------------------------------------------------------
(* Moving groups *)

\* Each slice of a list is replaced by one within its range: the list stays in
\* order (ShrinkSlices, and Clear in splitAndClearSlice).
LEMMA ReplaceInPlace ==
    ASSUME NEW done, NEW bound, NEW l \in Lists(Slices(done, bound)),
           NEW T, NEW new, new = [i \in DOMAIN l |-> new[i]],
           \A i \in DOMAIN l : /\ new[i] \in T
                               /\ new[i].min \in Nat /\ new[i].max \in Nat
                               /\ l[i].min <= new[i].min /\ new[i].max <= l[i].max
    PROVE new \in Lists(T) /\ DOMAIN new = DOMAIN l /\ Len(new) = Len(l)
<1>1. /\ Len(l) \in Nat /\ DOMAIN l = 1 .. Len(l)
      /\ \A i \in DOMAIN l : l[i].min \in Nat /\ l[i].max \in Nat
      /\ \A i, j \in DOMAIN l : i < j => l[i].max <= l[j].min
  <2> DEFINE S == Slices(done, bound)
  <2>1. S \in SUBSET Slices(done, bound) /\ l \in Lists(S)
    OBVIOUS
  <2> HIDE DEF S
  <2> QED BY <2>1, ListElements
<1>2. DOMAIN new = DOMAIN l
  OBVIOUS
<1>3. new \in Seq(T) /\ Len(new) = Len(l)
  <2>1. new = [i \in 1 .. Len(l) |-> new[i]]
    BY <1>1
  <2>2. \A i \in 1 .. Len(l) : new[i] \in T
    BY <1>1
  <2> QED BY <1>1, <2>1, <2>2, SMT
<1>4. ASSUME NEW i \in DOMAIN new, NEW j \in DOMAIN new, i < j
      PROVE new[i].max <= new[j].min
  <2>1. /\ new[i].max \in Nat /\ l[i].max \in Nat /\ l[j].min \in Nat
        /\ new[j].min \in Nat /\ new[i].max <= l[i].max /\ l[j].min <= new[j].min
        /\ l[i].max <= l[j].min
    BY <1>1, <1>2, <1>4
  <2> QED BY <2>1, SMT
<1> QED BY <1>2, <1>3, <1>4 DEF Lists

\* Each slice of a list is replaced by one that covers what it did.
LEMMA HeldInPlace ==
    ASSUME NEW l, NEW new, NEW done, DOMAIN new = DOMAIN l,
           \A i \in DOMAIN l : \A k \in Keys \ done :
              Covers(l[i], k) => Covers(new[i], k)
    PROVE Held(Range(l)) \ done \subseteq Held(Range(new))
<1> SUFFICES ASSUME NEW k \in Held(Range(l)) \ done PROVE k \in Held(Range(new))
  OBVIOUS
<1>1. k \in Keys \ done /\ \E i \in DOMAIN l : Covers(l[i], k)
  BY DEF Held, Range
<1>2. PICK i \in DOMAIN new : Covers(new[i], k)
  BY <1>1
<1> QED BY <1>1, <1>2 DEF Held, Range

\* The reader maps in which nothing of S is lost that is not executed.
Keeping(S, done, bound) ==
    {rs \in ReaderMaps(done, bound) : S \ done \subseteq HeldBy(rs)}

\* A change of the readers that loses nothing, after others that lost nothing.
LEMMA KeepingFacts ==
    ASSUME NEW S, NEW done, NEW bound, NEW rs \in Keeping(S, done, bound),
           NEW new \in ReaderMaps(done, bound),
           HeldBy(rs) \ done \subseteq HeldBy(new)
    PROVE new \in Keeping(S, done, bound)
BY DEF Keeping

\* The splitters of actionMoveGroup and splitAndClearSlice: what passes the
\* predicate moves, possibly cleared.
LEMMA PredicatePart ==
    ASSUME NEW done, NEW bound \in Nat, NEW s \in Slices(done, bound), NEW g,
           NEW pass \in Slices(done, bound), s.min <= pass.min, pass.max <= s.max,
           \A k \in Keys \ done :
              Covers(SplitByPredicate(s, g).pass, k) => Covers(pass, k)
    PROVE PartOf(Split(<<SplitByPredicate(s, g).fail>>, <<pass>>), s, done, bound)
<1> DEFINE first == SplitByPredicate(s, g).pass
           fail == SplitByPredicate(s, g).fail
           T == Slices(done, bound)
<1>1. /\ first \in T /\ fail \in T
      /\ fail.min = s.min /\ fail.max = s.max
      /\ \A x \in Keys : Covers(s, x) => Covers(first, x) \/ Covers(fail, x)
  BY SplitByPredicateFacts, SMT
<1> HIDE DEF first, fail
<1>2. s.min <= fail.min /\ fail.max <= s.max
  <2>1. s.min \in Nat /\ s.max \in Nat
    BY SliceElim
  <2> QED BY <1>1, <2>1, SMT
<1> DEFINE stay == <<fail>>
           move == <<pass>>
<1>3. /\ stay \in Lists(T) /\ Range(stay) = {fail}
      /\ move \in Lists(T) /\ Range(move) = {pass}
  BY <1>1, SmallLists
<1> HIDE DEF stay, move
<1>4. \A x \in Range(stay) \cup Range(move) : s.min <= x.min /\ x.max <= s.max
  BY <1>2, <1>3
<1>5. Held({s}) \ done \subseteq Held({fail}) \cup Held({pass})
  BY <1>1 DEF Held, first
<1>6. Held({s}) \ done \subseteq Held(Range(stay)) \cup Held(Range(move))
  BY <1>3, <1>5
<1>7. PartOf(Split(stay, move), s, done, bound)
  BY <1>3, <1>4, <1>6, SplitFacts
<1> QED BY <1>7 DEF stay, move, fail

\* Every reader but the last has a next one, to which slices may move.
LEMMA NextReader ==
    /\ \A n \in 1 .. (MaxReaderCount - 1) :
          n - 1 \in ReaderIDs /\ (n - 1) + 1 \in ReaderIDs
    /\ \A r \in ReaderIDs : r # MaxReaderCount - 1 => r + 1 \in ReaderIDs
    /\ \A n \in 1 .. MaxReaderCount : MaxReaderCount - n \in ReaderIDs
    /\ 0 \in ReaderIDs /\ 0 + 1 \in ReaderIDs
    /\ MaxReaderCount \in Nat /\ MaxReaderCount - 1 \in Nat
BY QueueAssumption, SMT DEF ReaderIDs

\* The slices of a reader.
LEMMA ListOfReader ==
    ASSUME NEW done, NEW bound, NEW rs \in ReaderMaps(done, bound),
           NEW r \in DOMAIN rs
    PROVE /\ rs[r].slices \in Lists(Slices(done, bound))
          /\ Len(rs[r].slices) \in Nat
          /\ DOMAIN rs[r].slices = 1 .. Len(rs[r].slices)
          /\ \A i \in DOMAIN rs[r].slices : rs[r].slices[i] \in Slices(done, bound)
<1> DEFINE l == rs[r].slices
           T == Slices(done, bound)
<1>1. l \in Lists(T) /\ T \in SUBSET Slices(done, bound)
  BY ReaderMapElim
<1> HIDE DEF l, T
<1>2. /\ Len(l) \in Nat /\ DOMAIN l = 1 .. Len(l)
      /\ \A i \in DOMAIN l : l[i] \in T
  BY <1>1, ListElements
<1> QED BY <1>1, <1>2 DEF l, T

\* actionMoveGroup for all readers but the last loses no task.
LEMMA MoveGroupFacts ==
    ASSUME NEW S, NEW done, NEW bound \in Nat, NEW rs \in Keeping(S, done, bound),
           NEW moving
    PROVE MoveGroup(rs, moving) \in Keeping(S, done, bound)
\* actionMoveGroup for one reader loses no task.
<1>MoveGroupOfFacts.
      ASSUME NEW rs1 \in Keeping(S, done, bound), NEW r \in ReaderIDs,
             r + 1 \in ReaderIDs, NEW moving1
      PROVE MoveGroupOf(rs1, r, moving1) \in Keeping(S, done, bound)
  <2> USE <1>MoveGroupOfFacts
  <2> DEFINE slices == rs1[r].slices
             groups == moving1[r] \cap PendingGroups(slices)
             parts == [i \in DOMAIN slices |->
              LET s == slices[i]
                  split == SplitByPredicate(s, groups)
              IN IF s.min = s.max \/ s.groups \cap groups = {}
                 THEN Untouched(s)
                 ELSE Split(<<split.fail>>, <<split.pass>>)]
             new == MoveTo(Stay(rs1, r, parts), r + 1, Moved(parts))
  <2>1. rs1 \in ReaderMaps(done, bound)
    BY DEF Keeping
  <2>2. \/ MoveGroupOf(rs1, r, moving1) = rs1
        \/ r \in DOMAIN rs1 /\ MoveGroupOf(rs1, r, moving1) = new
    BY DEF MoveGroupOf
  <2> SUFFICES ASSUME r \in DOMAIN rs1 PROVE new \in Keeping(S, done, bound)
    BY <2>2
  <2>3. \A i \in DOMAIN slices : slices[i] \in Slices(done, bound)
    BY <2>1, ListOfReader
  <2> HIDE DEF groups
  <2>4. ASSUME NEW i \in DOMAIN slices
        PROVE PartOf(parts[i], slices[i], done, bound)
    <3> DEFINE s == slices[i]
               split == SplitByPredicate(s, groups)
    <3>1. parts[i] = Untouched(s) \/ parts[i] = Split(<<split.fail>>, <<split.pass>>)
      OBVIOUS
    <3>2. s \in Slices(done, bound)
      BY <2>3
    <3> HIDE DEF s
    <3>3. PartOf(Untouched(s), s, done, bound)
      BY <3>2, UntouchedFacts
    <3>4. PartOf(Split(<<split.fail>>, <<split.pass>>), s, done, bound)
      <4> DEFINE pass == split.pass
      <4>1. /\ pass \in Slices(done, bound) /\ pass.min = s.min /\ pass.max = s.max
        BY <3>2, SplitByPredicateFacts, SMT
      <4>2. s.min \in Nat /\ s.max \in Nat
        BY <3>2, SliceElim
      <4>3. s.min <= pass.min /\ pass.max <= s.max
        <5> HIDE DEF pass
        <5> QED BY <4>1, <4>2, SMT
      <4>4. \A k \in Keys \ done :
              Covers(SplitByPredicate(s, groups).pass, k) => Covers(pass, k)
        OBVIOUS
      <4> HIDE DEF pass
      <4>5. PartOf(Split(<<split.fail>>, <<pass>>), s, done, bound)
        BY <3>2, <4>1, <4>3, <4>4, PredicatePart
      <4> QED BY <4>5 DEF pass
    <3>5. PartOf(parts[i], s, done, bound)
      <4> HIDE DEF split, parts
      <4> QED BY <3>1, <3>3, <3>4
    <3> QED BY <3>5 DEF s
  <2>5. parts = [i \in DOMAIN slices |-> parts[i]]
    OBVIOUS
  <2> HIDE DEF parts
  <2>6. new \in ReaderMaps(done, bound) /\ HeldBy(rs1) \ done \subseteq HeldBy(new)
    BY <2>1, <2>4, <2>5, SplitAndMoveFacts
  <2> HIDE DEF new
  <2> QED BY <2>6, KeepingFacts
<1> DEFINE N == MaxReaderCount - 1
           K == Keeping(S, done, bound)
           J == [n \in 0 .. N |-> K]
           step == [n \in 1 .. N |-> [x \in K |-> MoveGroupOf(x, n - 1, moving)]]
           IsAfter(f) == f = [n \in 0 .. N |->
                                IF n = 0 THEN rs
                                ELSE MoveGroupOf(f[n - 1], n - 1, moving)]
<1>1. N \in Nat
  BY NextReader
<1>2. \A n \in 1 .. N : n - 1 \in ReaderIDs /\ (n - 1) + 1 \in ReaderIDs
  BY NextReader
<1>3. \A n \in 1 .. N : \A x \in K : MoveGroupOf(x, n - 1, moving) \in K
  BY <1>2, <1>MoveGroupOfFacts
<1>4. /\ \A n \in 1 .. N : n \in 0 .. N /\ n - 1 \in 0 .. N /\ n # 0
      /\ 0 \in 0 .. N /\ N \in 0 .. N
      /\ \A n \in 0 .. N : n # 0 => n \in 1 .. N
  BY <1>1, SMT
<1> HIDE DEF N, K
<1>5. /\ \A n \in 0 .. N : J[n] = K
      /\ \A n \in 1 .. N : \A x \in K : step[n][x] = MoveGroupOf(x, n - 1, moving)
  OBVIOUS
<1>0. rs \in K
  BY DEF K
<1>6. rs \in J[0] /\ \A n \in 1 .. N : \A x \in J[n - 1] : step[n][x] \in J[n]
  BY <1>0, <1>3, <1>4, <1>5
<1> HIDE DEF J, step
<1>7. PICK f : IsLoop(f, N, rs, step) /\ \A n \in 0 .. N : f[n] \in J[n]
  BY <1>1, <1>6, LoopRuns
<1>8. IsAfter(f)
  <2>1. /\ f = [n \in 0 .. N |-> f[n]] /\ f[0] = rs
        /\ \A n \in 1 .. N : f[n] = step[n][f[n - 1]]
    BY <1>7 DEF IsLoop
  <2>2. \A n \in 1 .. N : f[n] = MoveGroupOf(f[n - 1], n - 1, moving)
    BY <1>4, <1>5, <1>7, <2>1
  <2>3. \A n \in 0 .. N : f[n] = IF n = 0 THEN rs
                                 ELSE MoveGroupOf(f[n - 1], n - 1, moving)
    BY <1>4, <2>1, <2>2
  <2> QED BY <2>1, <2>3
<1> DEFINE h == CHOOSE x : IsAfter(x)
<1>9. IsAfter(h)
  <2> HIDE DEF IsAfter
  <2> QED BY <1>8
<1>10. MoveGroup(rs, moving) = h[N]
  BY DEF MoveGroup, N
<1> HIDE DEF h
<1>11. h[0] \in J[0] /\ \A n \in 1 .. N : h[n - 1] \in J[n - 1] => h[n] \in J[n]
  <2>1. \A n \in 0 .. N : h[n] = IF n = 0 THEN rs
                                 ELSE MoveGroupOf(h[n - 1], n - 1, moving)
    BY <1>9
  <2>2. h[0] \in J[0]
    BY <1>4, <1>6, <2>1
  <2>3. ASSUME NEW n \in 1 .. N, h[n - 1] \in J[n - 1] PROVE h[n] \in J[n]
    <3>1. h[n - 1] \in K
      BY <1>4, <1>5, <2>3
    <3>2. h[n] = MoveGroupOf(h[n - 1], n - 1, moving)
      BY <1>4, <2>1
    <3> QED BY <1>3, <1>4, <1>5, <3>1, <3>2
  <2> QED BY <2>2, <2>3
<1>12. \A n \in 0 .. N : h[n] \in J[n]
  BY <1>1, <1>11, LoopInvariant
<1> QED BY <1>4, <1>5, <1>10, <1>12 DEF K

-----------------------------------------------------------------------------
(* The predicate action and clearing *)

\* A slice that moves as a whole.
LEMMA WholePart ==
    ASSUME NEW done, NEW bound, NEW s \in Slices(done, bound)
    PROVE PartOf(Split(<<>>, <<s>>), s, done, bound)
<1> DEFINE T == Slices(done, bound)
           move == <<s>>
           stay == <<>>
<1>1. /\ stay \in Lists(T) /\ Range(stay) = {}
      /\ move \in Lists(T) /\ Range(move) = {s}
  BY SmallLists
<1> HIDE DEF stay, move
<1>2. s.min <= s.min /\ s.max <= s.max
  BY SliceElim, SMT
<1>3. \A x \in Range(stay) \cup Range(move) : s.min <= x.min /\ x.max <= s.max
  BY <1>1, <1>2
<1>4. Held({s}) \ done \subseteq Held(Range(stay)) \cup Held(Range(move))
  BY <1>1
<1>5. PartOf(Split(stay, move), s, done, bound)
  BY <1>1, <1>3, <1>4, SplitFacts
<1> QED BY <1>5 DEF stay, move

\* slicePredicateAction loses no task.
LEMMA SlicePredicateFacts ==
    ASSUME NEW S, NEW done, NEW bound \in Nat, NEW rs \in Keeping(S, done, bound)
    PROVE SlicePredicate(rs) \in Keeping(S, done, bound)
<1> DEFINE r == DefaultReaderId
           slices == rs[r].slices
           parts == [i \in DOMAIN slices |->
                    IF slices[i].groups = Universal THEN Untouched(slices[i])
                    ELSE Split(<<>>, <<slices[i]>>)]
           new == MoveTo(Stay(rs, r, parts), r + 1, Moved(parts))
<1>1. rs \in ReaderMaps(done, bound)
  BY DEF Keeping
<1>2. \/ SlicePredicate(rs) = rs
      \/ r \in DOMAIN rs /\ SlicePredicate(rs) = new
  BY DEF SlicePredicate
<1> SUFFICES ASSUME r \in DOMAIN rs PROVE new \in Keeping(S, done, bound)
  BY <1>2
<1>3. \A i \in DOMAIN slices : slices[i] \in Slices(done, bound)
  BY <1>1, ListOfReader
<1>4. ASSUME NEW i \in DOMAIN slices
      PROVE PartOf(parts[i], slices[i], done, bound)
  <2>1. \/ parts[i] = Untouched(slices[i])
        \/ parts[i] = Split(<<>>, <<slices[i]>>)
    OBVIOUS
  <2>2. /\ PartOf(Untouched(slices[i]), slices[i], done, bound)
        /\ PartOf(Split(<<>>, <<slices[i]>>), slices[i], done, bound)
    BY <1>3, UntouchedFacts, WholePart
  <2> HIDE DEF parts
  <2> QED BY <2>1, <2>2
<1>5. parts = [i \in DOMAIN slices |-> parts[i]]
  OBVIOUS
<1> HIDE DEF parts
<1>6. r + 1 \in ReaderIDs
  BY NextReader DEF DefaultReaderId
<1> HIDE DEF r
<1>7. new \in ReaderMaps(done, bound) /\ HeldBy(rs) \ done \subseteq HeldBy(new)
  BY <1>1, <1>4, <1>5, <1>6, SplitAndMoveFacts
<1> HIDE DEF new
<1> QED BY <1>7, KeepingFacts

\* splitAndClearSlice for all readers loses no task.
LEMMA SplitAndClearFacts ==
    ASSUME NEW S, NEW done, NEW bound \in Nat, NEW rs \in Keeping(S, done, bound),
           NEW toClear, NEW order \in [1 .. MaxReaderCount -> ReaderIDs]
    PROVE SplitAndClear(rs, toClear, order) \in Keeping(S, done, bound)
\* splitAndClearSlice for one reader loses no task.
<1>ClearOfFacts.
      ASSUME NEW rs2 \in Keeping(S, done, bound), NEW r \in ReaderIDs,
             NEW toClear1
      PROVE ClearOf(rs2, r, toClear1) \in Keeping(S, done, bound)
  <2> USE <1>ClearOfFacts
  \* A reader is replaced by one that covers what it did.
  <2>WithListFacts.
        ASSUME NEW bound1, NEW rs1 \in Keeping(S, done, bound1),
               NEW r1 \in DOMAIN rs1, NEW x \in ReaderSet(done, bound1),
               Held(Range(rs1[r1].slices)) \ done \subseteq Held(Range(x.slices))
        PROVE WithReader(rs1, r1, x) \in Keeping(S, done, bound1)
    <3> USE <2>WithListFacts
    <3> DEFINE w == WithReader(rs1, r1, x)
    <3>1. rs1 \in ReaderMaps(done, bound1)
      BY DEF Keeping
    <3>2. r1 \in ReaderIDs
      BY <3>1, ReaderMapElim
    <3>3. /\ w \in ReaderMaps(done, bound1)
          /\ Held(Range(x.slices)) \subseteq HeldBy(w)
          /\ \A k \in HeldBy(rs1) :
                \/ k \in HeldBy(w)
                \/ r1 \in DOMAIN rs1 /\ k \in Held(Range(rs1[r1].slices))
      BY <3>1, <3>2, WithReaderFacts
    <3> HIDE DEF w
    <3>4. HeldBy(rs1) \ done \subseteq HeldBy(w)
      BY <3>3
    <3>5. w \in Keeping(S, done, bound1)
      BY <3>3, <3>4, KeepingFacts
    <3> QED BY <3>5 DEF w
  \* Clear drops the executables, and the slice reads them again.
  <2>ClearFacts.
        ASSUME NEW s \in Slices(done, bound)
        PROVE LET t == Clear(s)
              IN /\ t \in Slices(done, bound) /\ s.min <= t.min /\ t.max = s.max
                 /\ \A k \in Keys \ done : Covers(s, k) => Covers(t, k)
    <3> USE <2>ClearFacts
    <3> DEFINE u == ShrinkScope(s)
               all == NewRange(u.min, u.max)
               t == Clear(s)
    <3>1. /\ u \in Slices(done, bound) /\ s.min <= u.min /\ u.max = s.max
          /\ \A k \in Keys \ done : Covers(s, k) => Covers(u, k)
      BY ShrinkScopeFacts
    <3>2. t = [u EXCEPT !.iters = {all}, !.pending = {}, !.acked = {},
                        !.recounted = {}]
      BY DEF Clear
    <3> HIDE DEF u, t
    <3>3. /\ u \in SliceSet /\ u.min \in Nat /\ u.max \in Nat
          /\ 1 <= u.min /\ u.min <= u.max /\ u.max <= bound
      BY <3>1, SliceElim
    <3>4. all \in KeyRange /\ all.min = u.min /\ all.max = u.max
      BY <3>3, RangeFacts
    <3> HIDE DEF all
    <3>5. /\ {all} \in SUBSET KeyRange /\ {} \in SUBSET Keys /\ {} \in SUBSET Universal
          /\ \A it \in {all} : it = all
      BY <3>4
    <3>6. /\ t \in SliceSet /\ t.min = u.min /\ t.max = u.max /\ t.groups = u.groups
          /\ t.iters = {all} /\ t.pending = {} /\ t.acked = {}
      BY <3>2, <3>3, <3>5 DEF SliceSet
    <3>7. u.min <= u.min /\ u.max <= u.max
      BY <3>3, SMT
    <3>8. \A it \in t.iters : t.min <= it.min /\ it.min <= it.max /\ it.max <= t.max
      BY <3>3, <3>4, <3>5, <3>6, <3>7
    <3>9. /\ \A k \in t.pending : t.min <= k /\ k < t.max /\ GroupOf[k] \in t.groups
          /\ t.acked \subseteq done
      BY <3>6
    <3>10. t \in Slices(done, bound)
      BY <3>3, <3>6, <3>8, <3>9, SliceGood
    <3>11. ASSUME NEW k \in Keys \ done, Covers(s, k)
           PROVE Covers(t, k)
      <4>1. u.min <= k /\ k < u.max /\ GroupOf[k] \in u.groups
        BY <3>1, <3>11, CoveredInScope DEF InScope, ContainsKey
      <4>2. all \in t.iters /\ all.min <= k /\ k < all.max
        BY <3>4, <3>6, <4>1
      <4> QED BY <3>6, <4>1, <4>2, CoversCases
    <3> QED BY <3>1, <3>6, <3>10, <3>11 DEF t
  <2> DEFINE slices == rs2[r].slices
             cleared == [i \in DOMAIN slices |->
              IF GroupsToClear(toClear1, r, slices[i]) # {} THEN Clear(slices[i])
              ELSE slices[i]]
             parts == [i \in DOMAIN slices |->
              LET groups == GroupsToClear(toClear1, r, slices[i])
                  split == SplitByPredicate(slices[i], groups)
              IN IF groups = {} THEN Untouched(slices[i])
                 ELSE Split(<<split.fail>>, <<Clear(split.pass)>>)]
             rest == Stay(rs2, r, parts)
             new == MoveTo(rest, r + 1, Moved(parts))
             last == WithReader(rs2, r, Reset(cleared))
  <2>1. rs2 \in ReaderMaps(done, bound)
    BY DEF Keeping
  <2>2. \/ ClearOf(rs2, r, toClear1) = rs2
        \/ r \in DOMAIN rs2 /\ ClearOf(rs2, r, toClear1) = last
        \/ /\ r \in DOMAIN rs2 /\ r # MaxReaderCount - 1 /\ Moved(parts) = <<>>
           /\ ClearOf(rs2, r, toClear1) = rest
        \/ /\ r \in DOMAIN rs2 /\ r # MaxReaderCount - 1
           /\ ClearOf(rs2, r, toClear1) = new
    BY DEF ClearOf
  <2>3. ASSUME r \in DOMAIN rs2
        PROVE \A i \in DOMAIN slices : slices[i] \in Slices(done, bound)
    BY <2>1, <2>3, ListOfReader
  <2>4. ASSUME r \in DOMAIN rs2 PROVE last \in Keeping(S, done, bound)
    <3>1. slices \in Lists(Slices(done, bound))
      BY <2>1, <2>4, ListOfReader
    <3>2. ASSUME NEW i \in DOMAIN slices
          PROVE /\ cleared[i] \in Slices(done, bound)
                /\ cleared[i].min \in Nat /\ cleared[i].max \in Nat
                /\ slices[i].min <= cleared[i].min /\ cleared[i].max <= slices[i].max
                /\ \A k \in Keys \ done : Covers(slices[i], k) => Covers(cleared[i], k)
      <4> DEFINE s == slices[i]
                 t == Clear(s)
                 c == cleared[i]
      <4>1. s \in Slices(done, bound)
        BY <2>3, <2>4
      <4>2. c = s \/ c = t
        OBVIOUS
      <4> HIDE DEF s, c
      <4>3. /\ t \in Slices(done, bound) /\ s.min <= t.min /\ t.max = s.max
            /\ \A k \in Keys \ done : Covers(s, k) => Covers(t, k)
        BY <4>1, <2>ClearFacts
      <4> HIDE DEF t
      <4>4. /\ s.min \in Nat /\ s.max \in Nat /\ t.min \in Nat /\ t.max \in Nat
        BY <4>1, <4>3, SliceElim
      <4>5. s.min <= s.min /\ s.max <= s.max /\ t.max <= s.max
        BY <4>3, <4>4, SMT
      <4>6. /\ c \in Slices(done, bound)
            /\ c.min \in Nat /\ c.max \in Nat
            /\ s.min <= c.min /\ c.max <= s.max
            /\ \A k \in Keys \ done : Covers(s, k) => Covers(c, k)
        BY <4>1, <4>2, <4>3, <4>4, <4>5
      <4> QED BY <4>6 DEF s, c
    <3>3. cleared = [i \in DOMAIN slices |-> cleared[i]]
      OBVIOUS
    <3> HIDE DEF cleared
    <3>4. cleared \in Lists(Slices(done, bound)) /\ DOMAIN cleared = DOMAIN slices
      BY <3>1, <3>2, <3>3, ReplaceInPlace
    <3>5. Held(Range(slices)) \ done \subseteq Held(Range(cleared))
      BY <3>2, <3>4, HeldInPlace
    <3> DEFINE x == Reset(cleared)
    <3>6. x \in ReaderSet(done, bound) /\ x.slices = cleared
      BY <3>4, ResetFacts
    <3> HIDE DEF x
    <3>7. WithReader(rs2, r, x) \in Keeping(S, done, bound)
      BY <2>4, <3>5, <3>6, <2>WithListFacts
    <3> QED BY <3>7 DEF x
  <2>5. ASSUME r \in DOMAIN rs2, r # MaxReaderCount - 1
        PROVE /\ Moved(parts) = <<>> => rest \in Keeping(S, done, bound)
              /\ new \in Keeping(S, done, bound)
    <3>1. ASSUME NEW i \in DOMAIN slices
          PROVE PartOf(parts[i], slices[i], done, bound)
      <4> DEFINE s == slices[i]
                 groups == GroupsToClear(toClear1, r, slices[i])
                 split == SplitByPredicate(s, groups)
                 t == Clear(split.pass)
      <4>1. \/ parts[i] = Untouched(s)
            \/ parts[i] = Split(<<split.fail>>, <<t>>)
        OBVIOUS
      <4>2. s \in Slices(done, bound)
        BY <2>3, <2>5
      <4> HIDE DEF s, groups
      <4>3. PartOf(Untouched(s), s, done, bound)
        BY <4>2, UntouchedFacts
      <4>4. PartOf(Split(<<split.fail>>, <<t>>), s, done, bound)
        <5> DEFINE pass == split.pass
        <5>1. pass \in Slices(done, bound) /\ pass.min = s.min /\ pass.max = s.max
          BY <4>2, SplitByPredicateFacts, SMT
        <5> HIDE DEF pass
        <5>2. /\ t \in Slices(done, bound) /\ pass.min <= t.min /\ t.max = pass.max
              /\ \A k \in Keys \ done : Covers(pass, k) => Covers(t, k)
          <6> DEFINE u == Clear(pass)
          <6>1. /\ u \in Slices(done, bound) /\ pass.min <= u.min /\ u.max = pass.max
                /\ \A k \in Keys \ done : Covers(pass, k) => Covers(u, k)
            BY <5>1, <2>ClearFacts
          <6> QED BY <6>1 DEF pass
        <5> HIDE DEF t
        <5>3. s.max \in Nat
          BY <4>2, SliceElim
        <5>4. s.min <= t.min /\ t.max <= s.max
          BY <5>1, <5>2, <5>3, SMT
        <5>5. \A k \in Keys \ done :
                Covers(SplitByPredicate(s, groups).pass, k) => Covers(t, k)
          BY <5>2 DEF pass
        <5> QED BY <4>2, <5>2, <5>4, <5>5, PredicatePart
      <4>5. PartOf(parts[i], s, done, bound)
        <5> HIDE DEF split, parts, t
        <5> QED BY <4>1, <4>3, <4>4
      <4> QED BY <4>5 DEF s
    <3>2. parts = [i \in DOMAIN slices |-> parts[i]]
      OBVIOUS
    <3>3. r + 1 \in ReaderIDs
      BY <2>5, NextReader
    <3> HIDE DEF parts
    <3>4. /\ new \in ReaderMaps(done, bound) /\ HeldBy(rs2) \ done \subseteq HeldBy(new)
          /\ rest \in ReaderMaps(done, bound)
          /\ Moved(parts) = <<>> => HeldBy(rs2) \ done \subseteq HeldBy(rest)
      BY <2>1, <2>5, <3>1, <3>2, <3>3, SplitAndMoveFacts
    <3> HIDE DEF new, rest
    <3> QED BY <3>4, KeepingFacts
  <2> HIDE DEF new, rest, last, parts
  <2> QED BY <2>2, <2>4, <2>5
<1> DEFINE N == MaxReaderCount
           K == Keeping(S, done, bound)
           J == [n \in 0 .. N |-> K]
           step == [n \in 1 .. N |-> [x \in K |-> ClearOf(x, order[n], toClear)]]
           IsAfter(f) == f = [n \in 0 .. N |->
                                IF n = 0 THEN rs
                                ELSE ClearOf(f[n - 1], order[n], toClear)]
<1>1. N \in Nat
  BY NextReader
<1>2. \A n \in 1 .. N : order[n] \in ReaderIDs
  OBVIOUS
<1>3. \A n \in 1 .. N : \A x \in K : ClearOf(x, order[n], toClear) \in K
  BY <1>2, <1>ClearOfFacts
<1>4. /\ \A n \in 1 .. N : n \in 0 .. N /\ n - 1 \in 0 .. N /\ n # 0
      /\ 0 \in 0 .. N /\ N \in 0 .. N
      /\ \A n \in 0 .. N : n # 0 => n \in 1 .. N
  BY <1>1, SMT
<1>10. SplitAndClear(rs, toClear, order) = (CHOOSE x : IsAfter(x))[N]
  BY DEF SplitAndClear
<1> HIDE DEF N, K
<1>5. /\ \A n \in 0 .. N : J[n] = K
      /\ \A n \in 1 .. N : \A x \in K : step[n][x] = ClearOf(x, order[n], toClear)
  OBVIOUS
<1>0. rs \in K
  BY DEF K
<1>6. rs \in J[0] /\ \A n \in 1 .. N : \A x \in J[n - 1] : step[n][x] \in J[n]
  BY <1>0, <1>3, <1>4, <1>5
<1> HIDE DEF J, step
<1>7. PICK f : IsLoop(f, N, rs, step) /\ \A n \in 0 .. N : f[n] \in J[n]
  BY <1>1, <1>6, LoopRuns
<1>8. IsAfter(f)
  <2>1. /\ f = [n \in 0 .. N |-> f[n]] /\ f[0] = rs
        /\ \A n \in 1 .. N : f[n] = step[n][f[n - 1]]
    BY <1>7 DEF IsLoop
  <2>4. \A n \in 1 .. N : f[n - 1] \in K
    BY <1>4, <1>5, <1>7
  <2>2. \A n \in 1 .. N : f[n] = ClearOf(f[n - 1], order[n], toClear)
    BY <1>5, <2>1, <2>4
  <2>3. \A n \in 0 .. N : f[n] = IF n = 0 THEN rs
                                 ELSE ClearOf(f[n - 1], order[n], toClear)
    BY <1>4, <2>1, <2>2
  <2> QED BY <2>1, <2>3
<1> DEFINE h == CHOOSE x : IsAfter(x)
<1>9. IsAfter(h)
  <2> HIDE DEF IsAfter
  <2> QED BY <1>8
<1>13. SplitAndClear(rs, toClear, order) = h[N]
  BY <1>10
<1> HIDE DEF h
<1>11. h[0] \in J[0] /\ \A n \in 1 .. N : h[n - 1] \in J[n - 1] => h[n] \in J[n]
  <2>1. \A n \in 0 .. N : h[n] = IF n = 0 THEN rs
                                 ELSE ClearOf(h[n - 1], order[n], toClear)
    BY <1>9
  <2>2. h[0] \in J[0]
    BY <1>4, <1>6, <2>1
  <2>3. ASSUME NEW n \in 1 .. N, h[n - 1] \in J[n - 1] PROVE h[n] \in J[n]
    <3>1. h[n - 1] \in K
      BY <1>4, <1>5, <2>3
    <3>2. h[n] = ClearOf(h[n - 1], order[n], toClear)
      BY <1>4, <2>1
    <3> QED BY <1>3, <1>4, <1>5, <3>1, <3>2
  <2> QED BY <2>2, <2>3
<1>12. \A n \in 0 .. N : h[n] \in J[n]
  BY <1>1, <1>11, LoopInvariant
<1> QED BY <1>4, <1>5, <1>12, <1>13 DEF K

-----------------------------------------------------------------------------
(* Shrinking and compacting *)

\* Lists over a larger set of slices.
LEMMA ListsGrow ==
    ASSUME NEW A, NEW B, A \subseteq B
    PROVE Lists(A) \subseteq Lists(B)
<1>1. Seq(A) \subseteq Seq(B)
  BY SMT
<1> QED BY <1>1 DEF Lists

\* A change of every reader that loses nothing in any of them.
LEMMA EachReader ==
    ASSUME NEW S, NEW done, NEW bound, NEW rs \in Keeping(S, done, bound), NEW new,
           new = [r \in DOMAIN rs |-> new[r]],
           \A r \in DOMAIN rs :
              /\ new[r] \in ReaderSet(done, bound)
              /\ Held(Range(rs[r].slices)) \ done \subseteq Held(Range(new[r].slices))
    PROVE new \in Keeping(S, done, bound)
<1>1. rs \in ReaderMaps(done, bound)
  BY DEF Keeping
<1>2. DOMAIN rs \in SUBSET ReaderIDs /\ DOMAIN new = DOMAIN rs
  BY <1>1, ReaderMapElim
<1>3. new \in ReaderMaps(done, bound)
  BY <1>2, ReaderMapIntro
<1>4. HeldBy(rs) \ done \subseteq HeldBy(new)
  BY <1>2 DEF HeldBy
<1> QED BY <1>3, <1>4, KeepingFacts

\* ShrinkSlices of all readers loses nothing.
LEMMA ShrunkFacts ==
    ASSUME NEW S, NEW done, NEW bound \in Nat, NEW rs \in Keeping(S, done, bound)
    PROVE Shrunk(rs) \in Keeping(S, done, bound)
\* ShrinkSlices of a reader: in order, nextReadSlice in the list, and nothing is
\* lost that is not executed.
<1>ShrinkSlicesFacts.
      ASSUME NEW x \in ReaderSet(done, bound)
      PROVE /\ ShrinkSlices(x) \in ReaderSet(done, bound)
            /\ Held(Range(x.slices)) \ done \subseteq Held(Range(ShrinkSlices(x).slices))
  <2> USE <1>ShrinkSlicesFacts
  \* The slices that are not empty in the first part of a list are the first ones:
  \* nextReadSlice stays an element of the list in ShrinkSlices.
  <2>NonEmptyOfPrefix.
        ASSUME NEW T, NEW l \in Seq(T), NEW p \in 1 .. Len(l)
        PROVE Len(NonEmpty(SubSeq(l, 1, p))) \in 0 .. Len(NonEmpty(l))
    <3> USE <2>NonEmptyOfPrefix
    <3> DEFINE Part(x1) == IF IsEmpty(x1) THEN <<>> ELSE <<x1>>
               h == SubSeq(l, 1, p)
               lists == [i \in DOMAIN l |-> Part(l[i])]
               heads == [i \in DOMAIN h |-> Part(h[i])]
               N == Len(l)
    <3>1. /\ N \in Nat /\ p \in Nat /\ 1 <= p /\ p <= N /\ Len(h) = p /\ h \in Seq(T)
          /\ DOMAIN h = 1 .. p /\ DOMAIN l = 1 .. N
          /\ \A i \in 1 .. p : h[i] = l[i]
      BY SMT
    <3> HIDE DEF h, N
    <3>2. \A i \in 1 .. p : i \in DOMAIN l
      BY <3>1, SMT
    <3>3. \A i \in 1 .. p : heads[i] = lists[i]
      BY <3>1, <3>2
    <3>4. lists \in Seq(Seq(T)) /\ Len(lists) = N /\ NonEmpty(l) = Joined(lists)
      BY NonEmptyParts DEF N
    <3>5. heads \in Seq(Seq(T)) /\ Len(heads) = p /\ NonEmpty(h) = Joined(heads)
      BY <3>1, NonEmptyParts
    <3> HIDE DEF heads, lists
    <3>6. PICK g : /\ g[0] = <<>> /\ g[0] \in Seq(T)
                   /\ \A n \in 1 .. N : /\ g[n] = g[n - 1] \o lists[n]
                                        /\ g[n] \in Seq(T)
                   /\ Joined(lists) = g[N]
      BY <3>4, JoinedLoop
    <3>7. PICK f : /\ f[0] = <<>>
                   /\ \A n \in 1 .. p : /\ f[n] = f[n - 1] \o heads[n]
                                        /\ f[n] \in Seq(T)
                   /\ Joined(heads) = f[p]
      BY <3>5, JoinedLoop
    <3> DEFINE J == [n \in 0 .. p |-> {g[n]}]
    <3>8. f[0] \in J[0] /\ \A n \in 1 .. p : f[n - 1] \in J[n - 1] => f[n] \in J[n]
      <4>1. 0 \in 0 .. p /\ \A n \in 1 .. p : n \in 0 .. p /\ n - 1 \in 0 .. p /\ n \in 1 .. N
        BY <3>1, SMT
      <4> QED BY <3>3, <3>6, <3>7, <4>1
    <3>9. \A n \in 0 .. p : f[n] \in J[n]
      <4> HIDE DEF J
      <4> QED BY <3>1, <3>8, LoopInvariant
    <3>10. p \in 0 .. p /\ p \in 1 .. N
      BY <3>1, SMT
    <3>11. f[p] = g[p] /\ g[p] \in Seq(T)
      BY <3>6, <3>9, <3>10
    <3> DEFINE K == [n \in 0 .. N |-> {x1 \in Seq(T) : n >= p => Len(x1) >= Len(g[p])}]
    <3>12. /\ g[0] \in K[0]
           /\ \A n \in 1 .. N : g[n - 1] \in K[n - 1] => g[n] \in K[n]
      <4>1. 0 \in 0 .. N /\ ~(0 >= p)
        BY <3>1, SMT
      <4>2. ASSUME NEW n \in 1 .. N, g[n - 1] \in K[n - 1] PROVE g[n] \in K[n]
        <5>1. n \in 0 .. N /\ n - 1 \in 0 .. N /\ (n >= p => n = p \/ n - 1 >= p)
          BY <3>1, SMT
        <5>2. g[n - 1] \in Seq(T) /\ (n - 1 >= p => Len(g[n - 1]) >= Len(g[p]))
          BY <4>2, <5>1
        <5>3. lists[n] \in Seq(T) /\ g[n] = g[n - 1] \o lists[n] /\ g[n] \in Seq(T)
          BY <3>4, <3>6, SMT
        <5>4. Len(g[n]) = Len(g[n - 1]) + Len(lists[n]) /\ Len(lists[n]) \in Nat
              /\ Len(g[n - 1]) \in Nat /\ Len(g[p]) \in Nat
          BY <3>11, <5>2, <5>3, SMT
        <5>5. n >= p => Len(g[n]) >= Len(g[p])
          <6>1. ASSUME n - 1 >= p PROVE Len(g[n]) >= Len(g[p])
            <7>1. \A a, b, c \in Nat : a >= c => a + b >= c
              BY SMT
            <7> QED BY <5>2, <5>4, <6>1, <7>1
          <6>2. ASSUME n = p PROVE Len(g[n]) >= Len(g[p])
            <7>1. Len(g[p]) >= Len(g[p])
              BY <5>4, SMT
            <7> QED BY <6>2, <7>1
          <6> QED BY <5>1, <6>1, <6>2
        <5> QED BY <5>1, <5>3, <5>5
      <4> QED BY <3>6, <4>1, <4>2
    <3>13. \A n \in 0 .. N : g[n] \in K[n]
      <4> HIDE DEF K
      <4> QED BY <3>1, <3>12, LoopInvariant
    <3>14. N \in 0 .. N /\ N >= p
      BY <3>1, SMT
    <3>15. g[N] \in Seq(T) /\ Len(g[N]) >= Len(g[p])
      BY <3>13, <3>14
    <3>16. Len(g[p]) \in 0 .. Len(g[N])
      BY <3>11, <3>15, SMT
    <3>17. NonEmpty(l) = g[N] /\ NonEmpty(h) = g[p]
      BY <3>4, <3>5, <3>6, <3>7, <3>11
    <3> QED BY <3>16, <3>17 DEF h
  <2> DEFINE T == Slices(done, bound)
             l == x.slices
             n == x.next
             shrunk == [i \in DOMAIN l |-> ShrinkScope(l[i])]
             gone == n = 0 \/ (n # 0 /\ IsEmpty(shrunk[n]))
             left == NonEmpty(shrunk)
             m == IF gone THEN 0 ELSE Len(NonEmpty(SubSeq(shrunk, 1, n)))
             y == ShrinkSlices(x)
  <2>1. /\ l \in Lists(T) /\ n \in Nat /\ n <= Len(l) /\ Len(l) \in Nat
    BY ReaderElim
  <2>2. y = [slices |-> left, next |-> m]
    BY DEF ShrinkSlices
  <2> HIDE DEF y, l
  <2>3. ASSUME NEW i \in DOMAIN l
        PROVE /\ shrunk[i] \in T
              /\ shrunk[i].min \in Nat /\ shrunk[i].max \in Nat
              /\ l[i].min <= shrunk[i].min /\ shrunk[i].max <= l[i].max
              /\ \A k \in Keys \ done : Covers(l[i], k) => Covers(shrunk[i], k)
    <3> DEFINE s == l[i]
               t == ShrinkScope(s)
               c == shrunk[i]
    <3>1. s \in T
      <4> DEFINE Q == T
      <4>1. Q \in SUBSET Slices(done, bound) /\ l \in Lists(Q)
        BY <2>1
      <4> HIDE DEF Q
      <4>2. s \in Slices(done, bound)
        BY <4>1, ListElements
      <4> QED BY <4>2
    <3>2. c = t
      OBVIOUS
    <3> HIDE DEF s, c
    <3>3. /\ t \in Slices(done, bound) /\ s.min <= t.min /\ t.max = s.max
          /\ \A k \in Keys \ done : Covers(s, k) => Covers(t, k)
      BY <3>1, ShrinkScopeFacts
    <3> HIDE DEF t
    <3>4. s.min \in Nat /\ s.max \in Nat /\ t.min \in Nat /\ t.max \in Nat
      BY <3>1, <3>3, SliceElim
    <3>5. t.max <= s.max
      BY <3>3, <3>4, SMT
    <3>6. /\ c \in T
          /\ c.min \in Nat /\ c.max \in Nat
          /\ s.min <= c.min /\ c.max <= s.max
          /\ \A k \in Keys \ done : Covers(s, k) => Covers(c, k)
      BY <3>1, <3>2, <3>3, <3>4, <3>5
    <3> QED BY <3>6 DEF s, c
  <2>4. shrunk = [i \in DOMAIN l |-> shrunk[i]]
    OBVIOUS
  <2> HIDE DEF shrunk
  <2>5. /\ shrunk \in Lists(T) /\ DOMAIN shrunk = DOMAIN l /\ Len(shrunk) = Len(l)
    <3> DEFINE Q == T
    <3>1. \A i \in DOMAIN l : /\ shrunk[i] \in Q
                              /\ shrunk[i].min \in Nat /\ shrunk[i].max \in Nat
                              /\ l[i].min <= shrunk[i].min /\ shrunk[i].max <= l[i].max
      BY <2>3
    <3> HIDE DEF Q
    <3>2. shrunk \in Lists(Q) /\ DOMAIN shrunk = DOMAIN l /\ Len(shrunk) = Len(l)
      BY <2>1, <2>4, <3>1, ReplaceInPlace
    <3> QED BY <3>2 DEF Q
  <2>6. Held(Range(l)) \ done \subseteq Held(Range(shrunk))
    BY <2>3, <2>5, HeldInPlace
  <2>7. left \in Lists(Full(done, bound)) /\ Held(Range(left)) = Held(Range(shrunk))
    BY <2>5, NonEmptyFacts
  <2>8. left \in Lists(T)
    <3>1. Full(done, bound) \subseteq T
      BY DEF Full
    <3>2. Lists(Full(done, bound)) \subseteq Lists(T)
      BY <3>1, ListsGrow
    <3> QED BY <2>7, <3>2
  <2>9. Len(left) \in Nat /\ m \in Nat /\ m <= Len(left)
    <3>1. left \in Seq(T) /\ shrunk \in Seq(T)
      BY <2>5, <2>8 DEF Lists
    <3>2. Len(left) \in Nat
      <4> HIDE DEF left, T
      <4> QED BY <3>1, SMT
    <3>3. CASE gone
      <4>1. m = 0
        BY <3>3
      <4> QED BY <3>2, <4>1, SMT
    <3>4. CASE ~gone
      <4>1. n # 0 /\ m = Len(NonEmpty(SubSeq(shrunk, 1, n)))
        BY <3>4
      <4>2. n \in 1 .. Len(shrunk)
        BY <2>1, <2>5, <4>1, SMT
      <4>3. Len(NonEmpty(SubSeq(shrunk, 1, n))) \in 0 .. Len(left)
        BY <3>1, <4>2, <2>NonEmptyOfPrefix
      <4> HIDE DEF left, m
      <4> QED BY <3>2, <4>1, <4>3, SMT
    <3> QED BY <3>3, <3>4
  <2> HIDE DEF left, m
  <2>10. y.slices = left /\ y.next = m
    BY <2>2
  <2>11. y \in [slices : Lists(Slices(done, bound)), next : Nat]
    BY <2>2, <2>8, <2>9
  <2>12. y \in ReaderSet(done, bound)
    BY <2>9, <2>10, <2>11 DEF ReaderSet
  <2>13. Held(Range(l)) \ done \subseteq Held(Range(y.slices))
    BY <2>6, <2>7, <2>10
  <2> QED BY <2>12, <2>13 DEF y, l
<1> DEFINE new == Shrunk(rs)
<1>1. rs \in ReaderMaps(done, bound)
  BY DEF Keeping
<1>2. \A r \in DOMAIN rs : rs[r] \in ReaderSet(done, bound)
  BY <1>1, ReaderMapElim
<1>3. new = [r \in DOMAIN rs |-> new[r]]
      /\ \A r \in DOMAIN rs : new[r] = ShrinkSlices(rs[r])
  BY DEF Shrunk
<1> HIDE DEF new
<1>4. \A r \in DOMAIN rs :
        /\ new[r] \in ReaderSet(done, bound)
        /\ Held(Range(rs[r].slices)) \ done \subseteq Held(Range(new[r].slices))
  <2> SUFFICES ASSUME NEW r \in DOMAIN rs
               PROVE /\ new[r] \in ReaderSet(done, bound)
                     /\ Held(Range(rs[r].slices)) \ done
                           \subseteq Held(Range(new[r].slices))
    OBVIOUS
  <2> DEFINE x == rs[r]
             y == ShrinkSlices(x)
  <2>1. x \in ReaderSet(done, bound)
    BY <1>2
  <2> HIDE DEF x
  <2>2. /\ y \in ReaderSet(done, bound)
        /\ Held(Range(x.slices)) \ done \subseteq Held(Range(y.slices))
    BY <2>1, <1>ShrinkSlicesFacts
  <2>3. new[r] = y
    BY <1>3 DEF x
  <2> HIDE DEF y
  <2> QED BY <2>2, <2>3 DEF x
<1>5. new \in Keeping(S, done, bound)
  BY <1>3, <1>4, EachReader
<1> QED BY <1>5 DEF new

\* What CompactSlices has made of the first n slices.
Compacted(slices, n, done, bound) ==
    {l \in Lists(Slices(done, bound)) :
        /\ n # 0 => l # <<>>
        /\ n = 0 => l = <<>>
        /\ \A x \in Range(l) : x.max <= slices[n].max
        /\ \A i \in 1 .. n : Held({slices[i]}) \subseteq Held(Range(l))}

\* CompactSlices: whichever slices but the first are merged into the one before
\* them, the list stays in order and loses nothing.
LEMMA CompactSlicesFacts ==
    ASSUME NEW done, NEW bound \in Nat, NEW slices \in Lists(Slices(done, bound)),
           NEW chosen, 1 \notin chosen
    PROVE /\ CompactSlices(slices, chosen) \in Lists(Slices(done, bound))
          /\ Held(Range(slices)) \subseteq Held(Range(CompactSlices(slices, chosen)))
\* A turn of CompactSlices.
<1>CompactTurnFacts.
      ASSUME NEW slices1 \in Lists(Slices(done, bound)), NEW chosen1,
             1 \notin chosen1, NEW n \in DOMAIN slices1,
             NEW l \in Compacted(slices1, n - 1, done, bound)
      PROVE (IF n \in chosen1 THEN CompactLast(l, slices1[n])
             ELSE Append(l, slices1[n])) \in Compacted(slices1, n, done, bound)
  <2> USE <1>CompactTurnFacts
  \* CompactSlices: a slice after all of a list is appended.
  <2>AppendNextFacts.
        ASSUME NEW l2 \in Lists(Slices(done, bound)),
               NEW s \in Slices(done, bound),
               \A x \in Range(l2) : x.max <= s.min
        PROVE LET new == Append(l2, s)
              IN /\ new \in Lists(Slices(done, bound)) /\ new # <<>>
                 /\ \A x \in Range(new) : x.max <= s.max
                 /\ Held(Range(l2)) \cup Held({s}) \subseteq Held(Range(new))
    <3> USE <2>AppendNextFacts
    <3> DEFINE T == Slices(done, bound)
               new == Append(l2, s)
    <3>1. Before(Range(l2), {s})
      BY DEF Before
    <3>2. new \in Lists(T) /\ Range(new) = Range(l2) \cup {s} /\ new # <<>>
      BY <3>1, AppendInOrder, SMT
    <3> HIDE DEF new
    <3>3. Range(l2) \subseteq T
      <4> DEFINE Q == T
      <4>1. Q \in SUBSET Slices(done, bound) /\ l2 \in Lists(Q)
        OBVIOUS
      <4> HIDE DEF Q
      <4>2. Range(l2) \subseteq Q
        BY <4>1, ListElements
      <4> QED BY <4>2 DEF Q
    <3>4. s.min \in Nat /\ s.max \in Nat /\ s.min <= s.max
      BY SliceElim
    <3>5. ASSUME NEW x \in Range(l2) PROVE x.max <= s.max
      <4>1. x.max \in Nat /\ x.max <= s.min
        BY <3>3, SliceElim
      <4> QED BY <3>4, <4>1, SMT
    <3>6. s.max <= s.max
      BY <3>4, SMT
    <3>7. \A x \in Range(new) : x.max <= s.max
      BY <3>2, <3>5, <3>6
    <3>8. Held(Range(l2)) \cup Held({s}) \subseteq Held(Range(new))
      BY <3>2 DEF Held
    <3> QED BY <3>2, <3>7, <3>8 DEF new
  \* CompactSlices: a slice after all of a list is merged into the last one.
  <2>CompactLastFacts.
        ASSUME NEW l1 \in Lists(Slices(done, bound)), l1 # <<>>,
               NEW s \in Slices(done, bound),
               \A x \in Range(l1) : x.max <= s.min
        PROVE LET new == CompactLast(l1, s)
              IN /\ new \in Lists(Slices(done, bound)) /\ new # <<>>
                 /\ \A x \in Range(new) : x.max <= s.max
                 /\ Held(Range(l1)) \cup Held({s}) \subseteq Held(Range(new))
    <3> USE <2>CompactLastFacts
    <3> DEFINE T == Slices(done, bound)
               front == Front(l1)
               last == Last(l1)
               t == CompactWithSlice(last, s)
               new == Append(front, t)
    <3>1. /\ front \in Lists(T) /\ last \in T /\ Range(l1) = Range(front) \cup {last}
          /\ Before(Range(front), {last})
      BY FrontAndLast
    <3> HIDE DEF front, last
    <3>2. /\ t \in Slices(done, bound)
          /\ t.min = last.min \/ t.min = s.min
          /\ t.max = last.max \/ t.max = s.max
          /\ \A k \in Keys : Covers(last, k) \/ Covers(s, k) => Covers(t, k)
      BY <3>1, CompactFacts, SMT
    <3> HIDE DEF t
    <3>3. /\ last.min \in Nat /\ last.max \in Nat /\ last.min <= last.max
          /\ s.min \in Nat /\ s.max \in Nat /\ s.min <= s.max
          /\ t.min \in Nat /\ t.max \in Nat
      BY <3>1, <3>2, SliceElim
    <3>4. last.max <= s.min
      BY <3>1
    <3>5. last.min <= t.min /\ t.max <= s.max
      BY <3>2, <3>3, <3>4, SMT
    <3>6. \A x \in Range(front) : /\ x \in T /\ x.min \in Nat /\ x.max \in Nat
                                  /\ x.max <= last.min /\ x.max <= s.min
      <4>1. Range(front) \subseteq T
        <5> DEFINE Q == T
        <5>1. Q \in SUBSET Slices(done, bound) /\ front \in Lists(Q)
          BY <3>1
        <5> HIDE DEF Q
        <5>2. Range(front) \subseteq Q
          BY <5>1, ListElements
        <5> QED BY <5>2 DEF Q
      <4>2. \A x \in Range(front) : x.max <= last.min /\ x.max <= s.min
        BY <3>1 DEF Before
      <4> QED BY <4>1, <4>2, SliceElim
    <3>7. \A x \in Range(front) : x.max <= t.min /\ x.max <= s.max
      <4> SUFFICES ASSUME NEW x \in Range(front) PROVE x.max <= t.min /\ x.max <= s.max
        OBVIOUS
      <4>1. x.max \in Nat /\ x.max <= last.min /\ x.max <= s.min
        BY <3>6
      <4> QED BY <3>3, <3>5, <4>1, SMT
    <3>8. Before(Range(front), {t})
      BY <3>7 DEF Before
    <3>9. new \in Lists(T) /\ Range(new) = Range(front) \cup {t} /\ new # <<>>
      BY <3>1, <3>2, <3>8, AppendInOrder, SMT
    <3> HIDE DEF new
    <3>10. \A x \in Range(new) : x.max <= s.max
      BY <3>5, <3>7, <3>9
    <3>11. Held(Range(l1)) \cup Held({s}) \subseteq Held(Range(new))
      BY <3>1, <3>2, <3>9 DEF Held
    <3>12. CompactLast(l1, s) = new
      BY DEF CompactLast, new, t, last, front
    <3> QED BY <3>9, <3>10, <3>11, <3>12
  <2> DEFINE T == Slices(done, bound)
             s == slices1[n]
             new == IF n \in chosen1 THEN CompactLast(l, s) ELSE Append(l, s)
  <2>1. /\ Len(slices1) \in Nat /\ DOMAIN slices1 = 1 .. Len(slices1)
        /\ \A i \in DOMAIN slices1 : /\ slices1[i] \in Slices(done, bound)
                                    /\ slices1[i].min \in Nat /\ slices1[i].max \in Nat
        /\ \A i, j \in DOMAIN slices1 : i < j => slices1[i].max <= slices1[j].min
    <3> DEFINE Q == T
    <3>1. Q \in SUBSET Slices(done, bound) /\ slices1 \in Lists(Q)
      OBVIOUS
    <3> HIDE DEF Q
    <3> QED BY <3>1, ListElements
  <2>2. /\ n \in Nat /\ n # 0 /\ (n # 1 => n - 1 # 0)
        /\ (n - 1 # 0 => n - 1 \in DOMAIN slices1 /\ n - 1 < n)
        /\ \A i \in 1 .. n : i = n \/ i \in 1 .. (n - 1)
    BY <2>1, SMT
  <2>3. /\ l \in Lists(T) /\ (n - 1 # 0 => l # <<>>) /\ (n - 1 = 0 => l = <<>>)
        /\ \A x \in Range(l) : x.max <= slices1[n - 1].max
        /\ \A i \in 1 .. (n - 1) : Held({slices1[i]}) \subseteq Held(Range(l))
    BY DEF Compacted
  <2>4. s \in T
    BY <2>1
  <2>5. \A x \in Range(l) : x.max <= s.min
    <3>1. CASE n - 1 = 0
      BY <2>3, <3>1, SmallLists
    <3>2. CASE n - 1 # 0
      <4> SUFFICES ASSUME NEW x \in Range(l) PROVE x.max <= s.min
        OBVIOUS
      <4> DEFINE b == slices1[n - 1].max
      <4>1. Range(l) \subseteq T
        <5> DEFINE Q == T
        <5>1. Q \in SUBSET Slices(done, bound) /\ l \in Lists(Q)
          BY <2>3
        <5> HIDE DEF Q
        <5>2. Range(l) \subseteq Q
          BY <5>1, ListElements
        <5> QED BY <5>2 DEF Q
      <4>2. x.max \in Nat
        BY <4>1, SliceElim
      <4>3. x.max <= b /\ b \in Nat /\ s.min \in Nat /\ b <= s.min
        BY <2>1, <2>2, <2>3, <3>2
      <4> HIDE DEF b, s
      <4> QED BY <4>2, <4>3, SMT
    <3> QED BY <3>1, <3>2
  <2> HIDE DEF s
  <2>6. /\ new \in Lists(T) /\ new # <<>> /\ \A x \in Range(new) : x.max <= s.max
        /\ Held(Range(l)) \cup Held({s}) \subseteq Held(Range(new))
    <3>1. CASE n \in chosen1
      <4>1. l # <<>>
        BY <2>2, <2>3, <3>1
      <4> DEFINE w == CompactLast(l, s)
      <4>2. /\ w \in Lists(T) /\ w # <<>> /\ \A x \in Range(w) : x.max <= s.max
            /\ Held(Range(l)) \cup Held({s}) \subseteq Held(Range(w))
        BY <2>3, <2>4, <2>5, <4>1, <2>CompactLastFacts
      <4>3. new = w
        BY <3>1
      <4> HIDE DEF w, new
      <4> QED BY <4>2, <4>3
    <3>2. CASE n \notin chosen1
      <4> DEFINE w == Append(l, s)
      <4>2. /\ w \in Lists(T) /\ w # <<>> /\ \A x \in Range(w) : x.max <= s.max
            /\ Held(Range(l)) \cup Held({s}) \subseteq Held(Range(w))
        BY <2>3, <2>4, <2>5, <2>AppendNextFacts
      <4>3. new = w
        BY <3>2
      <4> HIDE DEF w, new
      <4> QED BY <4>2, <4>3
    <3> QED BY <3>1, <3>2
  <2> HIDE DEF new
  <2>7. \A i \in 1 .. n : Held({slices1[i]}) \subseteq Held(Range(new))
    <3> SUFFICES ASSUME NEW i \in 1 .. n
                 PROVE Held({slices1[i]}) \subseteq Held(Range(new))
      OBVIOUS
    <3>1. CASE i = n
      BY <2>6, <3>1 DEF s
    <3>2. CASE i \in 1 .. (n - 1)
      BY <2>3, <2>6, <3>2
    <3> QED BY <2>2, <3>1, <3>2
  <2>8. new \in Compacted(slices1, n, done, bound)
    BY <2>2, <2>6, <2>7 DEF Compacted, s
  <2> QED BY <2>8 DEF new, s
<1> DEFINE N == Len(slices)
           Turn(n, l) == IF n \in chosen THEN CompactLast(l, slices[n])
                         ELSE Append(l, slices[n])
           K(n) == Compacted(slices, n, done, bound)
           J == [n \in 0 .. N |-> K(n)]
           step == [n \in 1 .. N |-> [l \in K(n - 1) |-> Turn(n, l)]]
           IsList(f) == f = [n \in 0 .. N |->
                               IF n = 0 THEN <<>> ELSE Turn(n, f[n - 1])]
<1>1. N \in Nat /\ DOMAIN slices = 1 .. N
  <2> DEFINE Q == Slices(done, bound)
  <2>1. Q \in SUBSET Slices(done, bound) /\ slices \in Lists(Q)
    OBVIOUS
  <2> HIDE DEF Q
  <2> QED BY <2>1, ListElements
<1>2. CompactSlices(slices, chosen) = (CHOOSE x : IsList(x))[N]
  BY DEF CompactSlices
<1>3. \A n \in 1 .. N : \A l \in K(n - 1) : Turn(n, l) \in K(n)
  BY <1>1, <1>CompactTurnFacts
<1>4. /\ \A n \in 1 .. N : n \in 0 .. N /\ n - 1 \in 0 .. N /\ n # 0
      /\ 0 \in 0 .. N /\ N \in 0 .. N
      /\ \A n \in 0 .. N : n # 0 => n \in 1 .. N
      /\ \A i \in 1 .. 0 : FALSE
  BY <1>1, SMT
<1>0. <<>> \in K(0)
  BY <1>4, SmallLists DEF Compacted
<1> HIDE DEF N, K, Turn
<1>5. /\ \A n \in 0 .. N : J[n] = K(n)
      /\ \A n \in 1 .. N : \A l \in K(n - 1) : step[n][l] = Turn(n, l)
  OBVIOUS
<1>6. <<>> \in J[0] /\ \A n \in 1 .. N : \A l \in J[n - 1] : step[n][l] \in J[n]
  BY <1>0, <1>3, <1>4, <1>5
<1> HIDE DEF J, step
<1>7. PICK f : IsLoop(f, N, <<>>, step) /\ \A n \in 0 .. N : f[n] \in J[n]
  BY <1>1, <1>6, LoopRuns
<1>8. IsList(f)
  <2>1. /\ f = [n \in 0 .. N |-> f[n]] /\ f[0] = <<>>
        /\ \A n \in 1 .. N : f[n] = step[n][f[n - 1]]
    BY <1>7 DEF IsLoop
  <2>2. \A n \in 1 .. N : f[n] = Turn(n, f[n - 1])
    BY <1>4, <1>5, <1>7, <2>1
  <2>3. \A n \in 0 .. N : f[n] = IF n = 0 THEN <<>> ELSE Turn(n, f[n - 1])
    BY <1>4, <2>1, <2>2
  <2> QED BY <2>1, <2>3
<1> DEFINE h == CHOOSE x : IsList(x)
<1>9. IsList(h)
  <2> HIDE DEF IsList
  <2> QED BY <1>8
<1>10. CompactSlices(slices, chosen) = h[N]
  BY <1>2
<1> HIDE DEF h
<1>11. h[0] \in J[0] /\ \A n \in 1 .. N : h[n - 1] \in J[n - 1] => h[n] \in J[n]
  <2>1. \A n \in 0 .. N : h[n] = IF n = 0 THEN <<>> ELSE Turn(n, h[n - 1])
    BY <1>9
  <2>2. h[0] \in J[0]
    BY <1>4, <1>6, <2>1
  <2>3. ASSUME NEW n \in 1 .. N, h[n - 1] \in J[n - 1] PROVE h[n] \in J[n]
    <3>1. h[n - 1] \in K(n - 1)
      BY <1>4, <1>5, <2>3
    <3>2. h[n] = Turn(n, h[n - 1])
      BY <1>4, <2>1
    <3> QED BY <1>3, <1>4, <1>5, <3>1, <3>2
  <2> QED BY <2>2, <2>3
<1>12. \A n \in 0 .. N : h[n] \in J[n]
  BY <1>1, <1>11, LoopInvariant
<1> DEFINE all == h[N]
<1>13. all \in K(N)
  BY <1>4, <1>5, <1>12
<1> HIDE DEF all
<1>14. /\ all \in Lists(Slices(done, bound))
       /\ \A i \in 1 .. N : Held({slices[i]}) \subseteq Held(Range(all))
  BY <1>13 DEF K, Compacted
<1>15. Held(Range(slices)) \subseteq Held(Range(all))
  <2> SUFFICES ASSUME NEW k \in Held(Range(slices)) PROVE k \in Held(Range(all))
    OBVIOUS
  <2>1. PICK i \in DOMAIN slices : k \in Held({slices[i]})
    BY DEF Held, Range
  <2> QED BY <1>1, <1>14, <2>1
<1> QED BY <1>10, <1>14, <1>15 DEF all

\* actionSliceCount loses no task in any of its stages.
LEMMA SliceCountFacts ==
    ASSUME NEW S, NEW done, NEW bound \in Nat, NEW rs \in Keeping(S, done, bound)
    PROVE SliceCountOutcomes(rs) \subseteq Keeping(S, done, bound)
\* findAndCompactLowSliceCount loses no task, whichever candidates it picks.
<1>CompactOutcomesFacts.
      ASSUME NEW rs1 \in Keeping(S, done, bound), NEW eligibleReaders,
             NEW universal, NEW target
      PROVE CompactOutcomes(rs1, eligibleReaders, universal, target)
               \subseteq Keeping(S, done, bound)
  <2> USE <1>CompactOutcomesFacts
  <2> DEFINE Eligible(s) == (s.groups = Universal) = universal
             candidates ==
              {c \in (DOMAIN rs1 \cap eligibleReaders) \X (1 .. TotalSlices(rs1)) :
                  /\ c[2] \in DOMAIN rs1[c[1]].slices \ {1}
                  /\ Eligible(rs1[c[1]].slices[c[2]])
                  /\ Eligible(rs1[c[1]].slices[c[2] - 1])}
             Chosen(C, r) == {c[2] : c \in {x \in C : x[1] = r}}
             After(C) == [r \in DOMAIN rs1 |->
                  IF r \in eligibleReaders
                  THEN Reset(CompactSlices(rs1[r].slices, Chosen(C, r)))
                  ELSE rs1[r]]
  <2> SUFFICES ASSUME NEW new \in CompactOutcomes(rs1, eligibleReaders, universal, target)
               PROVE new \in Keeping(S, done, bound)
    OBVIOUS
  <2>1. PICK C \in SUBSET candidates : new = After(C)
    BY DEF CompactOutcomes, kSubset
  <2>2. \A c \in C : c[2] # 1
    BY <2>1
  <2>3. \A r \in DOMAIN rs1 : 1 \notin Chosen(C, r)
    BY <2>2
  <2> HIDE DEF Chosen, candidates
  <2>4. rs1 \in ReaderMaps(done, bound)
    BY DEF Keeping
  <2>5. new = [r \in DOMAIN rs1 |-> new[r]]
    BY <2>1
  <2>6. ASSUME NEW r \in DOMAIN rs1
        PROVE /\ new[r] \in ReaderSet(done, bound)
              /\ Held(Range(rs1[r].slices)) \ done \subseteq Held(Range(new[r].slices))
    <3> DEFINE slices == rs1[r].slices
               l == CompactSlices(slices, Chosen(C, r))
               x == Reset(l)
    <3>1. rs1[r] \in ReaderSet(done, bound) /\ slices \in Lists(Slices(done, bound))
      BY <2>4, ReaderMapElim
    <3>2. new[r] = x \/ new[r] = rs1[r]
      BY <2>1
    <3>3. CASE new[r] = rs1[r]
      BY <3>1, <3>3
    <3>4. CASE new[r] = x
      <4> HIDE DEF slices
      <4>1. l \in Lists(Slices(done, bound)) /\ Held(Range(slices)) \subseteq Held(Range(l))
        BY <2>3, <3>1, CompactSlicesFacts
      <4> HIDE DEF l
      <4>2. x \in ReaderSet(done, bound) /\ x.slices = l
        BY <4>1, ResetFacts
      <4> HIDE DEF x
      <4>3. Held(Range(slices)) \ done \subseteq Held(Range(new[r].slices))
        BY <3>4, <4>1, <4>2
      <4> QED BY <3>4, <4>2, <4>3 DEF slices
    <3> QED BY <3>2, <3>3, <3>4
  <2> HIDE DEF After
  <2> QED BY <2>5, <2>6, EachReader
<1> DEFINE K == Keeping(S, done, bound)
           default == {DefaultReaderId}
           others == ReaderIDs \ default
           preferred == (CriticalSliceCount * 4) \div 5
           Stage(R, ids, universal, target, enough) ==
            UNION {IF TotalSlices(x) <= enough THEN {x}
                   ELSE CompactOutcomes(x, ids, universal, target) : x \in R}
           s0 == Shrunk(rs)
           s1 == CompactOutcomes(s0, others, FALSE, preferred)
           s2 == Stage(s1, default, FALSE, preferred, preferred)
           s3 == Stage(s2, others, TRUE, CriticalSliceCount, preferred)
           s4 == Stage(s3, default, TRUE, CriticalSliceCount, CriticalSliceCount)
<1>1. s0 \in K
  BY ShrunkFacts
<1>2. \A x \in K : \A ids, universal, target :
        CompactOutcomes(x, ids, universal, target) \subseteq K
  BY <1>CompactOutcomesFacts
<1>5. SliceCountOutcomes(rs) = {s0} \/ SliceCountOutcomes(rs) = s4
  BY DEF SliceCountOutcomes
<1> HIDE DEF K, s0, default, others, preferred
<1>3. ASSUME NEW R, R \subseteq K, NEW ids, NEW universal, NEW target, NEW enough
      PROVE Stage(R, ids, universal, target, enough) \subseteq K
  <2> SUFFICES ASSUME NEW y \in Stage(R, ids, universal, target, enough)
               PROVE y \in K
    <3> HIDE DEF Stage
    <3> QED OBVIOUS
  <2>1. PICK x \in R : y \in IF TotalSlices(x) <= enough THEN {x}
                             ELSE CompactOutcomes(x, ids, universal, target)
    OBVIOUS
  <2>2. y = x \/ y \in CompactOutcomes(x, ids, universal, target)
    BY <2>1
  <2> QED BY <1>2, <1>3, <2>2
<1> HIDE DEF Stage
<1>4. s1 \subseteq K
  BY <1>1, <1>2
<1> HIDE DEF s1
<1>6. s2 \subseteq K
  BY <1>3, <1>4
<1> HIDE DEF s2
<1>7. s3 \subseteq K
  BY <1>3, <1>6
<1> HIDE DEF s3
<1>8. s4 \subseteq K
  BY <1>3, <1>7
<1> HIDE DEF s4
<1> QED BY <1>1, <1>5, <1>8 DEF K

\* actionQueuePendingTask loses no task, whichever slices it clears.
LEMMA PendingTaskFacts ==
    ASSUME NEW S, NEW done, NEW bound \in Nat, NEW rs \in Keeping(S, done, bound)
    PROVE PendingTaskOutcomes(rs) \subseteq Keeping(S, done, bound)
<1> DEFINE cur == Shrunk(rs)
<1>1. cur \in Keeping(S, done, bound)
  BY ShrunkFacts
<1>2. \/ PendingTaskOutcomes(rs) = {cur}
      \/ PendingTaskOutcomes(rs) =
            UNION {{SplitAndClear(cur, V, order) : order \in Orders} :
                      V \in SlicesToClear(cur)}
  BY DEF PendingTaskOutcomes
<1> HIDE DEF cur
<1>3. \A V : \A order \in Orders :
          SplitAndClear(cur, V, order) \in Keeping(S, done, bound)
  BY <1>1, SplitAndClearFacts DEF Orders, Injection
<1> DEFINE all(V) == {SplitAndClear(cur, V, order) : order \in Orders}
<1>4. \A V : all(V) \subseteq Keeping(S, done, bound)
  BY <1>3
<1>5. UNION {all(V) : V \in SlicesToClear(cur)} \subseteq Keeping(S, done, bound)
  <2> HIDE DEF all
  <2> SUFFICES ASSUME NEW V, NEW x \in all(V) PROVE x \in Keeping(S, done, bound)
    OBVIOUS
  <2> QED BY <1>4
<1>6. {cur} \subseteq Keeping(S, done, bound)
  BY <1>1
<1> QED BY <1>2, <1>5, <1>6

=============================================================================
