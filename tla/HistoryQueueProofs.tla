------------------------- MODULE HistoryQueueProofs -------------------------
(***************************************************************************)
(* The safety properties of module HistoryQueue, proved for any keys,      *)
(* groups, reader count, limits and number of disruptions from one         *)
(* inductive invariant, QueueInv.  Module QueueReaders has what the        *)
(* operations on the readers keep; here are what a checkpoint leaves of    *)
(* them, the queue states, what each step does to both, and the theorems.  *)
(***************************************************************************)
EXTENDS QueueReaders, FiniteSetTheorems

(* Zenon is the prover of a step that names no other. *)
USE Zenon

-----------------------------------------------------------------------------
(* A stuck reader, and what a checkpoint leaves *)

\* Lists with one or two elements.
LEMMA PairFacts ==
    ASSUME NEW l, NEW r
    PROVE /\ Len(<<l>>) = 1 /\ Len(<<l, r>>) = 2
          /\ Last(<<l>>) = l /\ Last(<<l, r>>) = r
          /\ Front(<<l>>) = <<>> /\ Front(<<l, r>>) = <<l>>
          /\ Tail(<<l>>) = <<>> /\ Tail(<<l, r>>) = <<r>>
          /\ <<l>>[1] = l /\ <<l, r>>[1] = l /\ <<l, r>>[2] = r
          /\ <<l>> \o <<>> = <<l>>
          /\ <<>> \o <<r>> = <<r>> /\ <<l>> \o <<r>> = <<l, r>>
<1> DEFINE X == {l, r}
<1>0. l \in X /\ r \in X
  OBVIOUS
<1>1. Len(<<l>>) = 1 /\ Len(<<l, r>>) = 2
  OBVIOUS
<1>2. Last(<<l>>) = l /\ Last(<<l, r>>) = r
  BY DEF Last
<1>4. Tail(<<l>>) = <<>> /\ Tail(<<l, r>>) = <<r>>
  BY SMT
<1>5. <<l>>[1] = l /\ <<l, r>>[1] = l /\ <<l, r>>[2] = r
  OBVIOUS
<1> HIDE DEF X
<1>a. <<>> \in Seq(X) /\ <<l>> \in Seq(X) /\ <<r>> \in Seq(X) /\ <<l, r>> \in Seq(X)
  BY <1>0, SMT
<1>b. \A f \in Seq(X) : Len(f) = 0 => f = <<>>
  BY SMT
<1>c. \A f \in Seq(X) : Len(f) = 1 => f = <<f[1]>>
  BY SMT
<1>d. \A f \in Seq(X) : Len(f) = 2 => f = <<f[1], f[2]>>
  BY SMT
<1>3. Front(<<l>>) = <<>> /\ Front(<<l, r>>) = <<l>>
  <2>1. /\ SubSeq(<<l>>, 1, 0) \in Seq(X) /\ Len(SubSeq(<<l>>, 1, 0)) = 0
    BY <1>a, SMT
  <2>2. /\ SubSeq(<<l, r>>, 1, 1) \in Seq(X) /\ Len(SubSeq(<<l, r>>, 1, 1)) = 1
        /\ SubSeq(<<l, r>>, 1, 1)[1] = l
    BY <1>a, SMT
  <2>3. Front(<<l>>) = SubSeq(<<l>>, 1, 0) /\ Front(<<l, r>>) = SubSeq(<<l, r>>, 1, 1)
    BY <1>1, SMT DEF Front
  <2> QED BY <1>b, <1>c, <2>1, <2>2, <2>3
<1>6. /\ <<l>> \o <<>> = <<l>>
      /\ <<>> \o <<r>> = <<r>> /\ <<l>> \o <<r>> = <<l, r>>
  <2>1. /\ <<l>> \o <<>> \in Seq(X) /\ Len(<<l>> \o <<>>) = 1 /\ (<<l>> \o <<>>)[1] = l
    BY <1>a, SMT
  <2>2. /\ <<>> \o <<r>> \in Seq(X) /\ Len(<<>> \o <<r>>) = 1 /\ (<<>> \o <<r>>)[1] = r
    BY <1>a, SMT
  <2>3. /\ <<l>> \o <<r>> \in Seq(X) /\ Len(<<l>> \o <<r>>) = 2
        /\ (<<l>> \o <<r>>)[1] = l /\ (<<l>> \o <<r>>)[2] = r
    BY <1>a, SMT
  <2> QED BY <1>c, <1>d, <2>1, <2>2, <2>3
<1> QED BY <1>1, <1>2, <1>3, <1>4, <1>5, <1>6

\* actionReaderStuck: the slice is cut at low, then what is right of low is cut
\* at high.
StuckPart(s, low, high) ==
    LET atLow == IF CanSplit(s, low) THEN SplitByRange(s, low) ELSE <<s>>
        s1 == Last(atLow)
        atHigh == IF CanSplit(s1, high) THEN SplitByRange(s1, high) ELSE <<s1>>
    IN IF low <= s.min /\ s.max <= high THEN Split(<<>>, <<s>>)
       ELSE IF Len(atLow) + Len(atHigh) = 2 THEN Untouched(s)
       ELSE Split(Front(atLow) \o Tail(atHigh), <<atHigh[1]>>)

\* actionReaderStuck loses no task.
LEMMA ReaderStuckFacts ==
    ASSUME NEW S, NEW done, NEW bound \in Nat, NEW rs \in Keeping(S, done, bound),
           NEW low \in Nat, NEW high \in Nat, DefaultReaderId \in DOMAIN rs
    PROVE ReaderStuck(rs, low, high) \in Keeping(S, done, bound)
\* actionReaderStuck: the parts of a slice cover what the slice did.
<1>StuckPartFacts.
      ASSUME NEW s \in Slices(done, bound), NEW low1 \in Nat,
             NEW high1 \in Nat
      PROVE PartOf(StuckPart(s, low1, high1), s, done, bound)
  <2> USE <1>StuckPartFacts
  \* CanSplitByRange holds of keys in the range only.
  <2>CanSplitFacts.
        ASSUME NEW bound3, NEW s3 \in Slices(done, bound3), NEW k \in Nat,
               CanSplit(s3, k)
        PROVE s3.min <= k /\ k <= s3.max
    <3> USE <2>CanSplitFacts
    <3>1. s3.min \in Nat /\ s3.max \in Nat /\ s3.min <= s3.max
      BY SliceElim
    <3> QED BY <3>1, SMT DEF CanSplit, ContainsKey
  \* The two ends of a split slice, when what lies between them moves.
  <2>TwoEnds.
        ASSUME NEW bound2, NEW l \in Slices(done, bound2),
               NEW h \in Slices(done, bound2), l.max <= h.min
        PROVE <<l, h>> \in Lists(Slices(done, bound2)) /\ Range(<<l, h>>) = {l, h}
    <3> USE <2>TwoEnds
    <3> DEFINE T == Slices(done, bound2)
               a == <<l>>
               b == <<h>>
    <3>1. a \in Lists(T) /\ Range(a) = {l} /\ b \in Lists(T) /\ Range(b) = {h}
      BY SmallLists
    <3>2. a \o b = <<l, h>>
      BY PairFacts
    <3> HIDE DEF a, b
    <3>3. Before(Range(a), Range(b))
      BY <3>1 DEF Before
    <3>4. a \o b \in Lists(T)
      BY <3>1, <3>3, ConcatInOrder
    <3>5. a \in Seq(T) /\ b \in Seq(T)
      BY <3>1 DEF Lists
    <3>6. Range(a \o b) = Range(a) \cup Range(b)
      BY <3>5, RangeOfConcat
    <3>7. Range(a \o b) = {l, h}
      BY <3>1, <3>6
    <3> QED BY <3>2, <3>4, <3>7
  \* A splitter keeps some slices and moves one, all within the range of s.
  <2>MoveOne.
        ASSUME NEW bound1, NEW s2 \in Slices(done, bound1),
               NEW m \in Slices(done, bound1), s2.min <= m.min,
               m.max <= s2.max, NEW stay \in Lists(Slices(done, bound1)),
               \A x \in Range(stay) : s2.min <= x.min /\ x.max <= s2.max,
               \A k \in Keys : Covers(s2, k) => Covers(m, k) \/ \E x \in Range(stay) : Covers(x, k)
        PROVE PartOf(Split(stay, <<m>>), s2, done, bound1)
    <3> USE <2>MoveOne
    <3> DEFINE move == <<m>>
    <3>1. move \in Lists(Slices(done, bound1)) /\ Range(move) = {m}
      BY SmallLists
    <3> HIDE DEF move
    <3>2. \A x \in Range(stay) \cup Range(move) : s2.min <= x.min /\ x.max <= s2.max
      BY <3>1
    <3>3. Held({s2}) \ done \subseteq Held(Range(stay)) \cup Held(Range(move))
      BY <3>1 DEF Held
    <3>4. PartOf(Split(stay, move), s2, done, bound1)
      BY <3>1, <3>2, <3>3, SplitFacts
    <3> QED BY <3>4 DEF move
  <2> DEFINE T == Slices(done, bound)
             atLow == IF CanSplit(s, low1) THEN SplitByRange(s, low1) ELSE <<s>>
             s1 == Last(atLow)
             atHigh == IF CanSplit(s1, high1) THEN SplitByRange(s1, high1) ELSE <<s1>>
             cut == Split(Front(atLow) \o Tail(atHigh), <<atHigh[1]>>)
  <2>1. \/ StuckPart(s, low1, high1) = Split(<<>>, <<s>>)
        \/ StuckPart(s, low1, high1) = Untouched(s)
        \/ Len(atLow) + Len(atHigh) # 2 /\ StuckPart(s, low1, high1) = cut
    BY DEF StuckPart
  <2>2. /\ PartOf(Split(<<>>, <<s>>), s, done, bound)
        /\ PartOf(Untouched(s), s, done, bound)
    BY WholePart, UntouchedFacts
  <2>3. s.min \in Nat /\ s.max \in Nat /\ s.min <= s.max
    BY SliceElim
  <2>4. /\ s1 \in T /\ s.min <= s1.min /\ s1.max = s.max
        /\ \/ atLow = <<s>> /\ s1 = s
           \/ \E l \in T : /\ atLow = <<l, s1>> /\ l.min = s.min /\ l.max = s1.min
                           /\ \A k \in Keys : Covers(s, k) => Covers(l, k) \/ Covers(s1, k)
    <3>1. CASE CanSplit(s, low1)
      <4> DEFINE l == SplitByRange(s, low1)[1]
                 r == SplitByRange(s, low1)[2]
      <4>1. s.min <= low1 /\ low1 <= s.max
        BY <3>1, <2>CanSplitFacts
      <4>2. /\ SplitByRange(s, low1) = <<l, r>> /\ l \in T /\ r \in T
            /\ l.min = s.min /\ l.max = low1 /\ r.min = low1 /\ r.max = s.max
            /\ \A k \in Keys : Covers(s, k) => Covers(l, k) \/ Covers(r, k)
        BY <4>1, SplitByRangeFacts, SMT
      <4> HIDE DEF l, r
      <4>3. atLow = <<l, r>>
        BY <3>1, <4>2
      <4> HIDE DEF atLow
      <4>4. s1 = r
        BY <4>3, PairFacts
      <4> QED BY <4>1, <4>2, <4>3, <4>4
    <3>2. CASE ~CanSplit(s, low1)
      <4>1. atLow = <<s>>
        BY <3>2
      <4> HIDE DEF atLow
      <4>2. s1 = s
        BY <4>1, PairFacts
      <4>3. s.min <= s.min
        BY <2>3, SMT
      <4> QED BY <4>1, <4>2, <4>3
    <3> QED BY <3>1, <3>2
  <2> HIDE DEF atLow, s1
  <2>5. /\ \/ atHigh = <<s1>>
           \/ \E m, h \in T :
                /\ atHigh = <<m, h>> /\ m.min = s1.min /\ m.max = h.min
                /\ h.max = s1.max
                /\ \A k \in Keys : Covers(s1, k) => Covers(m, k) \/ Covers(h, k)
    <3>1. CASE CanSplit(s1, high1)
      <4> DEFINE m == SplitByRange(s1, high1)[1]
                 h == SplitByRange(s1, high1)[2]
      <4>1. s1.min <= high1 /\ high1 <= s1.max
        BY <2>4, <3>1, <2>CanSplitFacts
      <4>2. /\ SplitByRange(s1, high1) = <<m, h>> /\ m \in T /\ h \in T
            /\ m.min = s1.min /\ m.max = high1 /\ h.min = high1 /\ h.max = s1.max
            /\ \A k \in Keys : Covers(s1, k) => Covers(m, k) \/ Covers(h, k)
        BY <2>4, <4>1, SplitByRangeFacts, SMT
      <4> HIDE DEF m, h
      <4>3. atHigh = <<m, h>>
        BY <3>1, <4>2
      <4> HIDE DEF atHigh
      <4> QED BY <4>2, <4>3
    <3>2. CASE ~CanSplit(s1, high1)
      BY <3>2
    <3> QED BY <3>1, <3>2
  <2> HIDE DEF atHigh
  <2>6. ASSUME Len(atLow) + Len(atHigh) # 2 PROVE PartOf(cut, s, done, bound)
    <3>1. CASE /\ atLow = <<s>> /\ s1 = s /\ atHigh = <<s1>>
      <4>1. Len(atLow) = 1 /\ Len(atHigh) = 1
        BY <3>1, PairFacts
      <4> QED BY <2>6, <4>1, SMT
    <3>2. ASSUME atLow = <<s>>, s1 = s,
                 NEW m \in T, NEW h \in T, atHigh = <<m, h>>, m.min = s1.min,
                 m.max = h.min, h.max = s1.max,
                 \A k \in Keys : Covers(s1, k) => Covers(m, k) \/ Covers(h, k)
          PROVE PartOf(cut, s, done, bound)
      <4>1. Front(atLow) \o Tail(atHigh) = <<h>> /\ atHigh[1] = m
        <5>1. Front(atLow) = <<>> /\ Tail(atHigh) = <<h>> /\ atHigh[1] = m
          BY <3>2, PairFacts
        <5>2. <<>> \o <<h>> = <<h>>
          BY PairFacts
        <5> QED BY <5>1, <5>2
      <4> DEFINE stay == <<h>>
      <4>2. stay \in Lists(T) /\ Range(stay) = {h}
        BY <3>2, SmallLists
      <4>3. /\ m.min \in Nat /\ m.max \in Nat /\ m.min <= m.max
            /\ h.min \in Nat /\ h.max \in Nat /\ h.min <= h.max
        BY <3>2, SliceElim
      <4>4. /\ s.min <= m.min /\ m.max <= s.max /\ s.min <= h.min /\ h.max <= s.max
        BY <2>3, <3>2, <4>3, SMT
      <4> HIDE DEF stay
      <4>5. PartOf(Split(stay, <<m>>), s, done, bound)
        BY <3>2, <4>2, <4>4, <2>MoveOne
      <4> QED BY <4>1, <4>5 DEF stay, cut
    <3>3. ASSUME atHigh = <<s1>>, NEW l \in T,
                 atLow = <<l, s1>>, l.min = s.min, l.max = s1.min,
                 \A k \in Keys : Covers(s, k) => Covers(l, k) \/ Covers(s1, k)
          PROVE PartOf(cut, s, done, bound)
      <4>1. Front(atLow) \o Tail(atHigh) = <<l>> /\ atHigh[1] = s1
        <5>1. Front(atLow) = <<l>> /\ Tail(atHigh) = <<>> /\ atHigh[1] = s1
          BY <3>3, PairFacts
        <5>2. <<l>> \o <<>> = <<l>>
          BY PairFacts
        <5> QED BY <5>1, <5>2
      <4> DEFINE stay == <<l>>
      <4>2. stay \in Lists(T) /\ Range(stay) = {l}
        BY <3>3, SmallLists
      <4>3. /\ s1.min \in Nat /\ s1.max \in Nat /\ s1.min <= s1.max
            /\ l.min \in Nat /\ l.max \in Nat /\ l.min <= l.max
        BY <2>4, <3>3, SliceElim
      <4>4. /\ s.min <= s1.min /\ s1.max <= s.max /\ s.min <= l.min /\ l.max <= s.max
        BY <2>3, <2>4, <3>3, <4>3, SMT
      <4> HIDE DEF stay
      <4>5. PartOf(Split(stay, <<s1>>), s, done, bound)
        BY <2>4, <3>3, <4>2, <4>4, <2>MoveOne
      <4> QED BY <4>1, <4>5 DEF stay, cut
    <3>4. ASSUME NEW l \in T, atLow = <<l, s1>>, l.min = s.min, l.max = s1.min,
                 \A k \in Keys : Covers(s, k) => Covers(l, k) \/ Covers(s1, k),
                 NEW m \in T, NEW h \in T, atHigh = <<m, h>>, m.min = s1.min,
                 m.max = h.min, h.max = s1.max,
                 \A k \in Keys : Covers(s1, k) => Covers(m, k) \/ Covers(h, k)
          PROVE PartOf(cut, s, done, bound)
      <4>1. Front(atLow) \o Tail(atHigh) = <<l, h>> /\ atHigh[1] = m
        <5>1. Front(atLow) = <<l>> /\ Tail(atHigh) = <<h>> /\ atHigh[1] = m
          BY <3>4, PairFacts
        <5>2. <<l>> \o <<h>> = <<l, h>>
          BY PairFacts
        <5> QED BY <5>1, <5>2
      <4> DEFINE stay == <<l, h>>
      <4>3. /\ m.min \in Nat /\ m.max \in Nat /\ m.min <= m.max
            /\ h.min \in Nat /\ h.max \in Nat /\ h.min <= h.max
            /\ l.min \in Nat /\ l.max \in Nat /\ l.min <= l.max
            /\ s1.min \in Nat /\ s1.max \in Nat /\ s1.min <= s1.max
        BY <2>4, <3>4, SliceElim
      <4>4. /\ s.min <= m.min /\ m.max <= s.max /\ s.min <= h.min /\ h.max <= s.max
            /\ s.min <= l.min /\ l.max <= s.max /\ l.max <= h.min
        BY <2>3, <2>4, <3>4, <4>3, SMT
      <4>2. stay \in Lists(T) /\ Range(stay) = {l, h}
        BY <3>4, <4>4, <2>TwoEnds, SMT
      <4>6. \A k \in Keys : Covers(s, k) => Covers(m, k) \/ Covers(l, k) \/ Covers(h, k)
        BY <3>4
      <4> HIDE DEF stay
      <4>5. PartOf(Split(stay, <<m>>), s, done, bound)
        BY <3>4, <4>2, <4>4, <4>6, <2>MoveOne
      <4> QED BY <4>1, <4>5 DEF stay, cut
    <3> HIDE DEF cut
    <3> QED BY <2>4, <2>5, <3>1, <3>2, <3>3, <3>4
  <2> HIDE DEF cut
  <2> QED BY <2>1, <2>2, <2>6
<1> DEFINE r == DefaultReaderId
           slices == rs[r].slices
           parts == [i \in DOMAIN slices |-> StuckPart(slices[i], low, high)]
           rest == Stay(rs, r, parts)
           new == MoveTo(rest, r + 1, Moved(parts))
<1>1. rs \in ReaderMaps(done, bound)
  BY DEF Keeping
<1>2. ReaderStuck(rs, low, high) = IF Moved(parts) = <<>> THEN rest ELSE new
  BY DEF ReaderStuck, StuckPart
<1>3. \A i \in DOMAIN slices : slices[i] \in Slices(done, bound)
  BY <1>1, ListOfReader
<1>4. \A i \in DOMAIN slices : PartOf(parts[i], slices[i], done, bound)
  <2>1. \A i \in DOMAIN slices : parts[i] = StuckPart(slices[i], low, high)
    OBVIOUS
  <2> HIDE DEF parts
  <2> QED BY <1>3, <2>1, <1>StuckPartFacts
<1>5. parts = [i \in DOMAIN slices |-> parts[i]]
  OBVIOUS
<1> HIDE DEF parts
<1>6. r + 1 \in ReaderIDs
  BY NextReader DEF DefaultReaderId
<1> HIDE DEF r
<1>7. /\ new \in ReaderMaps(done, bound) /\ HeldBy(rs) \ done \subseteq HeldBy(new)
      /\ rest \in ReaderMaps(done, bound)
      /\ Moved(parts) = <<>> => HeldBy(rs) \ done \subseteq HeldBy(rest)
  BY <1>1, <1>4, <1>5, <1>6, SplitAndMoveFacts DEF r
<1> HIDE DEF new, rest
<1>8. /\ new \in Keeping(S, done, bound)
      /\ Moved(parts) = <<>> => rest \in Keeping(S, done, bound)
  BY <1>7, KeepingFacts
<1> QED BY <1>2, <1>8

-----------------------------------------------------------------------------
(* Queue states *)

\* Watermarks lie between the first key and the end of all keys.
LEMMA EndFacts == End \in Nat /\ 1 <= End /\ Watermarks \subseteq 1 .. End
\* The keys are bounded, as they are finitely many.
<1>KeysBounded.
      \E b \in Nat : \A k \in Keys : k <= b
  <2> DEFINE Bounded(S) == \E b \in Nat : \A k \in S : k <= b
             Bad == {n \in Nat : \E S \in SUBSET Keys : Cardinality(S) = n /\ ~Bounded(S)}
  <2>1. Keys \subseteq Nat /\ IsFiniteSet(Keys)
    BY SliceAssumption
  <2>2. \A S \in SUBSET Keys : IsFiniteSet(S) /\ Cardinality(S) \in Nat
    BY <2>1, FS_Subset, FS_CardinalityType
  <2>3. SUFFICES Bad = {}
    <3> HIDE DEF Bounded
    <3>1. Bounded(Keys)
      BY <2>2, <2>3
    <3> QED BY <3>1 DEF Bounded
  <2> SUFFICES ASSUME Bad # {} PROVE FALSE
    OBVIOUS
  <2>4. PICK n \in Bad : \A m \in Bad : n <= m
    <3>1. Bad \in SUBSET Nat
      OBVIOUS
    <3> HIDE DEF Bad
    <3> QED BY <3>1, LeastExists
  <2>5. PICK S \in SUBSET Keys : Cardinality(S) = n /\ ~Bounded(S)
    BY <2>4
  <2>6. S # {}
    <3>1. 0 \in Nat
      OBVIOUS
    <3> QED BY <2>5, <3>1
  <2>7. PICK x \in S : TRUE
    BY <2>6
  <2> DEFINE T == S \ {x}
  <2>8. T \in SUBSET Keys /\ Cardinality(T) = n - 1 /\ n \in Nat /\ Cardinality(T) \in Nat
    BY <2>2, <2>5, <2>7, FS_RemoveElement
  <2>9. Bounded(T)
    <3>1. n - 1 \in Nat /\ ~(n <= n - 1)
      BY <2>8, SMT
    <3>2. n - 1 \notin Bad
      <4> HIDE DEF Bad
      <4> QED BY <2>4, <3>1
    <3> HIDE DEF Bounded, T
    <3> QED BY <2>8, <3>1, <3>2
  <2>10. PICK b \in Nat : \A k \in T : k <= b
    BY <2>9
  <2>11. x \in Nat /\ \A k \in S : k \in Nat /\ (k = x \/ k \in T)
    BY <2>1, <2>5, <2>7
  <2>12. b + x \in Nat /\ \A k \in S : k <= b + x
    <3> HIDE DEF T
    <3> QED BY <2>10, <2>11, SMT
  <2>13. Bounded(S)
    BY <2>12
  <2> HIDE DEF Bounded
  <2> QED BY <2>5, <2>13
<1>1. Keys \in SUBSET Nat /\ Keys # {}
  BY SliceAssumption, QueueAssumption
<1>2. PICK b \in Nat : \A k \in Keys : k <= b
  BY <1>KeysBounded
<1>3. Max(Keys) \in Keys
  BY <1>1, <1>2, MaxFacts
<1>4. Max(Keys) \in Nat
  BY <1>1, <1>3
<1>5. End \in Nat /\ 1 <= End
  BY <1>4, SMT DEF End
<1> QED BY <1>5, QueueAssumption

\* Scopes below high.
Scopes(high) ==
    {c \in ScopeSet : 1 <= c.min /\ c.min <= c.max /\ c.max <= high}

\* What the shard may hold: nothing beyond top was readable.
IsState(st, top) ==
    /\ st.high \in Nat /\ 1 <= st.high /\ st.high <= top
    /\ DOMAIN st.scopes \subseteq ReaderIDs
    /\ \A r \in DOMAIN st.scopes :
          st.scopes[r] \in Lists(Scopes(st.high)) /\ st.scopes[r] # <<>>

\* The tasks that a queue reads which starts from the state.
ReadFrom(st) ==
    {k \in Keys : \/ k >= st.high
                  \/ \E r \in DOMAIN st.scopes :
                        \E c \in Range(st.scopes[r]) : InScope(c, k)}

\* What is known of a scope in a saved state.
LEMMA ScopeElim ==
    ASSUME NEW high, NEW c \in Scopes(high)
    PROVE /\ c \in ScopeSet /\ c.min \in Nat /\ c.max \in Nat
          /\ c.groups \in SUBSET Universal
          /\ 1 <= c.min /\ c.min <= c.max /\ c.max <= high
BY DEF Scopes, ScopeSet

\* The scopes of a reader in a saved state: the first one starts lowest.
LEMMA ScopeListFacts ==
    ASSUME NEW high, NEW l \in Lists(Scopes(high))
    PROVE /\ Len(l) \in Nat /\ DOMAIN l = 1 .. Len(l)
          /\ \A i \in DOMAIN l : l[i] \in Scopes(high)
          /\ \A i, j \in DOMAIN l : i < j => l[i].max <= l[j].min
          /\ Range(l) \subseteq Scopes(high)
          /\ l # <<>> => 1 \in DOMAIN l
          /\ \A c \in Range(l) : l[1].min <= c.min
<1>1. l \in Seq(Scopes(high)) /\ \A i, j \in DOMAIN l : i < j => l[i].max <= l[j].min
  BY DEF Lists
<1>2. Len(l) \in Nat /\ DOMAIN l = 1 .. Len(l) /\ \A i \in DOMAIN l : l[i] \in Scopes(high)
  BY <1>1, SMT
<1>3. Range(l) \subseteq Scopes(high)
  BY <1>2 DEF Range
<1>4. l # <<>> => 1 \in DOMAIN l
  BY <1>1, SMT
<1>5. ASSUME NEW i \in DOMAIN l PROVE l[1].min <= l[i].min
  <2>1. 1 \in DOMAIN l /\ (i = 1 \/ 1 < i)
    BY <1>2, SMT
  <2>2. /\ l[1].min \in Nat /\ l[1].max \in Nat /\ l[1].min <= l[1].max
        /\ l[i].min \in Nat
    BY <1>2, <2>1, ScopeElim
  <2>3. i # 1 => l[1].max <= l[i].min
    BY <1>1, <2>1
  <2> QED BY <2>2, <2>3, SMT
<1>6. \A c \in Range(l) : l[1].min <= c.min
  BY <1>5 DEF Range
<1> QED BY <1>1, <1>2, <1>3, <1>4, <1>6

\* The mark of newQueueBase and checkpoint is below everything that a queue
\* reads which starts from the state.
LEMMA MarkFacts ==
    ASSUME NEW st, NEW top, IsState(st, top)
    PROVE /\ MarkOf(st) \in Nat /\ 1 <= MarkOf(st) /\ MarkOf(st) <= st.high
          /\ \A k \in ReadFrom(st) : MarkOf(st) <= k
<1> DEFINE M == {st.high} \cup {st.scopes[r][1].min : r \in DOMAIN st.scopes}
           mark == MarkOf(st)
<1>1. st.high \in Nat /\ 1 <= st.high
  BY DEF IsState
<1>2. ASSUME NEW r \in DOMAIN st.scopes
      PROVE /\ st.scopes[r][1].min \in Nat /\ 1 <= st.scopes[r][1].min
            /\ \A c \in Range(st.scopes[r]) : /\ st.scopes[r][1].min <= c.min
                                              /\ c.min \in Nat
  <2> DEFINE l == st.scopes[r]
  <2>1. l \in Lists(Scopes(st.high)) /\ l # <<>>
    BY DEF IsState
  <2> HIDE DEF l
  <2>2. /\ 1 \in DOMAIN l /\ l[1] \in Scopes(st.high)
        /\ Range(l) \subseteq Scopes(st.high)
        /\ \A c \in Range(l) : l[1].min <= c.min
    BY <2>1, ScopeListFacts
  <2>3. /\ l[1].min \in Nat /\ 1 <= l[1].min
        /\ \A c \in Range(l) : c.min \in Nat
    BY <2>2, ScopeElim
  <2> QED BY <2>2, <2>3 DEF l
<1>3. M \in SUBSET Nat /\ M # {} /\ \A x \in M : 1 <= x
  BY <1>1, <1>2
<1>4. mark = Min(M)
  BY DEF MarkOf
<1>5. st.high \in M /\ \A r \in DOMAIN st.scopes : st.scopes[r][1].min \in M
  OBVIOUS
<1> HIDE DEF M, mark
<1>6. mark \in M /\ \A x \in M : mark <= x
  BY <1>3, <1>4, MinFacts
<1>7. mark \in Nat /\ 1 <= mark /\ mark <= st.high
  BY <1>3, <1>5, <1>6
<1>8. ASSUME NEW k \in ReadFrom(st) PROVE mark <= k
  <2>1. k \in Nat
    BY KeysAndGroups DEF ReadFrom
  <2>2. CASE k >= st.high
    BY <1>1, <1>7, <2>1, <2>2, SMT
  <2>3. ASSUME NEW r \in DOMAIN st.scopes, NEW c \in Range(st.scopes[r]), InScope(c, k)
        PROVE mark <= k
    <3> DEFINE f == st.scopes[r][1].min
    <3>1. f \in Nat /\ f <= c.min /\ c.min \in Nat /\ mark <= f
      BY <1>2, <1>5, <1>6
    <3>2. c.min <= k
      BY <2>3 DEF InScope, ContainsKey
    <3> HIDE DEF f
    <3> QED BY <1>7, <2>1, <3>1, <3>2, SMT
  <2> QED BY <2>2, <2>3 DEF ReadFrom
<1> QED BY <1>7, <1>8 DEF mark

\* The state that checkpoint saves covers what its readers do.
LEMMA NewQueueStateFacts ==
    ASSUME NEW done, NEW bound \in Nat, 1 <= bound,
           NEW rs \in ReaderMaps(done, bound)
    PROVE LET st == NewQueueState(bound, rs)
          IN /\ IsState(st, bound) /\ st.high = bound
             /\ HeldBy(rs) \subseteq ReadFrom(st)
             /\ \A k \in Keys : k >= bound => k \in ReadFrom(st)
<1> DEFINE st == NewQueueState(bound, rs)
           D == {x \in DOMAIN rs : rs[x].slices # <<>>}
           scopes == [r \in D |-> [i \in DOMAIN rs[r].slices |->
                                      Scope(rs[r].slices[i])]]
<1>1. st.high = bound /\ st.scopes = scopes
  BY DEF NewQueueState
<1>2. /\ DOMAIN rs \subseteq ReaderIDs
      /\ \A r \in DOMAIN rs : rs[r].slices \in Lists(Slices(done, bound))
  BY ReaderMapElim
<1>3. /\ DOMAIN scopes = D /\ D \subseteq DOMAIN rs
      /\ \A r \in DOMAIN rs : r \notin D => rs[r].slices = <<>>
      /\ \A r \in D : /\ rs[r].slices # <<>>
                      /\ scopes[r] = [i \in DOMAIN rs[r].slices |->
                                        Scope(rs[r].slices[i])]
  OBVIOUS
<1> HIDE DEF st, D, scopes
<1>4. ASSUME NEW r \in D
      PROVE /\ scopes[r] \in Lists(Scopes(bound)) /\ scopes[r] # <<>>
            /\ DOMAIN scopes[r] = DOMAIN rs[r].slices
            /\ \A i \in DOMAIN scopes[r] : scopes[r][i] = Scope(rs[r].slices[i])
  <2> DEFINE l == rs[r].slices
             q == scopes[r]
             T == Slices(done, bound)
             C == Scopes(bound)
  <2>1. l \in Lists(T) /\ T \in SUBSET Slices(done, bound) /\ l # <<>>
    BY <1>2, <1>3
  <2>2. q = [i \in DOMAIN l |-> Scope(l[i])] /\ DOMAIN q = DOMAIN l
        /\ \A i \in DOMAIN l : q[i] = Scope(l[i])
    BY <1>3
  <2> HIDE DEF l, q, T
  <2>3. /\ Len(l) \in Nat /\ DOMAIN l = 1 .. Len(l)
        /\ \A i \in DOMAIN l : l[i] \in Slices(done, bound)
        /\ \A i, j \in DOMAIN l : i < j => l[i].max <= l[j].min
    BY <2>1, ListElements
  <2>4. ASSUME NEW i \in DOMAIN l
        PROVE q[i] \in C /\ q[i].min = l[i].min /\ q[i].max = l[i].max
    <3> DEFINE s == l[i]
               c == Scope(s)
    <3>0. s \in Slices(done, bound)
      BY <2>3
    <3> HIDE DEF s
    <3>1. /\ s.min \in Nat /\ s.max \in Nat /\ s.groups \in SUBSET Universal
          /\ 1 <= s.min /\ s.min <= s.max /\ s.max <= bound
      BY <3>0, SliceElim
    <3>2. c = [min |-> s.min, max |-> s.max, groups |-> s.groups]
      BY DEF Scope
    <3> HIDE DEF c
    <3>3. c.min = s.min /\ c.max = s.max /\ c.groups = s.groups
      BY <3>2
    <3>4. c \in ScopeSet
      BY <3>1, <3>2 DEF ScopeSet
    <3>5. c \in C
      BY <3>1, <3>3, <3>4 DEF Scopes
    <3>6. q[i] = c
      BY <2>2 DEF c, s
    <3> QED BY <3>3, <3>5, <3>6 DEF s
  <2> HIDE DEF C
  <2>5. q \in Seq(C) /\ Len(q) = Len(l)
    <3>1. q = [i \in 1 .. Len(l) |-> q[i]]
      <4>1. q = [i \in DOMAIN q |-> q[i]]
        BY <2>2
      <4> QED BY <2>2, <2>3, <4>1
    <3>2. \A i \in 1 .. Len(l) : q[i] \in C
      BY <2>3, <2>4
    <3> QED BY <2>3, <3>1, <3>2, SMT
  <2>6. q # <<>>
    <3>1. Len(l) # 0
      <4>1. l \in Seq(T)
        BY <2>1 DEF Lists
      <4> QED BY <2>1, <4>1, SMT
    <3> QED BY <2>5, <3>1
  <2>7. \A i, j \in DOMAIN q : i < j => q[i].max <= q[j].min
    <3> SUFFICES ASSUME NEW i \in DOMAIN q, NEW j \in DOMAIN q, i < j
                 PROVE q[i].max <= q[j].min
      OBVIOUS
    <3>1. l[i].max <= l[j].min /\ q[i].max = l[i].max /\ q[j].min = l[j].min
      BY <2>2, <2>3, <2>4
    <3> QED BY <3>1
  <2>8. q \in Lists(C)
    BY <2>5, <2>7 DEF Lists
  <2> QED BY <2>2, <2>6, <2>8 DEF l, q, C
<1>5. IsState(st, bound)
  <2>1. st.high \in Nat /\ 1 <= st.high /\ st.high <= bound
    BY <1>1, SMT
  <2>2. DOMAIN st.scopes \subseteq ReaderIDs
    BY <1>1, <1>2, <1>3
  <2>3. \A r \in DOMAIN st.scopes :
          st.scopes[r] \in Lists(Scopes(st.high)) /\ st.scopes[r] # <<>>
    BY <1>1, <1>3, <1>4
  <2> QED BY <2>1, <2>2, <2>3 DEF IsState
<1>6. ASSUME NEW k \in HeldBy(rs) PROVE k \in ReadFrom(st)
  <2>1. PICK r \in DOMAIN rs : k \in Keys /\ k \in Held(Range(rs[r].slices))
    BY DEF HeldBy
  <2>2. PICK i \in DOMAIN rs[r].slices : Covers(rs[r].slices[i], k)
    BY <2>1 DEF Held, Range
  <2>3. rs[r].slices[i] \in Slices(done, bound)
    BY ListOfReader
  <2>4. InScope(rs[r].slices[i], k)
    BY <2>2, <2>3, CoveredInScope
  <2>5. r \in D
    <3>1. Range(<<>>) = {}
      BY SmallLists
    <3>2. rs[r].slices # <<>>
      BY <2>1, <3>1 DEF Held
    <3> QED BY <1>3, <3>2
  <2> DEFINE s == rs[r].slices[i]
             c == scopes[r][i]
  <2>6. c = Scope(s) /\ c \in Range(scopes[r])
    BY <1>4, <2>2, <2>5 DEF Range
  <2> HIDE DEF s, c
  <2>7. c.min = s.min /\ c.max = s.max /\ c.groups = s.groups
    BY <2>6 DEF Scope
  <2>8. InScope(c, k)
    BY <2>4, <2>7 DEF InScope, ContainsKey, s
  <2> QED BY <1>1, <1>3, <2>1, <2>5, <2>6, <2>8 DEF ReadFrom
<1>7. \A k \in Keys : k >= bound => k \in ReadFrom(st)
  BY <1>1 DEF ReadFrom
<1>8. HeldBy(rs) \subseteq ReadFrom(st)
  BY <1>6
<1> QED BY <1>1, <1>5, <1>7, <1>8 DEF st

-----------------------------------------------------------------------------
(* What the steps do to the readers *)

\* More executed tasks and more readable keys: readers stay proper ones.
LEMMA ReadersGrow ==
    ASSUME NEW done, NEW more, done \subseteq more,
           NEW bound \in Nat, NEW higher \in Nat, bound <= higher
    PROVE /\ Lists(Slices(done, bound)) \subseteq Lists(Slices(more, higher))
          /\ ReaderSet(done, bound) \subseteq ReaderSet(more, higher)
          /\ ReaderMaps(done, bound) \subseteq ReaderMaps(more, higher)
<1>1. Slices(done, bound) \subseteq Slices(more, higher)
  BY SlicesGrow
<1>2. Lists(Slices(done, bound)) \subseteq Lists(Slices(more, higher))
  BY <1>1, ListsGrow
<1>3. ReaderSet(done, bound) \subseteq ReaderSet(more, higher)
  <2> DEFINE A == Lists(Slices(done, bound))
             B == Lists(Slices(more, higher))
  <2>1. \A x \in [slices : A, next : Nat] : x \in [slices : B, next : Nat]
    <3>1. A \subseteq B
      BY <1>2
    <3> HIDE DEF A, B
    <3> QED BY <3>1
  <2> QED BY <2>1 DEF ReaderSet
<1>4. ASSUME NEW rs \in ReaderMaps(done, bound) PROVE rs \in ReaderMaps(more, higher)
  <2>1. /\ DOMAIN rs \in SUBSET ReaderIDs /\ rs = [r \in DOMAIN rs |-> rs[r]]
        /\ \A r \in DOMAIN rs : rs[r] \in ReaderSet(more, higher)
    <3>1. /\ DOMAIN rs \subseteq ReaderIDs /\ rs = [r \in DOMAIN rs |-> rs[r]]
          /\ \A r \in DOMAIN rs : rs[r] \in ReaderSet(done, bound)
      BY <1>4, ReaderMapElim, SMT
    <3> QED BY <1>3, <3>1
  <2> QED BY <2>1, ReaderMapIntro
<1> QED BY <1>2, <1>3, <1>4

\* processNewRange: the default reader covers the new range, merged or as a
\* slice of its own, and everything it covered before.
LEMMA NewRangeFacts ==
    ASSUME NEW done, NEW low \in Nat, 1 <= low, NEW m \in Nat, low <= m,
           NEW rs \in ReaderMaps(done, low), NEW force \in BOOLEAN
    PROVE LET new == NewSlice([min |-> low, max |-> m, groups |-> Universal])
              slices == rs[DefaultReaderId].slices
              reader == IF DefaultReaderId \notin DOMAIN rs
                        THEN NewReader(<<new>>)
                        ELSE IF force THEN Reset(slices \o NonEmpty(<<new>>))
                        ELSE Reset(MergeSlices(slices, <<new>>))
              all == WithReader(rs, DefaultReaderId, reader)
          IN /\ all \in ReaderMaps(done, m)
             /\ HeldBy(rs) \subseteq HeldBy(all)
             /\ \A k \in Keys : low <= k /\ k < m => k \in HeldBy(all)
\* A reader is added, or replaced by one that covers what it covered.
<1>ReplaceReader.
      ASSUME NEW bound, NEW rs2 \in ReaderMaps(done, bound),
             NEW r \in ReaderIDs, NEW x \in ReaderSet(done, bound),
             r \in DOMAIN rs2 => Held(Range(rs2[r].slices)) \subseteq Held(Range(x.slices))
      PROVE /\ WithReader(rs2, r, x) \in ReaderMaps(done, bound)
            /\ HeldBy(rs2) \subseteq HeldBy(WithReader(rs2, r, x))
            /\ Held(Range(x.slices)) \subseteq HeldBy(WithReader(rs2, r, x))
  <2> USE <1>ReplaceReader
  \* WithReader: a reader is added or replaced and the others are still there.
  <2>OthersStay.
        ASSUME NEW rs1 \in ReaderMaps(done, bound), NEW r1 \in ReaderIDs,
               NEW x1 \in ReaderSet(done, bound)
        PROVE /\ WithReader(rs1, r1, x1) \in ReaderMaps(done, bound)
              /\ Held(Range(x1.slices)) \subseteq HeldBy(WithReader(rs1, r1, x1))
              /\ \A k \in HeldBy(rs1) :
                    \/ k \in HeldBy(WithReader(rs1, r1, x1))
                    \/ r1 \in DOMAIN rs1 /\ k \in Held(Range(rs1[r1].slices))
    BY <2>OthersStay, WithReaderFacts
  <2> DEFINE w == WithReader(rs2, r, x)
  <2>1. /\ w \in ReaderMaps(done, bound)
        /\ Held(Range(x.slices)) \subseteq HeldBy(w)
        /\ \A k \in HeldBy(rs2) :
              \/ k \in HeldBy(w)
              \/ r \in DOMAIN rs2 /\ k \in Held(Range(rs2[r].slices))
    BY <2>OthersStay
  <2> HIDE DEF w
  <2>2. HeldBy(rs2) \subseteq HeldBy(w)
    BY <2>1
  <2> QED BY <2>1, <2>2 DEF w
\* No slice of a list goes beyond what is readable.
<1>SlicesBelowBound.
      ASSUME NEW bound, NEW l \in Lists(Slices(done, bound))
      PROVE \A x \in Range(l) : x.max \in Nat /\ x.max <= bound
  <2> USE <1>SlicesBelowBound
  <2> DEFINE Q == Slices(done, bound)
  <2>1. Q \in SUBSET Slices(done, bound) /\ l \in Lists(Q)
    OBVIOUS
  <2> HIDE DEF Q
  <2>2. Range(l) \subseteq Q
    BY <2>1, ListElements
  <2> QED BY <2>1, <2>2, SliceElim
<1> DEFINE r == DefaultReaderId
           c == [min |-> low, max |-> m, groups |-> Universal]
           new == NewSlice(c)
           one == <<new>>
           slices == rs[r].slices
           T == Slices(done, m)
           forced == slices \o NonEmpty(one)
           merged == MergeSlices(slices, one)
           reader == IF r \notin DOMAIN rs THEN NewReader(one)
                     ELSE IF force THEN Reset(forced) ELSE Reset(merged)
           all == WithReader(rs, r, reader)
<1>1. c.min = low /\ c.max = m /\ c.groups = Universal
  OBVIOUS
<1>2. m <= m /\ Universal \in SUBSET Universal
  BY SMT
<1> HIDE DEF c
<1>3. /\ new \in T /\ new.min = low /\ new.max = m
      /\ \A k \in Keys : InScope(c, k) => Covers(new, k)
  BY <1>1, <1>2, NewSliceFacts
<1> HIDE DEF new
<1>4. one \in Lists(T) /\ Range(one) = {new}
  BY <1>3, SmallLists
<1> HIDE DEF one
<1>5. \A k \in Keys : low <= k /\ k < m => k \in Held(Range(one))
  <2> SUFFICES ASSUME NEW k \in Keys, low <= k, k < m PROVE k \in Held(Range(one))
    OBVIOUS
  <2>1. GroupOf[k] \in Universal
    BY KeysAndGroups
  <2>2. InScope(c, k)
    BY <1>1, <2>1 DEF InScope, ContainsKey
  <2>3. Covers(new, k)
    BY <1>3, <2>2
  <2> QED BY <1>4, <2>3 DEF Held
<1>6. rs \in ReaderMaps(done, m) /\ Lists(Slices(done, low)) \subseteq Lists(T)
  BY ReadersGrow
<1>7. r \in ReaderIDs
  BY NextReader DEF DefaultReaderId
<1>8. ASSUME r \in DOMAIN rs
      PROVE /\ slices \in Lists(T) /\ slices \in Lists(Slices(done, low))
  BY <1>6, <1>8, ListOfReader
<1> HIDE DEF slices, r
<1>9. /\ reader \in ReaderSet(done, m)
      /\ Held(Range(one)) \subseteq Held(Range(reader.slices))
      /\ r \in DOMAIN rs => Held(Range(slices)) \subseteq Held(Range(reader.slices))
  <2>1. CASE r \notin DOMAIN rs
    <3>1. reader = NewReader(one)
      BY <2>1
    <3>2. NewReader(one) \in ReaderSet(done, m) /\ NewReader(one).slices = one
      BY <1>4, NewReaderFacts
    <3> HIDE DEF reader
    <3> QED BY <2>1, <3>1, <3>2
  <2>2. CASE r \in DOMAIN rs /\ force
    <3>1. reader = Reset(forced)
      BY <2>2
    <3> DEFINE left == NonEmpty(one)
    <3>2. /\ left \in Lists(Full(done, m)) /\ Held(Range(left)) = Held(Range(one))
          /\ \A x \in Range(left) : x \in Range(one)
      BY <1>4, NonEmptyFacts
    <3> HIDE DEF left
    <3>3. left \in Lists(T)
      <4>1. Full(done, m) \subseteq T
        BY DEF Full
      <4>2. Lists(Full(done, m)) \subseteq Lists(T)
        BY <4>1, ListsGrow
      <4> QED BY <3>2, <4>2
    <3>4. slices \in Lists(T) /\ \A x \in Range(slices) : x.max <= low
      BY <1>8, <2>2, <1>SlicesBelowBound
    <3>5. Before(Range(slices), Range(left))
      BY <1>3, <1>4, <3>2, <3>4 DEF Before
    <3> DEFINE both == slices \o left
    <3>6. both \in Lists(T)
      BY <3>3, <3>4, <3>5, ConcatInOrder
    <3>7. slices \in Seq(T) /\ left \in Seq(T)
      BY <3>3, <3>4 DEF Lists
    <3>8. Range(both) = Range(slices) \cup Range(left)
      BY <3>7, RangeOfConcat
    <3> HIDE DEF both
    <3>9. Held(Range(slices)) \cup Held(Range(left)) \subseteq Held(Range(both))
      BY <3>8 DEF Held
    <3>10. Reset(both) \in ReaderSet(done, m) /\ Reset(both).slices = both
      BY <3>6, ResetFacts
    <3>11. reader = Reset(both)
      BY <3>1 DEF both, left
    <3> HIDE DEF reader
    <3> QED BY <3>2, <3>9, <3>10, <3>11
  <2>3. CASE r \in DOMAIN rs /\ ~force
    <3>1. reader = Reset(merged)
      BY <2>3
    <3>2. slices \in Lists(T)
      BY <1>8, <2>3
    <3>3. /\ merged \in Lists(Full(done, m))
          /\ Held(Range(slices)) \cup Held(Range(one)) \subseteq Held(Range(merged))
      BY <1>4, <3>2, MergeSlicesFacts
    <3> HIDE DEF merged
    <3>4. merged \in Lists(T)
      <4>1. Full(done, m) \subseteq T
        BY DEF Full
      <4>2. Lists(Full(done, m)) \subseteq Lists(T)
        BY <4>1, ListsGrow
      <4> QED BY <3>3, <4>2
    <3>5. Reset(merged) \in ReaderSet(done, m) /\ Reset(merged).slices = merged
      BY <3>4, ResetFacts
    <3> HIDE DEF reader
    <3> QED BY <3>1, <3>3, <3>5
  <2> QED BY <2>1, <2>2, <2>3
<1> HIDE DEF reader
<1>10. /\ all \in ReaderMaps(done, m) /\ HeldBy(rs) \subseteq HeldBy(all)
       /\ Held(Range(reader.slices)) \subseteq HeldBy(all)
  BY <1>6, <1>7, <1>9, <1>ReplaceReader DEF slices
<1> HIDE DEF all
<1>12. \A k \in Keys : low <= k /\ k < m => k \in HeldBy(all)
  BY <1>5, <1>9, <1>10
<1>13. all \in ReaderMaps(done, m)
  BY <1>10
<1> QED BY <1>10, <1>12, <1>13
        DEF all, reader, forced, merged, one, new, c, slices, r

\* The list of one reader is replaced.
LEMMA OneReaderFacts ==
    ASSUME NEW done, NEW bound, NEW rs \in ReaderMaps(done, bound),
           NEW r \in DOMAIN rs, NEW x \in ReaderSet(done, bound), NEW lost,
           Held(Range(rs[r].slices)) \ lost \subseteq Held(Range(x.slices))
    PROVE /\ [rs EXCEPT ![r] = x] \in ReaderMaps(done, bound)
          /\ HeldBy(rs) \ lost \subseteq HeldBy([rs EXCEPT ![r] = x])
<1> DEFINE new == [rs EXCEPT ![r] = x]
<1>1. /\ DOMAIN rs \in SUBSET ReaderIDs
      /\ \A y \in DOMAIN rs : rs[y] \in ReaderSet(done, bound)
  BY ReaderMapElim
<1>2. /\ new = [y \in DOMAIN rs |-> new[y]] /\ DOMAIN new = DOMAIN rs
      /\ new[r] = x /\ \A y \in DOMAIN rs : y # r => new[y] = rs[y]
  OBVIOUS
<1> HIDE DEF new
<1>3. \A y \in DOMAIN rs : new[y] \in ReaderSet(done, bound)
  BY <1>1, <1>2
<1>4. new \in ReaderMaps(done, bound)
  BY <1>1, <1>2, <1>3, ReaderMapIntro
<1>5. HeldBy(rs) \ lost \subseteq HeldBy(new)
  <2> SUFFICES ASSUME NEW k \in HeldBy(rs) \ lost PROVE k \in HeldBy(new)
    OBVIOUS
  <2>1. PICK y \in DOMAIN rs : k \in Keys /\ k \in Held(Range(rs[y].slices))
    BY DEF HeldBy
  <2>2. k \in Held(Range(new[y].slices))
    <3>1. CASE y = r
      BY <1>2, <2>1, <3>1
    <3>2. CASE y # r
      BY <1>2, <2>1, <3>2
    <3> QED BY <3>1, <3>2
  <2> QED BY <1>2, <2>1, <2>2 DEF HeldBy
<1> QED BY <1>4, <1>5 DEF new

\* One slice of a list is replaced by one with the same range.
LEMMA OneSliceFacts ==
    ASSUME NEW done, NEW bound, NEW l \in Lists(Slices(done, bound)),
           NEW i \in DOMAIN l, NEW s \in Slices(done, bound),
           s.min = l[i].min, s.max = l[i].max, NEW lost,
           \A k \in Keys \ lost : Covers(l[i], k) => Covers(s, k)
    PROVE LET new == [l EXCEPT ![i] = s]
          IN /\ new \in Lists(Slices(done, bound)) /\ Len(new) = Len(l)
             /\ Held(Range(l)) \ lost \subseteq Held(Range(new))
<1> DEFINE new == [l EXCEPT ![i] = s]
           Q == Slices(done, bound)
<1>1. /\ new = [j \in DOMAIN l |-> new[j]] /\ DOMAIN new = DOMAIN l
      /\ new[i] = s /\ \A j \in DOMAIN l : j # i => new[j] = l[j]
  OBVIOUS
<1> HIDE DEF new
<1>2. Q \in SUBSET Slices(done, bound) /\ l \in Lists(Q) /\ s \in Q
  OBVIOUS
<1>3. \A x \in Q : x.min \in Nat /\ x.max \in Nat
  BY SliceElim
<1> HIDE DEF Q
<1>4. \A j \in DOMAIN l : l[j] \in Q
  BY <1>2, ListElements
<1>5. ASSUME NEW j \in DOMAIN l
      PROVE /\ new[j] \in Q /\ new[j].min \in Nat /\ new[j].max \in Nat
            /\ l[j].min <= new[j].min /\ new[j].max <= l[j].max
            /\ \A k \in Keys \ lost : Covers(l[j], k) => Covers(new[j], k)
  <2>1. /\ new[j] \in Q /\ new[j].min = l[j].min /\ new[j].max = l[j].max
        /\ \A k \in Keys \ lost : Covers(l[j], k) => Covers(new[j], k)
    <3>1. CASE j = i
      BY <1>1, <1>2, <3>1
    <3>2. CASE j # i
      BY <1>1, <1>4, <3>2
    <3> QED BY <3>1, <3>2
  <2>2. l[j].min \in Nat /\ l[j].max \in Nat
    BY <1>3, <1>4
  <2>3. \A n \in Nat : n <= n
    BY SMT
  <2> QED BY <2>1, <2>2, <2>3
<1>6. new \in Lists(Q) /\ DOMAIN new = DOMAIN l /\ Len(new) = Len(l)
  BY <1>1, <1>5, ReplaceInPlace
<1>7. Held(Range(l)) \ lost \subseteq Held(Range(new))
  BY <1>1, <1>5, HeldInPlace
<1> QED BY <1>6, <1>7 DEF new, Q

\* A list and a place in it, or nil, are a reader.
LEMMA MakeReader ==
    ASSUME NEW done, NEW bound, NEW l \in Lists(Slices(done, bound)),
           NEW n \in Nat, n <= Len(l)
    PROVE LET x == [slices |-> l, next |-> n]
          IN x \in ReaderSet(done, bound) /\ x.slices = l
<1> DEFINE x == [slices |-> l, next |-> n]
<1>1. x.slices = l /\ x.next = n
      /\ x \in [slices : Lists(Slices(done, bound)), next : Nat]
  OBVIOUS
<1> HIDE DEF x
<1>2. x \in ReaderSet(done, bound)
  BY <1>1 DEF ReaderSet
<1> QED BY <1>1, <1>2 DEF x

\* Ack: acknowledging an executable changes no slice otherwise.
LEMMA AckFacts ==
    ASSUME NEW done, NEW bound \in Nat, NEW rs \in ReaderMaps(done, bound),
           NEW r \in DOMAIN rs, NEW i \in DOMAIN rs[r].slices, NEW k \in Keys
    PROVE LET new == [rs EXCEPT ![r].slices[i].acked = @ \cup {k}]
          IN /\ new \in ReaderMaps(done \cup {k}, bound)
             /\ HeldBy(rs) \subseteq HeldBy(new)
<1> DEFINE more == done \cup {k}
           l == rs[r].slices
           n == rs[r].next
           s == l[i]
           t == [s EXCEPT !.acked = @ \cup {k}]
           list == [l EXCEPT ![i] = t]
           x == [slices |-> list, next |-> n]
           new == [rs EXCEPT ![r] = x]
<1>1. /\ done \subseteq more /\ bound <= bound
  BY SMT
<1>2. rs \in ReaderMaps(more, bound) /\ Slices(done, bound) \subseteq Slices(more, bound)
  BY <1>1, ReadersGrow, SlicesGrow
<1>3. /\ l \in Lists(Slices(more, bound)) /\ n \in Nat /\ n <= Len(l)
      /\ Len(l) \in Nat /\ rs[r] = [slices |-> l, next |-> n]
  <2> DEFINE y == rs[r]
  <2>1. y \in ReaderSet(more, bound)
    BY <1>2, ReaderMapElim
  <2>2. y \in [slices : Lists(Slices(more, bound)), next : Nat]
    BY <2>1 DEF ReaderSet
  <2> HIDE DEF y
  <2>3. /\ y.slices \in Lists(Slices(more, bound)) /\ y.next \in Nat
        /\ y.next <= Len(y.slices) /\ Len(y.slices) \in Nat
    BY <2>1, ReaderElim
  <2>4. y = [slices |-> y.slices, next |-> y.next]
    BY <2>2
  <2> QED BY <2>3, <2>4 DEF y
<1>4. s \in Slices(done, bound)
  BY ListOfReader
<1>5. [rs EXCEPT ![r].slices[i].acked = @ \cup {k}] = new
  <2>1. [rs[r] EXCEPT !.slices[i].acked = @ \cup {k}] = x
    <3>1. rs[r] = [slices |-> l, next |-> n]
      BY <1>3
    <3> QED BY <3>1, SMT
  <2> HIDE DEF x
  <2> QED BY <2>1
<1> HIDE DEF l, n, more
<1>11. i \in DOMAIN l
  BY DEF l
<1> HIDE DEF s
<1>6. /\ t \in Slices(done \cup {k}, bound) /\ t.min = s.min /\ t.max = s.max
      /\ \A y : Covers(s, y) => Covers(t, y)
  BY <1>4, AckedFacts, SMT
<1>7. t \in Slices(more, bound)
  BY <1>6 DEF more
<1> HIDE DEF t
<1>8. /\ t.min = l[i].min /\ t.max = l[i].max
      /\ \A y \in Keys \ {} : Covers(l[i], y) => Covers(t, y)
  BY <1>6 DEF s
<1>9. /\ list \in Lists(Slices(more, bound)) /\ Len(list) = Len(l)
      /\ Held(Range(l)) \ {} \subseteq Held(Range(list))
  BY <1>3, <1>7, <1>8, <1>11, OneSliceFacts
<1> HIDE DEF list
<1>10. n <= Len(list)
  BY <1>3, <1>9
<1>12. x \in ReaderSet(more, bound) /\ x.slices = list
  BY <1>3, <1>9, <1>10, MakeReader
<1> HIDE DEF x
<1>13. Held(Range(rs[r].slices)) \ {} \subseteq Held(Range(x.slices))
  BY <1>9, <1>12 DEF l
<1>14. new \in ReaderMaps(more, bound) /\ HeldBy(rs) \ {} \subseteq HeldBy(new)
  BY <1>2, <1>12, <1>13, OneReaderFacts
<1> HIDE DEF new
<1>15. new \in ReaderMaps(done \cup {k}, bound) /\ HeldBy(rs) \subseteq HeldBy(new)
  BY <1>14 DEF more
<1> QED BY <1>5, <1>15

-----------------------------------------------------------------------------
(* The inductive invariant *)

\* A queue that starts from the state reads every task of rows that is not done,
\* and no row is below the point from which it deletes.
Safe(st, rows, done, top) ==
    /\ IsState(st, top)
    /\ rows \ done \subseteq ReadFrom(st)
    /\ \A k \in rows : MarkOf(st) <= k

\* The inductive invariant.  Every task that is stored and not executed is ahead
\* of the queue or covered by a reader; every row is at or above the point up to
\* which the queue has deleted; and a queue that starts from either state of the
\* shard, the one in memory or the one in its row, would lose nothing.
QueueInv ==
    /\ stored \subseteq Keys /\ executed \subseteq Keys
    /\ watermark \in 1 .. End
    /\ nonReadable \in 1 .. watermark /\ deletion \in 1 .. watermark
    /\ readers \in ReaderMaps(executed, nonReadable)
    /\ \A k \in stored \ executed : k >= nonReadable \/ k \in HeldBy(readers)
    /\ \A k \in stored : deletion <= k
    /\ Safe(shardInfo, stored, executed, watermark)
    /\ Safe(saved, stored, executed, watermark)

-----------------------------------------------------------------------------
(* Every step keeps it *)

\* A state stays safe when tasks are executed, rows are deleted, and tasks are
\* written at or above the watermark.
LEMMA SafeGrows ==
    ASSUME NEW st, NEW rows, NEW done, NEW top \in Nat, Safe(st, rows, done, top),
           NEW rows2, NEW done2, NEW top2 \in Nat, done \subseteq done2, top <= top2,
           \A k \in rows2 \ rows : k \in Keys /\ k >= top
    PROVE Safe(st, rows2, done2, top2)
<1>1. /\ IsState(st, top) /\ rows \ done \subseteq ReadFrom(st)
      /\ \A k \in rows : MarkOf(st) <= k
  BY DEF Safe
<1>2. st.high \in Nat /\ st.high <= top
  BY <1>1 DEF IsState
<1>3. MarkOf(st) \in Nat /\ MarkOf(st) <= st.high
  BY <1>1, MarkFacts
<1>4. IsState(st, top2)
  <2>1. st.high <= top2
    BY <1>2, SMT
  <2> QED BY <1>1, <2>1 DEF IsState
<1>5. ASSUME NEW k \in rows2 \ rows PROVE k \in ReadFrom(st) /\ MarkOf(st) <= k
  <2>1. k \in Keys /\ k \in Nat /\ k >= top
    BY KeysAndGroups
  <2>2. k >= st.high
    BY <1>2, <2>1, SMT
  <2>3. MarkOf(st) <= k
    BY <1>2, <1>3, <2>1, SMT
  <2> QED BY <2>1, <2>2, <2>3 DEF ReadFrom
<1>6. rows2 \ done2 \subseteq ReadFrom(st) /\ \A k \in rows2 : MarkOf(st) <= k
  BY <1>1, <1>5
<1> QED BY <1>4, <1>6 DEF Safe

\* QueueInv, with the bounds as inequalities.
LEMMA QueueInvElim ==
    ASSUME QueueInv
    PROVE /\ stored \subseteq Keys /\ executed \subseteq Keys
          /\ watermark \in Nat /\ nonReadable \in Nat /\ deletion \in Nat
          /\ 1 <= watermark /\ watermark <= End
          /\ 1 <= nonReadable /\ nonReadable <= watermark
          /\ 1 <= deletion /\ deletion <= watermark
          /\ readers \in ReaderMaps(executed, nonReadable)
          /\ \A k \in stored \ executed : k >= nonReadable \/ k \in HeldBy(readers)
          /\ \A k \in stored : deletion <= k
          /\ Safe(shardInfo, stored, executed, watermark)
          /\ Safe(saved, stored, executed, watermark)
<1>1. watermark \in 1 .. End /\ nonReadable \in 1 .. watermark /\ deletion \in 1 .. watermark
  BY DEF QueueInv
<1>2. /\ watermark \in Nat /\ nonReadable \in Nat /\ deletion \in Nat
      /\ 1 <= watermark /\ watermark <= End
      /\ 1 <= nonReadable /\ nonReadable <= watermark
      /\ 1 <= deletion /\ deletion <= watermark
  BY <1>1, EndFacts, SMT
<1> QED BY <1>2 DEF QueueInv

\* The readers of the queue lose nothing against themselves.
LEMMA ReadersKept ==
    ASSUME QueueInv
    PROVE /\ readers \in Keeping(HeldBy(readers), executed, nonReadable)
          /\ nonReadable \in Nat
<1>1. readers \in ReaderMaps(executed, nonReadable) /\ nonReadable \in Nat
  BY QueueInvElim
<1> QED BY <1>1 DEF Keeping

\* checkpoint from readers that lose nothing against the present ones.
LEMMA checkpointInv ==
    ASSUME QueueInv, NEW rs \in Keeping(HeldBy(readers), executed, nonReadable),
           checkpoint(rs) \/ checkpointFails(rs)
    PROVE QueueInv' /\ stored \ stored' \subseteq executed
\* A checkpoint, whether its last calls succeed or fail: rows are deleted before
\* the state that no longer needs them is set.
<1>CheckpointEnds.
      ASSUME NEW kept \in Keeping(HeldBy(readers), executed, nonReadable),
             NEW state, state = NewQueueState(nonReadable, kept),
             readers' = kept,
             UNCHANGED <<executed, watermark, nonReadable, saved>>,
             \/ CompleteAndSet(MarkOf(state), state) \/ FailToComplete(MarkOf(state), state) \/ FailToSet(MarkOf(state), state)
      PROVE QueueInv' /\ stored \ stored' \subseteq executed
  <2> USE <1>CheckpointEnds
  \* What a checkpoint may delete and save, from the readers it leaves behind: the
  \* mark is below every task that they cover, so only executed ones are deleted.
  <2>CheckpointMark.
        ASSUME NEW kept1 \in Keeping(HeldBy(readers), executed, nonReadable)
        PROVE LET state1 == NewQueueState(nonReadable, kept1)
                  mark == MarkOf(state1)
              IN /\ mark \in Nat /\ 1 <= mark /\ mark <= watermark
                 /\ RangeCompleted(mark) \subseteq stored
                 /\ stored \ RangeCompleted(mark) \subseteq executed
                 /\ \A k \in RangeCompleted(mark) : mark <= k
                 /\ Safe(state1, RangeCompleted(mark), executed, watermark)
                 /\ kept1 \in ReaderMaps(executed, nonReadable)
                 /\ \A k \in stored \ executed : k >= nonReadable \/ k \in HeldBy(kept1)
    <3> USE <2>CheckpointMark
    <3> DEFINE state1 == NewQueueState(nonReadable, kept1)
               mark == MarkOf(state1)
               left == RangeCompleted(mark)
    <3>1. /\ stored \subseteq Keys /\ watermark \in Nat /\ nonReadable \in Nat
          /\ deletion \in Nat /\ 1 <= nonReadable /\ nonReadable <= watermark
          /\ \A k \in stored \ executed : k >= nonReadable \/ k \in HeldBy(readers)
          /\ \A k \in stored : deletion <= k
      BY QueueInvElim
    <3>2. /\ kept1 \in ReaderMaps(executed, nonReadable)
          /\ HeldBy(readers) \ executed \subseteq HeldBy(kept1)
      BY DEF Keeping
    <3>3. /\ IsState(state1, nonReadable) /\ state1.high = nonReadable
          /\ HeldBy(kept1) \subseteq ReadFrom(state1)
          /\ \A k \in Keys : k >= nonReadable => k \in ReadFrom(state1)
      BY <3>1, <3>2, NewQueueStateFacts
    <3> HIDE DEF state1
    <3>4. /\ mark \in Nat /\ 1 <= mark /\ mark <= nonReadable
          /\ \A k \in ReadFrom(state1) : mark <= k
      <4>1. /\ mark \in Nat /\ 1 <= mark /\ mark <= state1.high
            /\ \A k \in ReadFrom(state1) : mark <= k
        BY <3>3, MarkFacts
      <4> HIDE DEF mark
      <4> QED BY <3>3, <4>1
    <3> HIDE DEF mark
    <3>5. mark <= watermark
      BY <3>1, <3>4, SMT
    <3>6. \A k \in stored \ executed : k >= nonReadable \/ k \in HeldBy(kept1)
      BY <3>1, <3>2
    <3>7. stored \ executed \subseteq ReadFrom(state1)
      BY <3>1, <3>3, <3>6
    <3>8. /\ left \subseteq stored
          /\ \A k \in left : k \in stored /\ ~(deletion <= k /\ k < mark)
          /\ \A k \in stored \ left : k < mark
      BY DEF RangeCompleted
    <3> HIDE DEF left
    <3>9. \A k \in left : mark <= k
      <4> SUFFICES ASSUME NEW k \in left PROVE mark <= k
        OBVIOUS
      <4>1. k \in Nat /\ deletion <= k /\ ~(deletion <= k /\ k < mark)
        BY <3>1, <3>8, KeysAndGroups
      <4> QED BY <3>4, <4>1, SMT
    <3>10. stored \ left \subseteq executed
      <4> SUFFICES ASSUME NEW k \in stored \ left, k \notin executed PROVE FALSE
        OBVIOUS
      <4>1. k \in Nat /\ k < mark /\ mark <= k
        BY <3>1, <3>4, <3>7, <3>8, KeysAndGroups
      <4> QED BY <3>4, <4>1, SMT
    <3>11. IsState(state1, watermark)
      <4>1. state1.high <= watermark
        BY <3>1, <3>3
      <4> QED BY <3>3, <4>1 DEF IsState
    <3>12. left \ executed \subseteq ReadFrom(state1)
      BY <3>7, <3>8
    <3>13. Safe(state1, left, executed, watermark)
      BY <3>9, <3>11, <3>12 DEF Safe, mark
    <3> QED BY <3>2, <3>4, <3>5, <3>6, <3>8, <3>9, <3>10, <3>13
            DEF left, mark, state1
  <2> DEFINE mark == MarkOf(state)
             left == RangeCompleted(mark)
  <2>1. /\ mark \in Nat /\ 1 <= mark /\ mark <= watermark
        /\ left \subseteq stored /\ stored \ left \subseteq executed
        /\ \A k \in left : mark <= k
        /\ Safe(state, left, executed, watermark)
        /\ kept \in ReaderMaps(executed, nonReadable)
        /\ \A k \in stored \ executed : k >= nonReadable \/ k \in HeldBy(kept)
    BY <2>CheckpointMark
  <2>2. /\ stored \subseteq Keys /\ watermark \in Nat /\ deletion \in Nat
        /\ 1 <= deletion /\ deletion <= watermark
        /\ \A k \in stored : deletion <= k
        /\ Safe(shardInfo, stored, executed, watermark)
        /\ Safe(saved, stored, executed, watermark)
    BY QueueInvElim
  <2> DEFINE higher == Max({mark, deletion})
  <2>3. \/ stored' = left /\ deletion' = higher /\ shardInfo' = state
        \/ (stored' = stored \/ stored' = left) /\ deletion' = deletion
            /\ shardInfo' = shardInfo
        \/ stored' = left /\ deletion' = higher /\ shardInfo' = shardInfo
    BY DEF CompleteAndSet, FailToComplete, FailToSet
  <2>4. /\ executed' = executed /\ watermark' = watermark
        /\ nonReadable' = nonReadable /\ saved' = saved
    OBVIOUS
  <2> HIDE DEF mark, left
  <2>5. /\ deletion \in 1 .. watermark /\ higher \in 1 .. watermark
        /\ higher = mark \/ higher = deletion
    <3>1. higher = IF mark <= deletion THEN deletion ELSE mark
      BY <2>1, <2>2, MaxOfTwo
    <3> HIDE DEF higher
    <3> QED BY <2>1, <2>2, <3>1, SMT
  <2> HIDE DEF higher
  <2>6. /\ \A k \in left : higher <= k /\ deletion <= k
    BY <2>1, <2>2, <2>5
  <2>7. watermark <= watermark
    BY <2>2, SMT
  <2>8. /\ Safe(shardInfo, left, executed, watermark)
        /\ Safe(saved, left, executed, watermark)
    <3>1. \A k \in left \ stored : k \in Keys /\ k >= watermark
      BY <2>1
    <3> QED BY <2>2, <2>7, <3>1, SafeGrows
  <2>9. /\ stored' = stored \/ stored' = left
        /\ deletion' \in 1 .. watermark
        /\ \A k \in stored' : deletion' <= k
        /\ Safe(shardInfo', stored', executed, watermark)
        /\ Safe(saved, stored', executed, watermark)
    BY <2>1, <2>2, <2>3, <2>5, <2>6, <2>8
  <2>10. /\ stored' \subseteq Keys
         /\ \A k \in stored' \ executed : k >= nonReadable \/ k \in HeldBy(kept)
         /\ stored \ stored' \subseteq executed
    BY <2>1, <2>2, <2>9
  <2>11. QueueInv'
    BY <2>1, <2>4, <2>9, <2>10 DEF QueueInv
  <2> QED BY <2>10, <2>11
\* checkpoint: shrinking, the action that moves slices, and removing readers
\* without slices lose no task.
<1>CheckpointReadersFacts.
      ASSUME NEW S, NEW done, NEW bound \in Nat,
             NEW rs1 \in Keeping(S, done, bound)
      PROVE CheckpointReaders(rs1) \subseteq Keeping(S, done, bound)
  <2> USE <1>CheckpointReadersFacts
  <2> SUFFICES ASSUME NEW kept \in CheckpointReaders(rs1)
               PROVE kept \in Keeping(S, done, bound)
    OBVIOUS
  <2> DEFINE Needed(x) == {r \in DOMAIN x : r = DefaultReaderId \/ x[r].slices # <<>>}
             cur == Shrunk(rs1)
  <2>1. cur \in Keeping(S, done, bound)
    BY ShrunkFacts
  <2>2. PICK acted \in CheckpointActions(cur) : kept = [r \in Needed(acted) |-> acted[r]]
    BY DEF CheckpointReaders
  <2> HIDE DEF cur
  <2>3. acted \in Keeping(S, done, bound)
    <3>1. \/ acted = SlicePredicate(cur)
          \/ \E g : acted = MoveGroup(cur, g)
      BY <2>2 DEF CheckpointActions
    <3>2. SlicePredicate(cur) \in Keeping(S, done, bound)
      BY <2>1, SlicePredicateFacts
    <3>3. \A g : MoveGroup(cur, g) \in Keeping(S, done, bound)
      BY <2>1, MoveGroupFacts
    <3> QED BY <3>1, <3>2, <3>3
  <2>4. acted \in ReaderMaps(done, bound)
    BY <2>3 DEF Keeping
  <2>5. /\ DOMAIN acted \subseteq ReaderIDs
        /\ \A r \in DOMAIN acted : acted[r] \in ReaderSet(done, bound)
    BY <2>4, ReaderMapElim
  <2> DEFINE D == Needed(acted)
  <2>6. D \subseteq DOMAIN acted /\ \A r \in DOMAIN acted \ D : acted[r].slices = <<>>
    OBVIOUS
  <2>7. kept = [r \in D |-> kept[r]] /\ DOMAIN kept = D
        /\ \A r \in D : kept[r] = acted[r]
    BY <2>2
  <2> HIDE DEF D
  <2>8. D \in SUBSET ReaderIDs /\ \A r \in D : kept[r] \in ReaderSet(done, bound)
    BY <2>5, <2>6, <2>7
  <2>9. kept \in ReaderMaps(done, bound)
    BY <2>7, <2>8, ReaderMapIntro
  <2>10. HeldBy(acted) \subseteq HeldBy(kept)
    <3> SUFFICES ASSUME NEW k \in HeldBy(acted) PROVE k \in HeldBy(kept)
      OBVIOUS
    <3>1. PICK r \in DOMAIN acted : k \in Keys /\ k \in Held(Range(acted[r].slices))
      BY DEF HeldBy
    <3>2. r \in D
      <4> SUFFICES ASSUME r \notin D PROVE FALSE
        OBVIOUS
      <4>1. acted[r].slices = <<>>
        BY <2>6
      <4>2. Range(<<>>) = {}
        BY SmallLists
      <4>3. k \in Held({})
        BY <3>1, <4>1, <4>2
      <4> QED BY <4>3 DEF Held
    <3> QED BY <2>7, <3>1, <3>2 DEF HeldBy
  <2>11. HeldBy(acted) \ done \subseteq HeldBy(kept)
    BY <2>10
  <2> QED BY <2>3, <2>9, <2>11, KeepingFacts
<1>1. PICK kept \in CheckpointReaders(rs) :
         LET state == NewQueueState(nonReadable, kept)
         IN /\ readers' = kept /\ UNCHANGED <<executed, watermark, nonReadable, saved>>
            /\ \/ CompleteAndSet(MarkOf(state), state)
               \/ FailToComplete(MarkOf(state), state)
               \/ FailToSet(MarkOf(state), state)
  BY DEF checkpoint, checkpointFails
<1>2. kept \in Keeping(HeldBy(readers), executed, nonReadable)
  BY ReadersKept, <1>CheckpointReadersFacts
<1> DEFINE state == NewQueueState(nonReadable, kept)
<1>3. /\ readers' = kept /\ UNCHANGED <<executed, watermark, nonReadable, saved>>
      /\ \/ CompleteAndSet(MarkOf(state), state)
         \/ FailToComplete(MarkOf(state), state)
         \/ FailToSet(MarkOf(state), state)
  BY <1>1
<1>4. state = NewQueueState(nonReadable, kept)
  OBVIOUS
<1> HIDE DEF state
<1> QED BY <1>2, <1>3, <1>4, <1>CheckpointEnds

\* Every step of the queue and of the shard.
LEMMA StepInv ==
    ASSUME QueueInv, [Next]_vars PROVE QueueInv' /\ stored \ stored' \subseteq executed
\* newQueueBase from the row: it was safe, so the new readers cover the rest.
<1>RestartInv.
      ASSUME Restart
      PROVE QueueInv'
  <2> USE <1>RestartInv
  \* newQueueBase: the readers of a queue that starts from a state cover what the
  \* state does.
  <2>StartFacts.
        ASSUME NEW done, NEW st, NEW top, IsState(st, top)
        PROVE LET rs == [r \in DOMAIN st.scopes |->
                            NewReader([i \in DOMAIN st.scopes[r] |->
                                          NewSlice(st.scopes[r][i])])]
              IN /\ rs \in ReaderMaps(done, st.high)
                 /\ \A k \in ReadFrom(st) : k >= st.high \/ k \in HeldBy(rs)
    <3> USE <2>StartFacts
    <3> DEFINE D == DOMAIN st.scopes
               list(r) == [i \in DOMAIN st.scopes[r] |-> NewSlice(st.scopes[r][i])]
               rs == [r \in D |-> NewReader(list(r))]
               T == Slices(done, st.high)
    <3>1. /\ st.high \in Nat /\ D \in SUBSET ReaderIDs
          /\ \A r \in D : st.scopes[r] \in Lists(Scopes(st.high))
      BY DEF IsState
    <3>2. ASSUME NEW r \in D
          PROVE /\ list(r) \in Lists(T) /\ DOMAIN list(r) = DOMAIN st.scopes[r]
                /\ \A i \in DOMAIN st.scopes[r] : \A k \in Keys :
                      InScope(st.scopes[r][i], k) => Covers(list(r)[i], k)
      <4> DEFINE q == st.scopes[r]
                 l == list(r)
      <4>1. q \in Lists(Scopes(st.high))
        BY <3>1
      <4>2. l = [i \in DOMAIN q |-> l[i]] /\ DOMAIN l = DOMAIN q
            /\ \A i \in DOMAIN q : l[i] = NewSlice(q[i])
        OBVIOUS
      <4> HIDE DEF q, l
      <4>3. /\ Len(q) \in Nat /\ DOMAIN q = 1 .. Len(q)
            /\ \A i \in DOMAIN q : q[i] \in Scopes(st.high)
            /\ \A i, j \in DOMAIN q : i < j => q[i].max <= q[j].min
        BY <4>1, ScopeListFacts
      <4>4. ASSUME NEW i \in DOMAIN q
            PROVE /\ l[i] \in T /\ l[i].min = q[i].min /\ l[i].max = q[i].max
                  /\ \A k \in Keys : InScope(q[i], k) => Covers(l[i], k)
        <5> DEFINE c == q[i]
                   s == NewSlice(c)
        <5>1. c \in Scopes(st.high)
          BY <4>3
        <5>2. l[i] = s
          BY <4>2
        <5> HIDE DEF c
        <5>3. /\ c.min \in Nat /\ c.max \in Nat /\ c.groups \in SUBSET Universal
              /\ 1 <= c.min /\ c.min <= c.max /\ c.max <= st.high
          BY <5>1, ScopeElim
        <5>4. /\ s \in T /\ s.min = c.min /\ s.max = c.max
              /\ \A k \in Keys : InScope(c, k) => Covers(s, k)
          BY <5>3, NewSliceFacts
        <5> HIDE DEF s
        <5> QED BY <5>2, <5>4 DEF c
      <4> HIDE DEF T
      <4>5. l \in Seq(T)
        <5>1. l = [i \in 1 .. Len(q) |-> l[i]]
          BY <4>2, <4>3
        <5>2. \A i \in 1 .. Len(q) : l[i] \in T
          BY <4>3, <4>4
        <5> QED BY <4>3, <5>1, <5>2, SMT
      <4>6. \A i, j \in DOMAIN l : i < j => l[i].max <= l[j].min
        <5> SUFFICES ASSUME NEW i \in DOMAIN l, NEW j \in DOMAIN l, i < j
                     PROVE l[i].max <= l[j].min
          OBVIOUS
        <5>1. q[i].max <= q[j].min /\ l[i].max = q[i].max /\ l[j].min = q[j].min
          BY <4>2, <4>3, <4>4
        <5> QED BY <5>1
      <4>7. l \in Lists(T)
        BY <4>5, <4>6 DEF Lists
      <4> QED BY <4>2, <4>4, <4>7 DEF l, q
    <3>3. /\ rs = [r \in D |-> rs[r]] /\ DOMAIN rs = D
          /\ \A r \in D : rs[r] = NewReader(list(r))
      OBVIOUS
    <3> HIDE DEF rs, list
    <3>4. \A r \in D : rs[r] \in ReaderSet(done, st.high) /\ rs[r].slices = list(r)
      <4> SUFFICES ASSUME NEW r \in D
                   PROVE rs[r] \in ReaderSet(done, st.high) /\ rs[r].slices = list(r)
        OBVIOUS
      <4> DEFINE l == list(r)
      <4>1. l \in Lists(T)
        BY <3>2
      <4> HIDE DEF l
      <4>2. NewReader(l) \in ReaderSet(done, st.high) /\ NewReader(l).slices = l
        BY <4>1, NewReaderFacts
      <4> QED BY <3>3, <4>2 DEF l
    <3>5. rs \in ReaderMaps(done, st.high)
      BY <3>1, <3>3, <3>4, ReaderMapIntro
    <3>6. ASSUME NEW k \in ReadFrom(st), ~(k >= st.high) PROVE k \in HeldBy(rs)
      <4>1. PICK r \in D : \E c \in Range(st.scopes[r]) : k \in Keys /\ InScope(c, k)
        BY <3>6 DEF ReadFrom
      <4>2. PICK i \in DOMAIN st.scopes[r] : InScope(st.scopes[r][i], k)
        BY <4>1 DEF Range
      <4>3. Covers(list(r)[i], k) /\ i \in DOMAIN list(r)
        BY <3>2, <4>1, <4>2
      <4>4. k \in Held(Range(list(r)))
        BY <4>1, <4>3 DEF Held, Range
      <4> QED BY <3>3, <3>4, <4>1, <4>4 DEF HeldBy
    <3> QED BY <3>5, <3>6 DEF rs, list
  <2> DEFINE new == [r \in DOMAIN saved.scopes |->
              NewReader([i \in DOMAIN saved.scopes[r] |->
                            NewSlice(saved.scopes[r][i])])]
             mark == MarkOf(saved)
  <2>1. /\ shardInfo' = saved /\ nonReadable' = saved.high /\ deletion' = mark
        /\ readers' = new /\ stored' = stored /\ executed' = executed
        /\ watermark' = watermark /\ saved' = saved
    BY DEF Restart
  <2>2. watermark \in Nat /\ Safe(saved, stored, executed, watermark)
    BY QueueInvElim
  <2>3. /\ IsState(saved, watermark) /\ stored \ executed \subseteq ReadFrom(saved)
        /\ \A k \in stored : mark <= k
    BY <2>2 DEF Safe
  <2>4. saved.high \in Nat /\ 1 <= saved.high /\ saved.high <= watermark
    BY <2>3 DEF IsState
  <2>5. mark \in Nat /\ 1 <= mark /\ mark <= saved.high
    BY <2>3, MarkFacts
  <2>6. /\ new \in ReaderMaps(executed, saved.high)
        /\ \A k \in ReadFrom(saved) : k >= saved.high \/ k \in HeldBy(new)
    BY <2>3, <2>StartFacts
  <2> HIDE DEF new, mark
  <2>7. saved.high \in 1 .. watermark /\ mark \in 1 .. watermark
    BY <2>2, <2>4, <2>5, SMT
  <2>8. \A k \in stored \ executed : k >= saved.high \/ k \in HeldBy(new)
    BY <2>3, <2>6
  <2> QED BY <2>1, <2>2, <2>3, <2>6, <2>7, <2>8 DEF QueueInv
\* The shard writes its row: the state in memory was safe.
<1>UpdateShardInv.
      ASSUME UpdateShard
      PROVE QueueInv'
  BY <1>UpdateShardInv DEF UpdateShard, QueueInv
\* The checkpoint timer and the three alerts of handleAlert.
<1>CheckpointsInv.
      ASSUME Checkpoint \/ AlertPendingTasks \/ AlertSliceCount \/ \E k \in Keys : AlertReaderStuck(k)
      PROVE QueueInv' /\ stored \ stored' \subseteq executed
  <2> USE <1>CheckpointsInv
  <2> DEFINE K == Keeping(HeldBy(readers), executed, nonReadable)
  <2>1. readers \in K /\ nonReadable \in Nat
    BY ReadersKept
  <2>2. \E rs \in K : checkpoint(rs) \/ checkpointFails(rs)
    <3>1. CASE Checkpoint
      BY <2>1, <3>1 DEF Checkpoint
    <3>2. CASE AlertPendingTasks
      <4>1. PICK rs \in PendingTaskOutcomes(readers) : checkpoint(rs)
        BY <3>2 DEF AlertPendingTasks
      <4>2. rs \in K
        BY <2>1, PendingTaskFacts
      <4> QED BY <4>1, <4>2
    <3>3. CASE AlertSliceCount
      <4>1. PICK rs \in SliceCountOutcomes(readers) : checkpoint(rs)
        BY <3>3 DEF AlertSliceCount
      <4>2. rs \in K
        BY <2>1, SliceCountFacts
      <4> QED BY <4>1, <4>2
    <3>4. ASSUME NEW k \in Keys, AlertReaderStuck(k)
          PROVE \E rs \in K : checkpoint(rs) \/ checkpointFails(rs)
      <4> DEFINE p == WatermarkPrecision
      <4>1. DefaultReaderId \in DOMAIN readers
        BY <3>4 DEF AlertReaderStuck
      <4>2. PICK low \in 0 .. k : checkpoint(ReaderStuck(readers, low, low + p))
        BY <3>4 DEF AlertReaderStuck
      <4>3. low \in Nat /\ low + p \in Nat
        BY QueueAssumption, SMT
      <4>4. ReaderStuck(readers, low, low + p) \in K
        BY <2>1, <4>1, <4>3, ReaderStuckFacts
      <4> HIDE DEF K
      <4> QED BY <4>2, <4>4
    <3> HIDE DEF K
    <3> QED BY <3>1, <3>2, <3>3, <3>4
  <2> QED BY <2>2, checkpointInv
\* Ack: a task that is executed need not be covered any more.
<1>AckInv.
      ASSUME NEW r \in DOMAIN readers, NEW i \in DOMAIN readers[r].slices,
             NEW k \in Keys, Ack(r, i, k)
      PROVE QueueInv'
  <2> USE <1>AckInv
  <2> DEFINE new == [readers EXCEPT ![r].slices[i].acked = @ \cup {k}]
             done == executed \cup {k}
  <2>1. /\ executed' = done /\ readers' = new
        /\ stored' = stored /\ watermark' = watermark
        /\ nonReadable' = nonReadable /\ deletion' = deletion
        /\ shardInfo' = shardInfo /\ saved' = saved
    BY DEF Ack
  <2>2. /\ executed \subseteq Keys /\ nonReadable \in Nat /\ watermark \in Nat
        /\ readers \in ReaderMaps(executed, nonReadable)
        /\ \A x \in stored \ executed : x >= nonReadable \/ x \in HeldBy(readers)
        /\ Safe(shardInfo, stored, executed, watermark)
        /\ Safe(saved, stored, executed, watermark)
    BY QueueInvElim
  <2>3. /\ new \in ReaderMaps(done, nonReadable) /\ HeldBy(readers) \subseteq HeldBy(new)
    BY <2>2, AckFacts
  <2>4. executed \subseteq done /\ done \subseteq Keys
    BY <2>2
  <2> HIDE DEF new, done
  <2>5. \A x \in stored \ done : x >= nonReadable \/ x \in HeldBy(new)
    BY <2>2, <2>3, <2>4
  <2>6. watermark <= watermark /\ \A x \in stored \ stored : x \in Keys /\ x >= watermark
    BY <2>2, SMT
  <2>7. Safe(shardInfo, stored, done, watermark) /\ Safe(saved, stored, done, watermark)
    BY <2>2, <2>4, <2>6, SafeGrows
  <2> QED BY <2>1, <2>3, <2>4, <2>5, <2>7 DEF QueueInv
\* loadAndSubmitTasks: what was to be read is tracked.
<1>loadAndSubmitTasksInv.
      ASSUME NEW r \in ReaderIDs, loadAndSubmitTasks(r)
      PROVE QueueInv'
  <2> USE <1>loadAndSubmitTasksInv
  \* loadAndSubmitTasks: a stored task that a reader was going to read is tracked
  \* once it has been read, and nextReadSlice is a slice of the list or nil.
  <2>LoadFacts.
        ASSUME NEW done, NEW bound \in Nat, NEW rs \in ReaderMaps(done, bound),
               NEW r1 \in DOMAIN rs, rs[r1].next # 0, NEW rows \in SUBSET Keys
        PROVE LET reader == rs[r1]
                  n == reader.next
                  s == IF reader.slices[n].iters = {} THEN reader.slices[n]
                       ELSE SelectTask(reader.slices[n], rows)
                  next == IF s.iters # {} THEN n ELSE NextElement(reader.slices, n)
                  new == [rs EXCEPT
                    ![r1] = [slices |-> [reader.slices EXCEPT ![n] = s], next |-> next]]
              IN /\ new \in ReaderMaps(done, bound)
                 /\ \A k \in rows : k \in HeldBy(rs) => k \in HeldBy(new)
    <3> USE <2>LoadFacts
    <3> DEFINE l == rs[r1].slices
               n == rs[r1].next
               old == l[n]
               sel == SelectTask(old, rows)
               s == IF old.iters = {} THEN old ELSE sel
               next == IF s.iters # {} THEN n ELSE NextElement(l, n)
               list == [l EXCEPT ![n] = s]
               x == [slices |-> list, next |-> next]
               new == [rs EXCEPT ![r1] = x]
               lost == Keys \ rows
    <3>1. /\ l \in Lists(Slices(done, bound)) /\ n \in Nat /\ n <= Len(l)
          /\ Len(l) \in Nat
      <4>1. rs[r1] \in ReaderSet(done, bound)
        BY ReaderMapElim
      <4> DEFINE y == rs[r1]
      <4> HIDE DEF y
      <4>2. y \in ReaderSet(done, bound)
        BY <4>1 DEF y
      <4>3. /\ y.slices \in Lists(Slices(done, bound)) /\ y.next \in Nat
            /\ y.next <= Len(y.slices) /\ Len(y.slices) \in Nat
        BY <4>2, ReaderElim
      <4> QED BY <4>3 DEF y
    <3>2. DOMAIN l = 1 .. Len(l) /\ \A i \in DOMAIN l : l[i] \in Slices(done, bound)
      BY ListOfReader, SMT
    <3>3. n # 0
      OBVIOUS
    <3> HIDE DEF l, n
    <3>4. n \in DOMAIN l
      BY <3>1, <3>2, <3>3, SMT
    <3>5. old \in Slices(done, bound)
      BY <3>2, <3>4
    <3> HIDE DEF old
    <3>6. /\ s \in Slices(done, bound) /\ s.min = old.min /\ s.max = old.max
          /\ \A k \in rows : Covers(old, k) => Covers(s, k)
      <4>1. CASE old.iters = {}
        <5>1. s = old
          BY <4>1
        <5> HIDE DEF s
        <5> QED BY <3>5, <5>1
      <4>2. CASE old.iters # {}
        <5>1. s = sel
          BY <4>2
        <5>2. /\ sel \in Slices(done, bound) /\ sel.min = old.min /\ sel.max = old.max
              /\ \A k \in rows : Covers(old, k) => Covers(sel, k)
          BY <3>5, <4>2, SelectTaskFacts
        <5> HIDE DEF s, sel
        <5> QED BY <5>1, <5>2
      <4> QED BY <4>1, <4>2
    <3> HIDE DEF s
    <3>7. \A k \in Keys \ lost : Covers(l[n], k) => Covers(s, k)
      BY <3>6 DEF old
    <3>8. s.min = l[n].min /\ s.max = l[n].max
      BY <3>6 DEF old
    <3>9. /\ list \in Lists(Slices(done, bound)) /\ Len(list) = Len(l)
          /\ Held(Range(l)) \ lost \subseteq Held(Range(list))
      BY <3>1, <3>4, <3>6, <3>7, <3>8, OneSliceFacts
    <3>10. next \in Nat /\ next <= Len(list)
      <4>1. next = n \/ (n # Len(l) /\ next = n + 1) \/ next = 0
        BY DEF NextElement
      <4> HIDE DEF next, list
      <4> QED BY <3>1, <3>9, <4>1, SMT
    <3> HIDE DEF list, next
    <3>11. x \in ReaderSet(done, bound) /\ x.slices = list
      BY <3>9, <3>10, MakeReader
    <3> HIDE DEF x
    <3>12. Held(Range(rs[r1].slices)) \ lost \subseteq Held(Range(x.slices))
      BY <3>9, <3>11 DEF l
    <3>13. new \in ReaderMaps(done, bound) /\ HeldBy(rs) \ lost \subseteq HeldBy(new)
      BY <3>11, <3>12, OneReaderFacts
    <3> HIDE DEF new
    <3>14. \A k \in rows : k \in HeldBy(rs) => k \in HeldBy(new)
      BY <3>13
    <3> QED BY <3>13, <3>14 DEF new, x, next, list, s, sel, old, n, l
  <2> DEFINE reader == readers[r]
             n == reader.next
             s == IF reader.slices[n].iters = {} THEN reader.slices[n]
                  ELSE SelectTask(reader.slices[n], stored)
             next == IF s.iters # {} THEN n ELSE NextElement(reader.slices, n)
             new == [readers EXCEPT
                  ![r] = [slices |-> [reader.slices EXCEPT ![n] = s], next |-> next]]
  <2>1. /\ r \in DOMAIN readers /\ reader.next # 0 /\ readers' = new
        /\ stored' = stored /\ executed' = executed /\ watermark' = watermark
        /\ nonReadable' = nonReadable /\ deletion' = deletion
        /\ shardInfo' = shardInfo /\ saved' = saved
    BY DEF loadAndSubmitTasks
  <2>2. /\ stored \in SUBSET Keys /\ nonReadable \in Nat
        /\ readers \in ReaderMaps(executed, nonReadable)
        /\ \A k \in stored \ executed : k >= nonReadable \/ k \in HeldBy(readers)
    BY QueueInvElim
  <2>3. /\ new \in ReaderMaps(executed, nonReadable)
        /\ \A k \in stored : k \in HeldBy(readers) => k \in HeldBy(new)
    BY <2>1, <2>2, <2>LoadFacts
  <2> HIDE DEF new
  <2>4. \A k \in stored \ executed : k >= nonReadable \/ k \in HeldBy(new)
    BY <2>2, <2>3
  <2> QED BY <2>1, <2>3, <2>4 DEF QueueInv
\* processNewRange: what was ahead of the queue is in the new slice.
<1>processNewRangeInv.
      ASSUME NEW m \in Watermarks, NEW force \in BOOLEAN,
             processNewRange(m, force)
      PROVE QueueInv'
  <2> USE <1>processNewRangeInv
  <2> DEFINE new == NewSlice([min |-> nonReadable, max |-> m, groups |-> Universal])
             slices == readers[DefaultReaderId].slices
             reader == IF DefaultReaderId \notin DOMAIN readers
                       THEN NewReader(<<new>>)
                       ELSE IF force THEN Reset(slices \o NonEmpty(<<new>>))
                       ELSE Reset(MergeSlices(slices, <<new>>))
             all == WithReader(readers, DefaultReaderId, reader)
  <2>1. /\ m >= watermark /\ watermark' = m /\ nonReadable' = m /\ readers' = all
        /\ stored' = stored /\ executed' = executed /\ deletion' = deletion
        /\ shardInfo' = shardInfo /\ saved' = saved
    BY DEF processNewRange
  <2>2. /\ stored \subseteq Keys /\ executed \subseteq Keys
        /\ watermark \in Nat /\ nonReadable \in Nat /\ deletion \in Nat
        /\ 1 <= nonReadable /\ nonReadable <= watermark
        /\ 1 <= deletion /\ deletion <= watermark
        /\ readers \in ReaderMaps(executed, nonReadable)
        /\ \A k \in stored \ executed : k >= nonReadable \/ k \in HeldBy(readers)
        /\ \A k \in stored : deletion <= k
        /\ Safe(shardInfo, stored, executed, watermark)
        /\ Safe(saved, stored, executed, watermark)
    BY QueueInvElim
  <2>3. m \in 1 .. End /\ m \in Nat
    BY EndFacts, SMT
  <2>4. nonReadable <= m /\ watermark <= m /\ m \in 1 .. m /\ deletion \in 1 .. m
    BY <2>1, <2>2, <2>3, SMT
  <2>5. /\ all \in ReaderMaps(executed, m) /\ HeldBy(readers) \subseteq HeldBy(all)
        /\ \A k \in Keys : nonReadable <= k /\ k < m => k \in HeldBy(all)
    BY <2>2, <2>3, <2>4, NewRangeFacts
  <2> HIDE DEF all
  <2>6. \A k \in stored \ executed : k >= m \/ k \in HeldBy(all)
    <3> SUFFICES ASSUME NEW k \in stored \ executed, ~(k >= m) PROVE k \in HeldBy(all)
      OBVIOUS
    <3>1. k \in Keys /\ k \in Nat
      BY <2>2, KeysAndGroups
    <3>2. k < m /\ (k >= nonReadable => nonReadable <= k)
      BY <2>2, <2>3, <3>1, SMT
    <3> QED BY <2>2, <2>5, <3>1, <3>2
  <2>7. /\ Safe(shardInfo, stored, executed, m)
        /\ Safe(saved, stored, executed, m)
    BY <2>2, <2>3, <2>4, SafeGrows
  <2> QED BY <2>1, <2>2, <2>3, <2>4, <2>5, <2>6, <2>7 DEF QueueInv
\* A task is written at or above the watermark: ahead of every queue state.
<1>WriteTaskInv.
      ASSUME NEW k \in Keys, WriteTask(k)
      PROVE QueueInv'
  <2> USE <1>WriteTaskInv
  <2>1. /\ k >= watermark /\ stored' = stored \cup {k}
        /\ executed' = executed /\ watermark' = watermark
        /\ nonReadable' = nonReadable /\ readers' = readers /\ deletion' = deletion
        /\ shardInfo' = shardInfo /\ saved' = saved
    BY DEF WriteTask
  <2>2. /\ watermark \in Nat /\ nonReadable \in Nat /\ deletion \in Nat /\ k \in Nat
        /\ nonReadable <= watermark /\ deletion <= watermark
        /\ stored \subseteq Keys
        /\ \A x \in stored \ executed : x >= nonReadable \/ x \in HeldBy(readers)
        /\ \A x \in stored : deletion <= x
        /\ Safe(shardInfo, stored, executed, watermark)
        /\ Safe(saved, stored, executed, watermark)
    BY QueueInvElim, KeysAndGroups
  <2>3. k >= nonReadable /\ deletion <= k /\ watermark <= watermark
    BY <2>1, <2>2, SMT
  <2>4. \A x \in stored' \ stored : x \in Keys /\ x >= watermark
    BY <2>1
  <2>5. /\ Safe(shardInfo, stored', executed, watermark)
        /\ Safe(saved, stored', executed, watermark)
    BY <2>2, <2>3, <2>4, SafeGrows
  <2>6. /\ stored' \subseteq Keys
        /\ \A x \in stored' \ executed : x >= nonReadable \/ x \in HeldBy(readers)
        /\ \A x \in stored' : deletion <= x
    BY <2>1, <2>2, <2>3
  <2> QED BY <2>1, <2>5, <2>6 DEF QueueInv
<1>1. CASE UNCHANGED vars
  BY <1>1 DEF vars, QueueInv
<1>2. ASSUME stored \subseteq stored' PROVE stored \ stored' \subseteq executed
  BY <1>2
<1>3. ASSUME NEW k \in Keys, WriteTask(k)
      PROVE QueueInv' /\ stored \ stored' \subseteq executed
  <2>1. QueueInv'
    BY <1>3, <1>WriteTaskInv
  <2>2. stored' = stored \cup {k}
    BY <1>3 DEF WriteTask
  <2> QED BY <2>1, <2>2
<1>4. ASSUME NEW m \in Watermarks, NEW force \in BOOLEAN, processNewRange(m, force)
      PROVE QueueInv' /\ stored \ stored' \subseteq executed
  <2>1. QueueInv'
    BY <1>4, <1>processNewRangeInv
  <2>2. stored' = stored
    BY <1>4 DEF processNewRange
  <2> QED BY <2>1, <2>2
<1>5. ASSUME NEW r \in ReaderIDs, loadAndSubmitTasks(r)
      PROVE QueueInv' /\ stored \ stored' \subseteq executed
  <2>1. QueueInv'
    BY <1>5, <1>loadAndSubmitTasksInv
  <2>2. stored' = stored
    BY <1>5 DEF loadAndSubmitTasks
  <2> QED BY <2>1, <2>2
<1>6. ASSUME NEW r \in DOMAIN readers, NEW i \in DOMAIN readers[r].slices,
             NEW k \in Keys, Ack(r, i, k)
      PROVE QueueInv' /\ stored \ stored' \subseteq executed
  <2>1. QueueInv'
    BY <1>6, <1>AckInv
  <2>2. stored' = stored
    BY <1>6 DEF Ack
  <2> QED BY <2>1, <2>2
<1>7. CASE Checkpoint \/ AlertPendingTasks \/ AlertSliceCount
             \/ \E k \in Keys : AlertReaderStuck(k)
  BY <1>7, <1>CheckpointsInv
<1>8. CASE UpdateShard
  <2>1. stored' = stored
    BY <1>8 DEF UpdateShard
  <2> QED BY <1>8, <2>1, <1>UpdateShardInv
<1>9. CASE Restart
  <2>1. stored' = stored
    BY <1>9 DEF Restart
  <2> QED BY <1>9, <2>1, <1>RestartInv
<1>10. CASE Next
  BY <1>10, <1>3, <1>4, <1>5, <1>6, <1>7, <1>8, <1>9 DEF Next
<1> QED BY <1>1, <1>10

-----------------------------------------------------------------------------
(* Theorems *)

\* QueueInv holds in every state, for any keys, groups, reader count and limits.
THEOREM QueueInvariant == Spec => []QueueInv
\* A new shard, without tasks or readers.
<1>InitInv.
      Init => QueueInv
  <2> SUFFICES ASSUME Init PROVE QueueInv
    OBVIOUS
  <2> DEFINE st == NewQueueState(1, <<>>)
  <2>1. /\ stored = {} /\ executed = {} /\ watermark = 1 /\ nonReadable = 1
        /\ deletion = 1 /\ readers = <<>> /\ shardInfo = st /\ saved = st
    BY DEF Init
  <2>2. /\ 1 \in 1 .. 1 /\ 1 \in 1 .. End /\ 1 \in Nat /\ 1 <= 1
    BY EndFacts, SMT
  <2> DEFINE none == <<>>
  <2>3. none \in ReaderMaps({}, 1)
    <3>1. none = [r \in {} |-> none[r]]
      BY SMT
    <3>2. {} \in SUBSET ReaderIDs /\ \A r \in {} : none[r] \in ReaderSet({}, 1)
      OBVIOUS
    <3> HIDE DEF none
    <3> DEFINE D == {}
    <3> HIDE DEF D
    <3>3. /\ D \in SUBSET ReaderIDs /\ none = [r \in D |-> none[r]]
          /\ \A r \in D : none[r] \in ReaderSet({}, 1)
      BY <3>1, <3>2 DEF D
    <3> QED BY <3>3, ReaderMapIntro
  <2>4. IsState(st, 1)
    <3> HIDE DEF none
    <3> DEFINE q == NewQueueState(1, none)
    <3>1. IsState(q, 1)
      BY <2>2, <2>3, NewQueueStateFacts
    <3> QED BY <3>1 DEF none
  <2> HIDE DEF st
  <2>5. Safe(st, {}, {}, 1)
    BY <2>4 DEF Safe
  <2> QED BY <2>1, <2>2, <2>3, <2>5 DEF QueueInv
<1>1. QueueInv /\ [Next]_vars => QueueInv'
  BY StepInv
<1> QED BY <1>InitInv, <1>1, PTL DEF Spec

\* The variables keep their types; in particular nextReadSlice is a slice of its
\* reader's list or nil, whatever is split, merged, shrunk or compacted.
THEOREM TypeIsOK == Spec => []TypeOK
<1>1. QueueInv => TypeOK
  <2> SUFFICES ASSUME QueueInv PROVE TypeOK
    OBVIOUS
  <2>1. /\ stored \subseteq Keys /\ executed \subseteq Keys
        /\ watermark \in Nat /\ nonReadable \in Nat /\ deletion \in Nat
        /\ 1 <= watermark /\ watermark <= End
        /\ 1 <= nonReadable /\ nonReadable <= watermark
        /\ 1 <= deletion /\ deletion <= watermark
        /\ readers \in ReaderMaps(executed, nonReadable)
        /\ Safe(shardInfo, stored, executed, watermark)
        /\ Safe(saved, stored, executed, watermark)
    BY QueueInvElim
  <2>2. watermark \in 1 .. End /\ nonReadable \in 1 .. End /\ deletion \in 1 .. End
    BY <2>1, EndFacts, SMT
  <2>3. DOMAIN readers \subseteq ReaderIDs
    BY <2>1, ReaderMapElim
  <2>4. ASSUME NEW r \in DOMAIN readers
        PROVE /\ readers[r].next \in 0 .. Len(readers[r].slices)
              /\ Range(readers[r].slices) \subseteq SliceSet
    <3> DEFINE x == readers[r]
               l == readers[r].slices
    <3>1. x \in ReaderSet(executed, nonReadable)
      BY <2>1, ReaderMapElim
    <3>2. \A i \in DOMAIN l : l[i] \in Slices(executed, nonReadable)
      BY <2>1, ListOfReader
    <3>3. Range(l) \subseteq SliceSet
      BY <3>2 DEF Range, Slices
    <3> HIDE DEF x, l
    <3>4. x.next \in Nat /\ x.next <= Len(x.slices) /\ Len(x.slices) \in Nat
      BY <3>1, ReaderElim
    <3>5. x.next \in 0 .. Len(x.slices)
      BY <3>4, SMT
    <3> QED BY <3>3, <3>5 DEF x, l
  <2>5. ASSUME NEW st, Safe(st, stored, executed, watermark)
        PROVE /\ st.high \in 1 .. End
              /\ DOMAIN st.scopes \subseteq ReaderIDs
              /\ \A r \in DOMAIN st.scopes : Range(st.scopes[r]) \subseteq ScopeSet
    <3>1. IsState(st, watermark)
      BY <2>5 DEF Safe
    <3>2. /\ st.high \in Nat /\ 1 <= st.high /\ st.high <= watermark
          /\ DOMAIN st.scopes \subseteq ReaderIDs
          /\ \A r \in DOMAIN st.scopes : st.scopes[r] \in Lists(Scopes(st.high))
      BY <3>1 DEF IsState
    <3>3. st.high \in 1 .. End
      BY <2>1, <3>2, EndFacts, SMT
    <3>4. ASSUME NEW r \in DOMAIN st.scopes PROVE Range(st.scopes[r]) \subseteq ScopeSet
      <4>1. Range(st.scopes[r]) \subseteq Scopes(st.high)
        BY <3>2, ScopeListFacts
      <4> QED BY <4>1 DEF Scopes
    <3> QED BY <3>2, <3>3, <3>4
  <2> QED BY <2>1, <2>2, <2>3, <2>4, <2>5 DEF TypeOK
<1> QED BY <1>1, QueueInvariant, PTL

\* No task is lost between the readers: at any time, a stored task that is not
\* executed is ahead of the queue, tracked, or going to be read, through moves
\* of slices, alerts, failed checkpoints and restarts.
THEOREM NoTaskIsLost == Spec => []EveryTaskCovered
<1>1. QueueInv => EveryTaskCovered
  <2> SUFFICES ASSUME QueueInv, NEW k \in Unfinished, ~(k >= nonReadable)
               PROVE \E r \in DOMAIN readers : \E s \in Range(readers[r].slices) :
                        Covers(s, k)
    BY DEF EveryTaskCovered, Covers
  <2>1. k \in HeldBy(readers)
    BY QueueInvElim DEF Unfinished
  <2> QED BY <2>1 DEF HeldBy, Held
<1> QED BY <1>1, QueueInvariant, PTL

\* The row of the shard always has a queue state from which the next owner reads
\* every task that is not executed, wherever the present owner stops.
THEOREM NextOwnerReadsAll == Spec => []SavedStateCovers
<1>1. QueueInv => SavedStateCovers
  <2> SUFFICES ASSUME QueueInv PROVE SavedStateCovers
    OBVIOUS
  <2>1. stored \ executed \subseteq ReadFrom(saved)
    BY QueueInvElim DEF Safe
  <2> QED BY <2>1 DEF SavedStateCovers, Unfinished, ReadFrom
<1> QED BY <1>1, QueueInvariant, PTL

\* No row is left below the mark from which the next owner goes on to delete:
\* checkpoint deletes before it sets the state.
THEOREM NextOwnerDeletesAll == Spec => []NoRowLeftBehind
<1>1. QueueInv => NoRowLeftBehind
  <2> SUFFICES ASSUME QueueInv, NEW k \in stored PROVE k >= MarkOf(saved)
    BY DEF NoRowLeftBehind
  <2>1. Safe(saved, stored, executed, watermark) /\ k \in Keys
    BY QueueInvElim
  <2>2. MarkOf(saved) <= k /\ MarkOf(saved) \in Nat
    BY <2>1, MarkFacts DEF Safe
  <2>3. k \in Nat
    BY <2>1, KeysAndGroups
  <2> QED BY <2>2, <2>3
<1> QED BY <1>1, QueueInvariant, PTL

\* The slices of a reader are in order and disjoint and track only what is in
\* their scope, so that the panics in the slice and reader code are not reached.
THEOREM NoSlicePanics == Spec => []SlicesInOrder
<1>1. QueueInv => SlicesInOrder
  <2> SUFFICES ASSUME QueueInv, NEW r \in DOMAIN readers
               PROVE LET slices == readers[r].slices
                     IN /\ \A i, j \in DOMAIN slices :
                              i < j => slices[i].max <= slices[j].min
                        /\ \A s \in Range(slices) :
                             /\ s.min <= s.max
                             /\ \A k \in s.pending : InScope(s, k)
                             /\ \A it \in s.iters : s.min <= it.min /\ it.max <= s.max
    BY DEF SlicesInOrder
  <2> DEFINE l == readers[r].slices
  <2>1. readers \in ReaderMaps(executed, nonReadable)
    BY QueueInvElim
  <2>2. /\ l \in Lists(Slices(executed, nonReadable))
        /\ \A i \in DOMAIN l : l[i] \in Slices(executed, nonReadable)
    BY <2>1, ListOfReader
  <2> HIDE DEF l
  <2>3. \A i, j \in DOMAIN l : i < j => l[i].max <= l[j].min
    BY <2>2 DEF Lists
  <2>4. \A s \in Range(l) : s \in Slices(executed, nonReadable)
    BY <2>2 DEF Range
  <2>5. \A s \in Slices(executed, nonReadable) :
           /\ s.min <= s.max
           /\ \A k \in s.pending : InScope(s, k)
           /\ \A it \in s.iters : s.min <= it.min /\ it.max <= s.max
    BY DEF Slices
  <2> QED BY <2>3, <2>4, <2>5 DEF l
<1> QED BY <1>1, QueueInvariant, PTL

\* rangeCompleteTasks deletes only rows of executed tasks, however its mark is
\* computed and whether the call is reported to have failed or not.
THEOREM NoEarlyDeletion == Spec => DeletedWereExecuted
<1>1. QueueInv /\ [Next]_vars => [stored \ stored' \subseteq executed]_vars
  BY StepInv
<1> QED BY <1>1, QueueInvariant, PTL DEF Spec, DeletedWereExecuted

=============================================================================
