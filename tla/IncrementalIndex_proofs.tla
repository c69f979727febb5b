----------------------- MODULE IncrementalIndex_proofs -----------------------
(***************************************************************************)
(* The forest of IncrementalIndex, for rows, thresholds and limits of any  *)
(* size, after any number of appends, compactions, persists and reopens.   *)
(***************************************************************************)
EXTENDS IncrementalIndex, SequenceTheorems, FiniteSetTheorems, WellFoundedInduction, TLAPS

(* The numbers behind the constants.                                       *)
LEMMA Numbers ==
  /\ StructuredLimit \in Nat /\ HardThreshold \in Nat /\ FlatRows \in Nat
  /\ IndexFragment \in Nat /\ IndexFragment >= 1
  /\ IndexMin \in Nat /\ IndexMin >= 1 /\ IndexMax \in Nat /\ IndexMax >= 1
  /\ FragmentRows \in Nat /\ SearchFragment \in Nat /\ SearchFragment >= 1
  /\ SearchLimit \in Nat /\ ExhaustiveLimit \in Nat /\ NLimit \in Nat
  /\ MaxRows \in Nat /\ MaxBatch \in Nat /\ MaxNeighbors \in Nat /\ MaxBatch <= MaxRows
  BY IncrementalIndexAssumption

-----------------------------------------------------------------------------
(* Induction over the numbers, stated with a set.  It follows from the     *)
(* strict subsets of a set being well founded.                             *)

LEMMA LeastNumber ==
  ASSUME NEW T, T \subseteq Nat, T # {}
  PROVE  \E x \in T : \A y \in T : x <= y
  <1> DEFINE U == {0 .. m : m \in T}
  <1>1. IsWellFoundedOn(StrictSubsetOrdering(Nat), FiniteSubsetsOf(Nat))
    BY FS_StrictSubsetOrderingWellFounded
  <1>2. \A m \in T : IsFiniteSet(0 .. m) /\ 0 .. m \subseteq Nat
    BY FS_Interval
  <1>3. U \subseteq FiniteSubsetsOf(Nat)
    BY <1>2 DEF FiniteSubsetsOf
  <1>4. U # {}
    OBVIOUS
  <1>5. PICK X \in U : \A Y \in U : ~ (<<Y, X>> \in StrictSubsetOrdering(Nat))
    BY <1>1, <1>3, <1>4, WFMin
  <1>6. PICK x \in T : X = 0 .. x
    OBVIOUS
  <1>7. ASSUME NEW y \in T, y < x
        PROVE  FALSE
    <2>1. 0 .. y \in U
      OBVIOUS
    <2>2. 0 .. y \subseteq 0 .. x
      BY <1>7
    <2>3. x \in 0 .. x /\ x \notin 0 .. y
      BY <1>7
    <2>4. 0 .. y \subseteq Nat /\ 0 .. x \subseteq Nat
      BY <1>7
    <2>5. <<0 .. y, X>> \in StrictSubsetOrdering(Nat)
      BY <1>6, <2>2, <2>3, <2>4 DEF StrictSubsetOrdering
    <2> QED BY <1>5, <2>1, <2>5
  <1> QED BY <1>7

LEMMA SetInduction ==
  ASSUME NEW S, 0 \in S, \A n \in Nat : n \in S => n + 1 \in S
  PROVE  Nat \subseteq S
  <1> DEFINE T == Nat \ S
  <1>1. SUFFICES ASSUME T # {} PROVE FALSE
    BY <1>1
  <1>2. PICK x \in T : \A y \in T : x <= y
    BY <1>1, LeastNumber
  <1>3. x \in Nat /\ x # 0
    OBVIOUS
  <1>4. x - 1 \in T
    BY <1>3
  <1> QED BY <1>2, <1>3, <1>4

-----------------------------------------------------------------------------
(* Forests.                                                                *)

LEMMA LimitNumbers ==
  ASSUME NEW n \in Nat
  PROVE  /\ IndexThreshold(n) \in Nat /\ IndexThreshold(n) >= 1
         /\ CompactLimit(n) \in Nat /\ CompactLimit(n) >= IndexThreshold(n)
  <1> DEFINE q == n \div IndexFragment
             t == IndexThreshold(n)
  <1>1. q \in Int
    BY Numbers
  <1>2. t = IF n <= FlatRows THEN 1 ELSE Smaller(Larger(q, IndexMin), IndexMax)
    BY DEF IndexThreshold
  <1> HIDE DEF q, t
  <1>3. t \in Nat /\ t >= 1
    BY <1>1, <1>2, Numbers DEF Smaller, Larger
  <1>4. CompactLimit(n) = Larger(2 * t, t + 1)
    BY DEF CompactLimit, t
  <1>5. CompactLimit(n) \in Nat /\ CompactLimit(n) >= t
    BY <1>3, <1>4 DEF Larger
  <1> QED BY <1>3, <1>5 DEF t

(* A fragment that is not empty and is placed by rows of its own.          *)
Sound(f) ==
  /\ f \in Fragment /\ f.start < f.end
  /\ f.seen # {} /\ f.seen \subseteq RowsOf(f)

(* Fragments that hold the rows below n, each once and in order.           *)
Tiled(fs, n) ==
  /\ fs \in Seq(Fragment)
  /\ \A i \in 1 .. Len(fs) : Sound(fs[i])
  /\ \A i \in 1 .. Len(fs) - 1 : fs[i].end = fs[i + 1].start
  /\ fs # <<>> => fs[1].start = 0 /\ fs[Len(fs)].end = n
  /\ fs = <<>> => n = 0

(* No fragment of fs is split or lost in gs.                               *)
Joined(fs, gs) ==
  \A f \in ToSet(fs) : \E g \in ToSet(gs) : RowsOf(f) \subseteq RowsOf(g)

LEMMA JoinedItself ==
  ASSUME NEW fs
  PROVE  Joined(fs, fs)
  BY DEF Joined

LEMMA JoinedTwice ==
  ASSUME NEW fs, NEW gs, NEW hs, Joined(fs, gs), Joined(gs, hs)
  PROVE  Joined(fs, hs)
  <1>1. ASSUME NEW f \in ToSet(fs)
        PROVE  \E h \in ToSet(hs) : RowsOf(f) \subseteq RowsOf(h)
    <2>1. PICK g \in ToSet(gs) : RowsOf(f) \subseteq RowsOf(g)
      BY DEF Joined
    <2>2. PICK h \in ToSet(hs) : RowsOf(g) \subseteq RowsOf(h)
      BY DEF Joined
    <2> QED BY <2>1, <2>2
  <1> QED BY <1>1 DEF Joined

LEMMA FragmentNumbers ==
  ASSUME NEW f \in Fragment
  PROVE  /\ f.start \in Nat /\ f.end \in Nat /\ f.start <= MaxRows /\ f.end <= MaxRows
         /\ f.seen \subseteq RowIds
  BY Numbers DEF Fragment

LEMMA ForestNumbers ==
  ASSUME NEW fs, NEW n, Tiled(fs, n)
  PROVE  /\ Len(fs) \in Nat /\ DOMAIN fs = 1 .. Len(fs)
         /\ \A i \in 1 .. Len(fs) :
              /\ fs[i].start \in Nat /\ fs[i].end \in Nat /\ fs[i].start < fs[i].end
              /\ fs[i].end <= MaxRows
  <1>1. fs \in Seq(Fragment)
    BY DEF Tiled
  <1>2. ASSUME NEW i \in 1 .. Len(fs)
        PROVE  /\ fs[i].start \in Nat /\ fs[i].end \in Nat /\ fs[i].start < fs[i].end
               /\ fs[i].end <= MaxRows
    <2>1. Sound(fs[i])
      BY DEF Tiled
    <2> QED BY <2>1, FragmentNumbers DEF Sound
  <1> QED BY <1>1, <1>2

(* Of two fragments the earlier one has the smaller rows.                  *)
LEMMA ForestOrdered ==
  ASSUME NEW fs, NEW n, Tiled(fs, n), NEW i \in 1 .. Len(fs), NEW j \in 1 .. Len(fs), i <= j
  PROVE  /\ fs[i].start <= fs[j].start /\ fs[i].end <= fs[j].end
         /\ i < j => fs[i].end <= fs[j].start
  <1> DEFINE L == Len(fs)
             P(d) == i + d <= L =>
                       /\ fs[i].start <= fs[i + d].start /\ fs[i].end <= fs[i + d].end
                       /\ d > 0 => fs[i].end <= fs[i + d].start
             S == {d \in Nat : P(d)}
  <1>1. L \in Nat /\ i \in Nat /\ j \in Nat /\ i >= 1
    BY ForestNumbers
  <1>2. \A k \in 1 .. L : fs[k].start \in Nat /\ fs[k].end \in Nat /\ fs[k].start < fs[k].end
    BY ForestNumbers
  <1> HIDE DEF L
  <1>3. 0 \in S
    BY <1>1, <1>2 DEF L
  <1>4. ASSUME NEW d \in Nat, d \in S
        PROVE  d + 1 \in S
    <2>1. SUFFICES ASSUME i + (d + 1) <= L
                   PROVE  /\ fs[i].start <= fs[i + (d + 1)].start
                          /\ fs[i].end <= fs[i + (d + 1)].end
                          /\ fs[i].end <= fs[i + (d + 1)].start
      BY <1>1
    <2> DEFINE k == i + d
    <2>2. k \in 1 .. L - 1 /\ k \in 1 .. L /\ k + 1 \in 1 .. L /\ k + 1 = i + (d + 1) /\ k <= L
          /\ i \in 1 .. L
      BY <1>1, <2>1
    <2>3. P(d)
      BY <1>4
    <2>4. fs[k].end = fs[k + 1].start
      BY <2>2 DEF Tiled, L
    <2>5. fs[i].start <= fs[k].start /\ fs[i].end <= fs[k].end
      BY <2>2, <2>3
    <2> HIDE DEF k
    <2>6. /\ fs[k].start \in Nat /\ fs[k].end \in Nat /\ fs[k].start < fs[k].end
          /\ fs[k + 1].start \in Nat /\ fs[k + 1].end \in Nat /\ fs[k + 1].start < fs[k + 1].end
          /\ fs[i].start \in Nat /\ fs[i].end \in Nat
      BY <1>2, <2>2
    <2>7. /\ fs[i].start <= fs[k + 1].start /\ fs[i].end <= fs[k + 1].end
          /\ fs[i].end <= fs[k + 1].start
      BY <2>4, <2>5, <2>6
    <2> QED BY <2>2, <2>7
  <1> HIDE DEF S
  <1>5. j - i \in S
    BY <1>1, <1>3, <1>4, SetInduction
  <1>6. P(j - i)
    BY <1>5 DEF S
  <1>7. i + (j - i) = j /\ j <= L /\ (i < j => j - i > 0)
    BY <1>1 DEF L
  <1> QED BY <1>6, <1>7

-----------------------------------------------------------------------------
(* Compaction.                                                             *)

(* A merged run is a fragment of the rows of its parts.                    *)
LEMMA MergedRun ==
  ASSUME NEW fs, NEW n, Tiled(fs, n), NEW i \in Nat, NEW m \in Nat,
         i >= 1, m >= 1, i + m - 1 <= Len(fs)
  PROVE  LET c == ConcatMerge(SubSeq(fs, i, i + m - 1))
         IN  /\ Sound(c) /\ c.start = fs[i].start /\ c.end = fs[i + m - 1].end
             /\ \A k \in i .. i + m - 1 : RowsOf(fs[k]) \subseteq RowsOf(c)
  <1> DEFINE parts == SubSeq(fs, i, i + m - 1)
             c == ConcatMerge(parts)
             e == i + m - 1
  <1>1. /\ fs \in Seq(Fragment) /\ Len(fs) \in Nat /\ e \in Nat /\ i <= e
        /\ i \in 1 .. Len(fs) /\ e \in 1 .. Len(fs) /\ e - i + 1 = m
        /\ \A k \in i .. e : k \in 1 .. Len(fs) /\ i <= k /\ k <= e
    BY ForestNumbers DEF Tiled
  <1>2. /\ parts \in Seq(Fragment) /\ Len(parts) = m
        /\ \A k \in 1 .. m : parts[k] = fs[i + k - 1]
    <2>1. /\ SubSeq(fs, i, e) \in Seq(Fragment)
          /\ Len(SubSeq(fs, i, e)) = IF i <= e THEN e - i + 1 ELSE 0
          /\ \A k \in 1 .. e - i + 1 : SubSeq(fs, i, e)[k] = fs[i + k - 1]
      BY <1>1, SubSeqProperties
    <2> HIDE DEF e
    <2> QED BY <1>1, <2>1 DEF e
  <1> HIDE DEF parts
  <1>3. DOMAIN parts = 1 .. m /\ Head(parts) = parts[1] /\ Last(parts) = parts[m]
    BY <1>2 DEF Last
  <1>4. Head(parts) = fs[i] /\ Last(parts) = fs[e]
    <2>1. 1 \in 1 .. m /\ m \in 1 .. m /\ i + 1 - 1 = i
      OBVIOUS
    <2> QED BY <1>2, <1>3, <2>1
  <1>5. ToSet(parts) = {fs[k] : k \in i .. e}
    <2>1. \A k \in 1 .. m : i + k - 1 \in i .. e
      OBVIOUS
    <2>2. \A k \in i .. e : k - i + 1 \in 1 .. m /\ i + (k - i + 1) - 1 = k
      OBVIOUS
    <2>3. ToSet(parts) = {parts[k] : k \in 1 .. m}
      BY <1>3 DEF ToSet
    <2> HIDE DEF e
    <2>4. {parts[k] : k \in 1 .. m} \subseteq {fs[k] : k \in i .. e}
      BY <1>2, <2>1
    <2>5. {fs[k] : k \in i .. e} \subseteq {parts[k] : k \in 1 .. m}
      BY <1>2, <2>2
    <2> QED BY <2>3, <2>4, <2>5
  <1> HIDE DEF e
  <1>6. \A k \in i .. e : Sound(fs[k])
    BY <1>1 DEF Tiled
  <1>7. c = [start |-> fs[i].start, end |-> fs[e].end, seen |-> UNION {f.seen : f \in ToSet(parts)}]
    BY <1>4 DEF ConcatMerge
  <1>8. c.start = fs[i].start /\ c.end = fs[e].end /\ c.seen = UNION {f.seen : f \in ToSet(parts)}
    BY <1>7
  <1>9. /\ fs[i].start \in Nat /\ fs[i].end \in Nat /\ fs[i].start < fs[i].end
        /\ fs[e].end \in Nat /\ fs[e].end <= MaxRows /\ fs[i].end <= fs[e].end
        /\ fs[i].start <= MaxRows
    <2>1. fs[i].end <= fs[e].end
      BY <1>1, ForestOrdered
    <2>2. /\ fs[i].start \in Nat /\ fs[i].end \in Nat /\ fs[i].start < fs[i].end
          /\ fs[e].end \in Nat /\ fs[e].end <= MaxRows /\ fs[i].end <= MaxRows
      BY <1>1, ForestNumbers
    <2> QED BY <2>1, <2>2, Numbers
  <1>10. ASSUME NEW k \in i .. e
         PROVE  RowsOf(fs[k]) \subseteq RowsOf(c)
    <2>1. k \in 1 .. Len(fs) /\ i <= k /\ k <= e
      BY <1>1
    <2>2. fs[i].start <= fs[k].start /\ fs[k].end <= fs[e].end
      BY <1>1, <2>1, ForestOrdered
    <2>3. fs[k].start \in Nat /\ fs[k].end \in Nat
      BY <2>1, ForestNumbers
    <2> QED BY <1>8, <1>9, <2>2, <2>3 DEF RowsOf
  <1>11. c.seen # {} /\ c.seen \subseteq RowsOf(c)
    <2>1. fs[i].seen # {} /\ fs[i].seen \subseteq c.seen
      BY <1>1, <1>5, <1>6, <1>8 DEF Sound
    <2>2. \A k \in i .. e : fs[k].seen \subseteq RowsOf(c)
      BY <1>6, <1>10 DEF Sound
    <2> QED BY <1>5, <1>8, <2>1, <2>2
  <1>12. c \in Fragment
    <2>1. c.seen \subseteq RowIds
      <3> HIDE DEF c
      <3>1. RowsOf(c) = fs[i].start .. fs[e].end - 1
        BY <1>8 DEF RowsOf
      <3>2. \A a, b \in Nat : b <= MaxRows => a .. b - 1 \subseteq RowIds
        BY Numbers DEF RowIds
      <3> QED BY <1>9, <1>11, <3>1, <3>2
    <2>2. fs[i].start \in 0 .. MaxRows /\ fs[e].end \in 0 .. MaxRows
      BY <1>9, Numbers
    <2> DEFINE s == c.seen
    <2>3. c = [start |-> fs[i].start, end |-> fs[e].end, seen |-> s]
      BY <1>7, <1>8
    <2> HIDE DEF s, c
    <2>4. s \subseteq RowIds
      BY <2>1 DEF s
    <2> QED BY <2>2, <2>3, <2>4 DEF Fragment
  <1>13. c.start < c.end
    BY <1>8, <1>9
  <1>14. Sound(c)
    BY <1>11, <1>12, <1>13 DEF Sound
  <1> HIDE DEF c
  <1>15. \A k \in i .. i + m - 1 : RowsOf(fs[k]) \subseteq RowsOf(c)
    BY <1>10 DEF e
  <1>16. c.end = fs[i + m - 1].end
    BY <1>8 DEF e
  <1> QED BY <1>8, <1>14, <1>15, <1>16 DEF c, parts

(* There is a run to merge: a best one of the small, or else of all.       *)
LEMMA BestRunExists ==
  ASSUME NEW fs, NEW n, Tiled(fs, n), NEW m \in Nat, m >= 1, m <= Len(fs)
  PROVE  BestRun(fs, m) \in 1 .. Len(fs) - m + 1
  <1> DEFINE starts == 1 .. Len(fs) - m + 1
             run(i) == SubSeq(fs, i, i + m - 1)
             count(i) == Last(run(i)).end - Head(run(i)).start
             small(i) == \A f \in ToSet(run(i)) : SizeOf(f) <= FragmentRows
             Better(i, j) == IF small(i) # small(j) THEN small(i)
                             ELSE count(i) < count(j) \/ (count(i) = count(j) /\ i <= j)
  <1>1. BestRun(fs, m) = CHOOSE i \in starts : \A j \in starts : Better(i, j)
    BY DEF BestRun
  <1>2. Len(fs) \in Nat /\ 1 \in starts /\ starts \subseteq Nat
    BY ForestNumbers
  <1>3. \A i \in starts : count(i) \in Nat
    <2>1. ASSUME NEW i \in starts
          PROVE  count(i) \in Nat
      <3>1. i \in Nat /\ i >= 1 /\ i + m - 1 <= Len(fs) /\ i + m - 1 \in 1 .. Len(fs)
            /\ i \in 1 .. Len(fs)
        BY <1>2
      <3> DEFINE c == ConcatMerge(run(i))
      <3>2. c.start < c.end /\ c.start = fs[i].start /\ c.end = fs[i + m - 1].end
        BY <3>1, MergedRun DEF Sound
      <3>3. c.start = Head(run(i)).start /\ c.end = Last(run(i)).end
        BY DEF ConcatMerge
      <3>4. fs[i].start \in Nat /\ fs[i + m - 1].end \in Nat
        BY <3>1, ForestNumbers
      <3> HIDE DEF c, run
      <3>5. count(i) = c.end - c.start
        BY <3>3
      <3> HIDE DEF count
      <3> QED BY <3>2, <3>4, <3>5
    <2> QED BY <2>1
  <1> DEFINE A == IF \E i \in starts : small(i) THEN {i \in starts : small(i)} ELSE starts
             C == {count(i) : i \in A}
  <1> HIDE DEF run
  <1>4. A # {} /\ A \subseteq starts /\ starts \subseteq Nat
    <2> HIDE DEF starts, small
    <2> QED BY <1>2
  <1>5. \A i \in A, j \in starts : Better(i, j) \/ j \in A
    OBVIOUS
  <1>6. \A i, j \in A : small(i) = small(j)
    OBVIOUS
  <1> HIDE DEF A, starts, count, small
  <1>7. C # {} /\ C \subseteq Nat
    BY <1>3, <1>4
  <1>8. PICK c \in C : \A d \in C : c <= d
    BY <1>7, LeastNumber
  <1> DEFINE B == {i \in A : count(i) = c}
  <1>9. B # {} /\ B \subseteq Nat
    BY <1>4, <1>8
  <1>10. PICK i \in B : \A j \in B : i <= j
    BY <1>9, LeastNumber
  <1>11. ASSUME NEW j \in starts
         PROVE  Better(i, j)
    <2>1. i \in A /\ count(i) = c /\ i \in Nat /\ c \in Nat
      BY <1>7, <1>9, <1>10
    <2>2. CASE j \in A
      <3>1. small(i) = small(j)
        BY <1>6, <2>1, <2>2
      <3>2. count(j) \in Nat /\ j \in Nat /\ c <= count(j)
        BY <1>3, <1>4, <1>8, <2>2
      <3>3. count(j) = c => i <= j
        BY <1>10, <2>2
      <3>4. count(i) < count(j) \/ (count(i) = count(j) /\ i <= j)
        BY <2>1, <3>2, <3>3
      <3> QED BY <3>1, <3>4
    <2>3. CASE j \notin A
      BY <1>5, <2>1, <2>3
    <2> QED BY <2>2, <2>3
  <1>12. i \in starts
    BY <1>4, <1>10
  <1> HIDE DEF Better
  <1>13. (CHOOSE k \in starts : \A j \in starts : Better(k, j)) \in starts
    BY <1>11, <1>12
  <1> QED BY <1>1, <1>13 DEF starts

(* Merging a run leaves a forest of the same rows, with fewer fragments.   *)
LEMMA AmalgamatedForest ==
  ASSUME NEW fs, NEW n, Tiled(fs, n), NEW m \in Nat, m >= 2, m <= Len(fs)
  PROVE  /\ Tiled(AmalgamateRun(fs, m), n) /\ Joined(fs, AmalgamateRun(fs, m))
         /\ Len(AmalgamateRun(fs, m)) = Len(fs) - m + 1
  <1> DEFINE i == BestRun(fs, m)
             c == ConcatMerge(SubSeq(fs, i, i + m - 1))
             a == SubSeq(fs, 1, i - 1)
             b == SubSeq(fs, i + m, Len(fs))
             h == AmalgamateRun(fs, m)
             L == Len(fs)
             M == L - m + 1
  <1>1. i \in 1 .. M
    BY BestRunExists
  <1>2. h = a \o <<c>> \o b
    BY DEF AmalgamateRun
  <1> HIDE DEF i
  <1>3. /\ L \in Nat /\ M \in Nat /\ i \in Nat /\ i >= 1 /\ i <= M /\ i + m - 1 <= L
        /\ fs \in Seq(Fragment) /\ L >= 2
    BY <1>1, ForestNumbers DEF Tiled
  <1>4. /\ Sound(c) /\ c.start = fs[i].start /\ c.end = fs[i + m - 1].end
        /\ \A k \in i .. i + m - 1 : RowsOf(fs[k]) \subseteq RowsOf(c)
    <2>1. m >= 1 /\ i + m - 1 <= Len(fs)
      BY <1>3
    <2> HIDE DEF a, b, h, L, M
    <2> QED BY <1>3, <2>1, MergedRun
  <1> HIDE DEF c, L
  <1>5. a \in Seq(Fragment) /\ Len(a) = i - 1 /\ \A k \in 1 .. i - 1 : a[k] = fs[k]
    <2>1. /\ SubSeq(fs, 1, i - 1) \in Seq(Fragment)
          /\ Len(SubSeq(fs, 1, i - 1)) = IF 1 <= i - 1 THEN (i - 1) - 1 + 1 ELSE 0
          /\ \A k \in 1 .. (i - 1) - 1 + 1 : SubSeq(fs, 1, i - 1)[k] = fs[1 + k - 1]
      <3>1. 1 \in 1 .. L + 1 /\ i - 1 \in 0 .. L
        BY <1>3
      <3> QED BY <1>3, <3>1, SubSeqProperties DEF L
    <2> HIDE DEF a
    <2>2. (i - 1) - 1 + 1 = i - 1 /\ \A k \in 1 .. i - 1 : 1 + k - 1 = k
      BY <1>3
    <2> QED BY <1>3, <2>1, <2>2 DEF a
  <1>6. b \in Seq(Fragment) /\ Len(b) = M - i /\ \A k \in 1 .. M - i : b[k] = fs[i + m + k - 1]
    <2>1. /\ SubSeq(fs, i + m, L) \in Seq(Fragment)
          /\ Len(SubSeq(fs, i + m, L)) = IF i + m <= L THEN L - (i + m) + 1 ELSE 0
          /\ \A k \in 1 .. L - (i + m) + 1 : SubSeq(fs, i + m, L)[k] = fs[(i + m) + k - 1]
      <3>1. i + m \in 1 .. L + 1 /\ L \in 0 .. L
        BY <1>3
      <3> QED BY <1>3, <3>1, SubSeqProperties DEF L
    <2>2. L - (i + m) + 1 = M - i
      BY <1>3
    <2>3. (IF i + m <= L THEN L - (i + m) + 1 ELSE 0) = M - i
      BY <1>3
    <2> QED BY <2>1, <2>2, <2>3 DEF L
  <1> HIDE DEF a, b
  <1>7. c \in Fragment /\ <<c>> \in Seq(Fragment) /\ Len(<<c>>) = 1 /\ <<c>>[1] = c
    BY <1>4 DEF Sound
  <1>8. /\ a \o <<c>> \in Seq(Fragment) /\ Len(a \o <<c>>) = i
        /\ \A k \in 1 .. i - 1 : (a \o <<c>>)[k] = fs[k]
        /\ (a \o <<c>>)[i] = c
    <2>1. /\ a \o <<c>> \in Seq(Fragment) /\ Len(a \o <<c>>) = Len(a) + Len(<<c>>)
          /\ \A k \in 1 .. Len(a) + Len(<<c>>) :
               (a \o <<c>>)[k] = IF k <= Len(a) THEN a[k] ELSE <<c>>[k - Len(a)]
      BY <1>5, <1>7, ConcatProperties
    <2>2. Len(a) + Len(<<c>>) = i
      BY <1>3, <1>5, <1>7
    <2>3. ASSUME NEW k \in 1 .. i - 1
          PROVE  (a \o <<c>>)[k] = fs[k]
      <3>1. k \in 1 .. i /\ k <= Len(a)
        BY <1>3, <1>5
      <3> QED BY <1>5, <2>1, <2>2, <3>1
    <2>4. (a \o <<c>>)[i] = c
      <3>1. i \in 1 .. i /\ ~(i <= Len(a)) /\ i - Len(a) = 1
        BY <1>3, <1>5
      <3> QED BY <1>7, <2>1, <2>2, <3>1
    <2> QED BY <2>1, <2>2, <2>3, <2>4
  <1> DEFINE d == a \o <<c>>
  <1>9. /\ h \in Seq(Fragment) /\ Len(h) = M
        /\ \A k \in 1 .. i - 1 : h[k] = fs[k]
        /\ h[i] = c
        /\ \A k \in i + 1 .. M : h[k] = fs[k + m - 1]
    <2>1. d \in Seq(Fragment) /\ Len(d) = i /\ h = d \o b
      BY <1>2, <1>8
    <2>2. \A k \in 1 .. i - 1 : d[k] = fs[k]
      BY <1>8
    <2>3. d[i] = c
      BY <1>8
    <2> HIDE DEF d
    <2>4. /\ d \o b \in Seq(Fragment) /\ Len(d \o b) = Len(d) + Len(b)
          /\ \A k \in 1 .. Len(d) + Len(b) :
               (d \o b)[k] = IF k <= Len(d) THEN d[k] ELSE b[k - Len(d)]
      BY <1>6, <2>1, ConcatProperties
    <2>5. Len(d) + Len(b) = M
      BY <1>3, <1>6, <2>1
    <2>6. ASSUME NEW k \in 1 .. i - 1
          PROVE  h[k] = fs[k]
      <3>1. k \in 1 .. M /\ k <= i
        BY <1>3
      <3> QED BY <2>1, <2>2, <2>4, <2>5, <3>1
    <2>7. h[i] = c
      <3>1. i \in 1 .. M /\ i <= i
        BY <1>3
      <3> QED BY <2>1, <2>3, <2>4, <2>5, <3>1
    <2>8. ASSUME NEW k \in i + 1 .. M
          PROVE  h[k] = fs[k + m - 1]
      <3>1. k \in 1 .. M /\ ~(k <= i) /\ k - i \in 1 .. M - i /\ i + m + (k - i) - 1 = k + m - 1
        BY <1>3
      <3>2. h[k] = b[k - i]
        BY <2>1, <2>4, <2>5, <3>1
      <3> QED BY <1>6, <3>1, <3>2
    <2> QED BY <2>1, <2>4, <2>5, <2>6, <2>7, <2>8
  <1> HIDE DEF h
  <1>10. /\ \A k \in 1 .. L : Sound(fs[k])
         /\ \A k \in 1 .. L - 1 : fs[k].end = fs[k + 1].start
         /\ fs[1].start = 0 /\ fs[L].end = n
    <2>1. fs # <<>>
      BY <1>3 DEF L
    <2> QED BY <2>1 DEF Tiled, L
  <1>11. ASSUME NEW k \in 1 .. M
         PROVE  Sound(h[k])
    <2>1. CASE k \in 1 .. i - 1
      <3>1. k \in 1 .. L
        BY <1>3, <2>1
      <3> QED BY <1>9, <1>10, <2>1, <3>1
    <2>2. CASE k = i
      BY <1>4, <1>9, <2>2
    <2>3. CASE k \in i + 1 .. M
      <3>1. k + m - 1 \in 1 .. L
        BY <1>3, <2>3
      <3> QED BY <1>9, <1>10, <2>3, <3>1
    <2>4. k \in 1 .. i - 1 \/ k = i \/ k \in i + 1 .. M
      BY <1>3
    <2> QED BY <2>1, <2>2, <2>3, <2>4
  <1>12. ASSUME NEW k \in 1 .. M - 1
         PROVE  h[k].end = h[k + 1].start
    <2>1. CASE k \in 1 .. i - 2
      <3>1. k \in 1 .. i - 1 /\ k + 1 \in 1 .. i - 1 /\ k \in 1 .. L - 1
        BY <1>3, <2>1
      <3> QED BY <1>9, <1>10, <3>1
    <2>2. CASE k = i - 1
      <3>1. k \in 1 .. i - 1 /\ k + 1 = i /\ k \in 1 .. L - 1
        BY <1>3, <2>2
      <3> QED BY <1>4, <1>9, <1>10, <3>1
    <2>3. CASE k = i
      <3>1. k + 1 \in i + 1 .. M /\ (k + 1) + m - 1 = i + m /\ i + m - 1 \in 1 .. L - 1
            /\ (i + m - 1) + 1 = i + m
        BY <1>3, <2>3
      <3>2. h[k + 1] = fs[i + m]
        BY <1>9, <3>1
      <3>3. fs[i + m - 1].end = fs[i + m].start
        BY <1>10, <3>1
      <3> QED BY <1>4, <1>9, <2>3, <3>2, <3>3
    <2>4. CASE k \in i + 1 .. M - 1
      <3>1. k \in i + 1 .. M /\ k + 1 \in i + 1 .. M /\ k + m - 1 \in 1 .. L - 1
            /\ (k + 1) + m - 1 = (k + m - 1) + 1
        BY <1>3, <2>4
      <3>2. h[k] = fs[k + m - 1] /\ h[k + 1] = fs[(k + m - 1) + 1]
        BY <1>9, <3>1
      <3> QED BY <1>10, <3>1, <3>2
    <2>5. k \in 1 .. i - 2 \/ k = i - 1 \/ k = i \/ k \in i + 1 .. M - 1
      BY <1>3
    <2> QED BY <2>1, <2>2, <2>3, <2>4, <2>5
  <1>13. h[1].start = 0
    <2>1. CASE i = 1
      BY <1>4, <1>9, <1>10, <2>1
    <2>2. CASE i # 1
      <3>1. 1 \in 1 .. i - 1
        BY <1>3, <2>2
      <3> QED BY <1>9, <1>10, <3>1
    <2> QED BY <2>1, <2>2
  <1>14. h[M].end = n
    <2>1. CASE i = M
      <3>1. i + m - 1 = L
        BY <1>3, <2>1
      <3> QED BY <1>4, <1>9, <1>10, <2>1, <3>1
    <2>2. CASE i # M
      <3>1. M \in i + 1 .. M /\ M + m - 1 = L
        BY <1>3, <2>2
      <3> QED BY <1>9, <1>10, <3>1
    <2> QED BY <2>1, <2>2
  <1>15. h # <<>>
    BY <1>3, <1>9
  <1> HIDE DEF M
  <1>16. Tiled(h, n)
    BY <1>9, <1>11, <1>12, <1>13, <1>14, <1>15 DEF Tiled
  <1>17. Joined(fs, h)
    <2>1. ASSUME NEW k \in 1 .. L
          PROVE  \E j \in 1 .. M : RowsOf(fs[k]) \subseteq RowsOf(h[j])
      <3>1. CASE k \in 1 .. i - 1
        <4>1. k \in 1 .. M
          BY <1>3, <3>1
        <4> QED BY <1>9, <3>1, <4>1
      <3>2. CASE k \in i .. i + m - 1
        BY <1>1, <1>4, <1>9, <3>2 DEF M
      <3>3. CASE k \in i + m .. L
        <4>1. k - m + 1 \in i + 1 .. M /\ (k - m + 1) + m - 1 = k /\ k - m + 1 \in 1 .. M
          BY <1>3, <3>3 DEF M
        <4>2. h[k - m + 1] = fs[k]
          BY <1>9, <4>1
        <4> QED BY <4>1, <4>2
      <3>4. k \in 1 .. i - 1 \/ k \in i .. i + m - 1 \/ k \in i + m .. L
        BY <1>3
      <3> QED BY <3>1, <3>2, <3>3, <3>4
    <2>2. DOMAIN fs = 1 .. L /\ DOMAIN h = 1 .. M
      BY <1>3, <1>9 DEF L
    <2> QED BY <2>1, <2>2 DEF Joined, ToSet
  <1> QED BY <1>9, <1>16, <1>17 DEF h, M, L

(* A round of the loop ends it or takes a fragment away.                   *)
LEMMA ShrunkForest ==
  ASSUME NEW fs, NEW n, Tiled(fs, n), NEW most \in Nat, most >= 1
  PROVE  /\ Tiled(Shrunk(fs, most), n) /\ Joined(fs, Shrunk(fs, most))
         /\ Len(Shrunk(fs, most)) \in Nat
         /\ Len(Shrunk(fs, most)) <= most \/ Len(Shrunk(fs, most)) < Len(fs)
  <1> DEFINE L == Len(fs)
             m == Smaller(Smaller(Larger(L - most, 2), 4), L)
  <1>1. L \in Nat
    BY ForestNumbers
  <1>2. CASE L <= most
    BY <1>1, <1>2, JoinedItself DEF Shrunk
  <1>3. CASE ~(L <= most)
    <2>1. Shrunk(fs, most) = AmalgamateRun(fs, m)
      BY <1>3 DEF Shrunk
    <2> HIDE DEF L
    <2>2. m \in Nat /\ m >= 2 /\ m <= L
      BY <1>1, <1>3 DEF Smaller, Larger
    <2> HIDE DEF m
    <2>3. /\ Tiled(AmalgamateRun(fs, m), n) /\ Joined(fs, AmalgamateRun(fs, m))
          /\ Len(AmalgamateRun(fs, m)) = L - m + 1
      BY <2>2, AmalgamatedForest DEF L
    <2>4. L - m + 1 \in Nat /\ L - m + 1 < L
      BY <1>1, <2>2
    <2> QED BY <2>1, <2>3, <2>4 DEF L
  <1> QED BY <1>2, <1>3

(* The rounds of the loop one after the other, up to the k-th.             *)
IsRounds(g, fs, most, k) ==
  g = [i \in 0 .. k |-> IF i = 0 THEN fs ELSE Shrunk(g[i - 1], most)]

LEMMA RoundsExist ==
  ASSUME NEW fs, NEW most, NEW k \in Nat
  PROVE  \E g : IsRounds(g, fs, most, k)
  <1> DEFINE S == {m \in Nat : \E g : IsRounds(g, fs, most, m)}
  <1>1. 0 \in S
    <2> DEFINE g == [i \in 0 .. 0 |-> fs]
    <2>1. \A i \in 0 .. 0 : i = 0
      OBVIOUS
    <2>2. IsRounds(g, fs, most, 0)
      BY <2>1 DEF IsRounds
    <2> QED BY <2>2
  <1>2. ASSUME NEW m \in Nat, m \in S
        PROVE  m + 1 \in S
    <2>1. PICK g : IsRounds(g, fs, most, m)
      BY <1>2
    <2> DEFINE h == [i \in 0 .. m + 1 |-> IF i = m + 1 THEN Shrunk(g[m], most) ELSE g[i]]
    <2>2. \A i \in 0 .. m : h[i] = g[i]
      OBVIOUS
    <2>3. ASSUME NEW i \in 0 .. m + 1
          PROVE  h[i] = IF i = 0 THEN fs ELSE Shrunk(h[i - 1], most)
      <3>1. CASE i = m + 1
        <4>1. i # 0 /\ i - 1 = m /\ h[i - 1] = g[m]
          BY <3>1, <2>2
        <4>2. h[i] = Shrunk(g[m], most)
          BY <3>1
        <4> HIDE DEF h
        <4> QED BY <4>1, <4>2
      <3>2. CASE i = 0
        <4>1. 0 \in 0 .. m
          OBVIOUS
        <4>2. h[0] = g[0]
          BY <2>2, <4>1
        <4> HIDE DEF h
        <4>3. g[0] = fs
          BY <2>1, <4>1 DEF IsRounds
        <4> QED BY <3>2, <4>2, <4>3
      <3>3. CASE i # 0 /\ i # m + 1
        <4>1. i \in 0 .. m /\ i - 1 \in 0 .. m
          BY <3>3
        <4>2. h[i] = g[i] /\ h[i - 1] = g[i - 1]
          BY <4>1, <2>2
        <4>3. g[i] = Shrunk(g[i - 1], most)
          BY <2>1, <3>3, <4>1 DEF IsRounds
        <4> HIDE DEF h
        <4> QED BY <3>3, <4>2, <4>3
      <3> QED BY <3>1, <3>2, <3>3
    <2>4. h = [i \in 0 .. m + 1 |-> h[i]]
      OBVIOUS
    <2> HIDE DEF h
    <2>5. IsRounds(h, fs, most, m + 1)
      BY <2>3, <2>4 DEF IsRounds
    <2> QED BY <2>5
  <1> HIDE DEF S
  <1>3. Nat \subseteq S
    BY <1>1, <1>2, SetInduction
  <1> QED BY <1>3 DEF S

(* Compaction leaves a forest of the same rows, of the fragments wanted.   *)
LEMMA CompactedForest ==
  ASSUME NEW fs, NEW n, Tiled(fs, n), NEW most \in Nat, most >= 1
  PROVE  /\ Tiled(Compact(fs, most), n) /\ Joined(fs, Compact(fs, most))
         /\ Len(Compact(fs, most)) <= most
  <1> DEFINE L == Len(fs)
             g == CHOOSE h : IsRounds(h, fs, most, L)
             P(k) == /\ Tiled(g[k], n) /\ Joined(fs, g[k]) /\ Len(g[k]) \in Nat
                     /\ Len(g[k]) <= most \/ Len(g[k]) + k <= L
             S == {k \in Nat : k <= L => P(k)}
  <1>1. Compact(fs, most) = g[L]
    BY DEF Compact, IsRounds
  <1>2. L \in Nat
    BY ForestNumbers
  <1> HIDE DEF L
  <1>3. IsRounds(g, fs, most, L)
    BY <1>2, RoundsExist
  <1> HIDE DEF g
  <1>4. 0 \in S
    <2>1. 0 \in 0 .. L
      BY <1>2
    <2>2. g[0] = fs
      BY <1>3, <2>1 DEF IsRounds
    <2> QED BY <1>2, <2>2, JoinedItself DEF L
  <1>5. ASSUME NEW k \in Nat, k \in S
        PROVE  k + 1 \in S
    <2>1. ASSUME k + 1 <= L
          PROVE  P(k + 1)
      <3>1. P(k)
        BY <1>2, <1>5, <2>1
      <3>2. k + 1 \in 0 .. L /\ k + 1 # 0 /\ (k + 1) - 1 = k
        BY <1>2, <2>1
      <3>3. g[k + 1] = Shrunk(g[k], most)
        BY <1>3, <3>2 DEF IsRounds
      <3>4. /\ Tiled(g[k + 1], n) /\ Joined(g[k], g[k + 1]) /\ Len(g[k + 1]) \in Nat
            /\ Len(g[k + 1]) <= most \/ Len(g[k + 1]) < Len(g[k])
        BY <3>1, <3>3, ShrunkForest
      <3>5. Joined(fs, g[k + 1])
        BY <3>1, <3>4, JoinedTwice
      <3> DEFINE x == Len(g[k])
                 y == Len(g[k + 1])
      <3>6. x \in Nat /\ (x <= most \/ x + k <= L)
        BY <3>1
      <3>7. y \in Nat /\ (y <= most \/ y < x)
        BY <3>4
      <3> HIDE DEF x, y
      <3>8. y <= most \/ y + (k + 1) <= L
        BY <1>2, <3>6, <3>7
      <3> QED BY <3>4, <3>5, <3>8 DEF y
    <2> HIDE DEF P
    <2> QED BY <2>1
  <1>6. P(L)
    <2> HIDE DEF P
    <2>1. L \in S
      <3> HIDE DEF S
      <3> QED BY <1>2, <1>4, <1>5, SetInduction
    <2> QED BY <1>2, <2>1
  <1> QED BY <1>1, <1>2, <1>6

-----------------------------------------------------------------------------
(* Indexing.                                                               *)

LEMMA BuiltFragment ==
  ASSUME NEW n \in Nat, NEW k \in 0 .. MaxRows, n < k, NEW acc, acc \subseteq n .. k - 1
  PROVE  Sound(BuildFragment(acc, n, k))
  <1> DEFINE seen == IF k - n <= StructuredLimit THEN CentroidOf(acc, n, k)
                     ELSE n .. k - 1
             f == BuildFragment(acc, n, k)
  <1>1. n .. k - 1 # {} /\ k \in Nat /\ n \in 0 .. MaxRows /\ n .. k - 1 \subseteq RowIds
    BY Numbers DEF RowIds
  <1>2. seen # {} /\ seen \subseteq n .. k - 1
    BY <1>1 DEF CentroidOf
  <1>3. f = [start |-> n, end |-> k, seen |-> seen]
    BY DEF BuildFragment
  <1> HIDE DEF seen, f
  <1>4. f.start = n /\ f.end = k /\ f.seen = seen
    BY <1>3
  <1>5. f \in Fragment
    BY <1>1, <1>2, <1>3 DEF Fragment
  <1> QED BY <1>2, <1>4, <1>5 DEF Sound, RowsOf, f

LEMMA AppendedForest ==
  ASSUME NEW fs, NEW n, Tiled(fs, n), NEW f, Sound(f), f.start = n
  PROVE  /\ Tiled(Append(fs, f), f.end) /\ Joined(fs, Append(fs, f))
         /\ Len(Append(fs, f)) = Len(fs) + 1
  <1> DEFINE h == Append(fs, f)
             L == Len(fs)
  <1>1. fs \in Seq(Fragment) /\ f \in Fragment /\ L \in Nat /\ DOMAIN fs = 1 .. L
    BY ForestNumbers DEF Tiled, Sound
  <1>2. /\ h \in Seq(Fragment) /\ Len(h) = L + 1 /\ h[L + 1] = f
        /\ \A i \in 1 .. L : h[i] = fs[i]
        /\ DOMAIN h = 1 .. L + 1
    BY <1>1
  <1> HIDE DEF h
  <1>3. /\ \A i \in 1 .. L : Sound(fs[i])
        /\ \A i \in 1 .. L - 1 : fs[i].end = fs[i + 1].start
        /\ L > 0 => fs[1].start = 0 /\ fs[L].end = n
        /\ L = 0 => n = 0
    <2>1. fs = <<>> <=> L = 0
      BY <1>1
    <2> QED BY <2>1 DEF Tiled
  <1> HIDE DEF L
  <1>4. \A i \in 1 .. L + 1 : Sound(h[i])
    <2>1. \A i \in 1 .. L + 1 : i \in 1 .. L \/ i = L + 1
      BY <1>1
    <2> QED BY <1>2, <1>3, <2>1
  <1>5. \A i \in 1 .. (L + 1) - 1 : h[i].end = h[i + 1].start
    <2>1. ASSUME NEW i \in 1 .. L
          PROVE  h[i].end = h[i + 1].start
      <3>1. CASE i = L
        BY <1>1, <1>2, <1>3, <3>1
      <3>2. CASE i # L
        <4>1. i \in 1 .. L - 1 /\ i + 1 \in 1 .. L
          BY <1>1, <3>2
        <4> QED BY <1>2, <1>3, <4>1
      <3> QED BY <3>1, <3>2
    <2>2. (L + 1) - 1 = L
      BY <1>1
    <2> QED BY <2>1, <2>2
  <1>6. h # <<>> /\ h[1].start = 0 /\ h[Len(h)].end = f.end
    <2>1. CASE L = 0
      BY <1>1, <1>2, <1>3, <2>1
    <2>2. CASE L # 0
      <3>1. 1 \in 1 .. L
        BY <1>1, <2>2
      <3> QED BY <1>1, <1>2, <1>3, <3>1
    <2> QED BY <2>1, <2>2
  <1>7. Tiled(h, f.end)
    BY <1>2, <1>4, <1>5, <1>6 DEF Tiled
  <1>8. Joined(fs, h)
    <2>1. \A i \in 1 .. L : i \in 1 .. L + 1
      BY <1>1
    <2>2. DOMAIN fs = 1 .. L
      BY <1>1 DEF L
    <2> QED BY <1>2, <2>1, <2>2 DEF Joined, ToSet
  <1> QED BY <1>2, <1>7, <1>8 DEF h, L

(* Indexing adds a fragment of the new rows and keeps to the limit.        *)
LEMMA IndexedForest ==
  ASSUME NEW fs, NEW n \in Nat, Tiled(fs, n), Len(fs) <= CompactLimit(n),
         NEW k \in 0 .. MaxRows, NEW acc, acc \subseteq n .. k - 1
  PROVE  LET gs == IndexThrough(fs, n, acc, k)
         IN  /\ Tiled(gs, Larger(n, k)) /\ Joined(fs, gs)
             /\ Len(gs) <= CompactLimit(Larger(n, k))
  <1> DEFINE gs == IndexThrough(fs, n, acc, k)
             f == BuildFragment(acc, n, k)
             a == Append(fs, f)
             most == IndexThreshold(k)
  <1>1. k \in Nat
    BY Numbers
  <1>2. CASE n >= k
    <2>1. gs = fs /\ Larger(n, k) = n
      BY <1>1, <1>2 DEF IndexThrough, Larger
    <2> QED BY <2>1, JoinedItself
  <1>3. CASE ~(n >= k)
    <2>1. gs = MaybeCompact(a, k) /\ Larger(n, k) = k /\ n < k
      BY <1>1, <1>3 DEF IndexThrough, Larger
    <2> HIDE DEF gs, a, most
    <2>2. Sound(f) /\ f.start = n /\ f.end = k
      <3>1. Sound(f)
        BY <2>1, BuiltFragment
      <3>2. f.start = n /\ f.end = k
        BY DEF BuildFragment
      <3> QED BY <3>1, <3>2
    <2> HIDE DEF f
    <2>3. Tiled(a, k) /\ Joined(fs, a) /\ Len(a) \in Nat
      BY <2>2, AppendedForest, ForestNumbers DEF a
    <2>4. most \in Nat /\ most >= 1 /\ CompactLimit(k) \in Nat /\ CompactLimit(k) >= most
      BY <1>1, LimitNumbers DEF most
    <2>5. CASE Len(a) > CompactLimit(k)
      <3>1. gs = Compact(a, most)
        BY <2>1, <2>5 DEF MaybeCompact, most
      <3>2. Tiled(gs, k) /\ Joined(a, gs) /\ Len(gs) <= most
        BY <2>3, <2>4, <3>1, CompactedForest
      <3>3. Joined(fs, gs)
        BY <2>3, <3>2, JoinedTwice
      <3>4. Len(gs) \in Nat
        BY <3>2, ForestNumbers
      <3>5. Len(gs) <= CompactLimit(k)
        BY <2>4, <3>2, <3>4
      <3> QED BY <2>1, <3>2, <3>3, <3>5 DEF gs
    <2>6. CASE ~(Len(a) > CompactLimit(k))
      <3>1. gs = a
        BY <2>1, <2>6 DEF MaybeCompact
      <3>2. Len(a) <= CompactLimit(k)
        BY <2>3, <2>4, <2>6
      <3> QED BY <2>1, <2>3, <3>1, <3>2 DEF gs
    <2> QED BY <2>5, <2>6
  <1> QED BY <1>2, <1>3

-----------------------------------------------------------------------------
(* The steps.                                                              *)

LEMMA InvParts ==
  IInv <=> /\ TypeOK /\ Tiled(forest, indexed) /\ Len(forest) <= CompactLimit(indexed)
           /\ FullSearchesFill /\ NotedInv /\ StoredInv
  <1>1. ASSUME forest \in Seq(Fragment)
        PROVE  Tiled(forest, indexed) <=> FragmentsTile /\ CentroidNotPoisoned
    <2>1. /\ Head(forest) = forest[1] /\ Last(forest) = forest[Len(forest)]
          /\ DOMAIN forest = 1 .. Len(forest)
      BY <1>1 DEF Last
    <2>2. \A i \in 1 .. Len(forest) : forest[i] \in Fragment
      BY <1>1
    <2>3. CentroidNotPoisoned <=>
            \A i \in 1 .. Len(forest) :
              forest[i].seen # {} /\ forest[i].seen \subseteq RowsOf(forest[i])
      BY <2>1 DEF CentroidNotPoisoned, ToSet
    <2> QED BY <1>1, <2>1, <2>2, <2>3 DEF Tiled, FragmentsTile, Sound
  <1> QED BY <1>1 DEF IInv, ForestOK, FragmentsBounded, TypeOK

LEMMA InvPartsNext ==
  IInv' <=> /\ TypeOK' /\ Tiled(forest', indexed') /\ (Len(forest) <= CompactLimit(indexed))'
            /\ FullSearchesFill' /\ NotedInv' /\ StoredInv'
  <1>1. IInv' <=> /\ TypeOK' /\ Tiled(forest, indexed)'
                  /\ (Len(forest) <= CompactLimit(indexed))'
                  /\ FullSearchesFill' /\ NotedInv' /\ StoredInv'
    BY InvParts, PTL
  <1> QED BY <1>1 DEF Tiled, Sound

LEMMA StateNumbers ==
  ASSUME IInv
  PROVE  /\ rows \in Nat /\ rows <= MaxRows /\ indexed \in Nat /\ indexed <= rows
         /\ pending \in Nat /\ pending <= rows /\ counted \in Nat /\ counted <= rows
         /\ noted \subseteq indexed .. rows - 1
         /\ Tiled(forest, indexed) /\ Len(forest) <= CompactLimit(indexed)
  BY InvParts, Numbers DEF TypeOK, NotedInv, StoredInv

(* A step that is no search leaves the invariant if the forest is of the   *)
(* indexed rows and the accumulator and the page files of theirs.          *)
LEMMA StateAfter ==
  ASSUME rows' \in 0 .. MaxRows, indexed' \in 0 .. MaxRows, counted' \in 0 .. MaxRows,
         pending' \in Nat, stored' \in Fragment, marked' \in BOOLEAN,
         Tiled(forest', indexed'), Len(forest') <= CompactLimit(indexed'),
         NotedInv', StoredInv', answer' = NoAnswer
  PROVE  IInv'
  <1>1. rows' \in Nat /\ rows' <= MaxRows /\ indexed' \in Nat
    BY Numbers
  <1>2. answer' \in [columns: Nat, filled: Nat, complete: BOOLEAN]
    BY DEF NoAnswer
  <1>3. noted' \subseteq RowIds /\ pending' \in 0 .. MaxRows
    <2>1. noted' \subseteq indexed' .. rows' - 1 /\ pending' <= rows'
      BY DEF NotedInv
    <2>2. \A a, b \in Nat : b <= MaxRows => a .. b - 1 \subseteq RowIds
      BY Numbers DEF RowIds
    <2>3. pending' \in 0 .. MaxRows
      BY <1>1, <2>1, Numbers
    <2> QED BY <1>1, <2>1, <2>2, <2>3
  <1>4. forest' \in Seq(Fragment)
    BY DEF Tiled
  <1>5. TypeOK'
    BY <1>2, <1>3, <1>4 DEF TypeOK
  <1>6. FullSearchesFill'
    <2>1. answer'.filled = 0 /\ answer'.columns = 0
      BY DEF NoAnswer
    <2>2. \A x \in Int : 0 >= Smaller(0, x)
      BY DEF Smaller
    <2>3. rows' - 1 \in Int
      BY <1>1
    <2> QED BY <2>1, <2>2, <2>3 DEF FullSearchesFill
  <1>7. (Len(forest) <= CompactLimit(indexed))'
    BY DEF CompactLimit, IndexThreshold, Larger, Smaller
  <1> QED BY <1>5, <1>6, <1>7, InvPartsNext

LEMMA AppendFailedKeepsInv ==
  ASSUME IInv, AppendFailed
  PROVE  IInv'
  <1>1. PICK n \in 1 .. MaxBatch : rows + n <= MaxRows /\ rows' = rows + n
    BY DEF AppendFailed
  <1>2. /\ answer' = NoAnswer
        /\ UNCHANGED <<forest, indexed, noted, pending, stored, counted, marked>>
    BY DEF AppendFailed
  <1>3. n \in Nat /\ TypeOK /\ StoredInv
    BY InvParts, Numbers
  <1>4. rows' \in 0 .. MaxRows /\ rows \in Nat /\ rows <= rows'
    BY <1>1, <1>3, StateNumbers, Numbers
  <1>5. NotedInv'
    BY <1>2, <1>4, StateNumbers DEF NotedInv
  <1>6. StoredInv'
    BY <1>2, <1>3, <1>4, StateNumbers DEF StoredInv, RowsOf
  <1> QED BY <1>2, <1>3, <1>4, <1>5, <1>6, StateNumbers, StateAfter DEF TypeOK

(* What index_through does to the forest and the count of its rows.        *)
LEMMA IndexedState ==
  ASSUME IInv, NEW k \in 0 .. MaxRows, rows <= k, NEW acc, acc \subseteq indexed .. k - 1,
         Indexed(k, acc)
  PROVE  /\ indexed' = k /\ Tiled(forest', indexed') /\ Joined(forest, forest')
         /\ Len(forest') <= CompactLimit(indexed')
         /\ counted' \in 0 .. MaxRows /\ counted <= counted' /\ counted' <= k
  <1>1. k \in Nat /\ indexed <= k /\ counted <= k /\ k <= MaxRows
    BY StateNumbers, Numbers
  <1>2. indexed' = k /\ Larger(indexed, k) = k
    BY <1>1, StateNumbers DEF Indexed, Larger
  <1>3. forest' = IndexThrough(forest, indexed, acc, k)
    BY DEF Indexed
  <1>4. Tiled(forest', k) /\ Joined(forest, forest') /\ Len(forest') <= CompactLimit(k)
    BY <1>2, <1>3, StateNumbers, IndexedForest
  <1>5. counted' = IF indexed < k THEN k ELSE counted
    BY DEF Indexed
  <1>6. counted' \in 0 .. MaxRows /\ counted <= counted' /\ counted' <= k
    BY <1>1, <1>5, StateNumbers, Numbers
  <1> QED BY <1>2, <1>4, <1>6

(* The page files hold what they did, however the counts grow.             *)
LEMMA StoredStays ==
  ASSUME StoredInv, UNCHANGED stored, TypeOK,
         counted' \in Nat, counted <= counted', indexed' <= rows', counted' <= rows'
  PROVE  StoredInv'
  <1>1. stored.end \in Nat /\ counted \in Nat
    BY FragmentNumbers, Numbers DEF TypeOK
  <1>2. stored # NoFragment => stored.end <= counted'
    BY <1>1 DEF StoredInv
  <1> QED BY <1>2 DEF StoredInv, RowsOf

LEMMA AppendRowsKeepsInv ==
  ASSUME IInv, AppendRows
  PROVE  IInv' /\ Joined(forest, forest')
  <1>1. PICK n \in 1 .. MaxBatch :
          LET all == noted \cup NewRows(n)
          IN /\ rows + n <= MaxRows
             /\ rows' = rows + n
             /\ IF pending + n >= HardThreshold
                THEN /\ Indexed(rows + n, all)
                     /\ noted' = Drained(rows + n - indexed)
                     /\ pending' = 0
                ELSE /\ noted' = all
                     /\ pending' = pending + n
                     /\ UNCHANGED <<forest, indexed, counted>>
             /\ answer' = NoAnswer
             /\ UNCHANGED <<stored, marked>>
    BY DEF AppendRows
  <1> DEFINE all == noted \cup NewRows(n)
  <1>2. n \in Nat /\ TypeOK /\ StoredInv
    BY InvParts, Numbers
  <1>3. /\ rows' = rows + n /\ rows' \in 0 .. MaxRows /\ rows <= rows' /\ rows' \in Nat
    BY <1>1, <1>2, StateNumbers, Numbers
  <1>4. all \subseteq indexed .. rows' - 1
    BY <1>2, <1>3, StateNumbers DEF NewRows
  <1> HIDE DEF all
  <1>5. answer' = NoAnswer /\ UNCHANGED <<stored, marked>>
    BY <1>1
  <1>6. CASE pending + n >= HardThreshold
    <2>1. Indexed(rows', all) /\ noted' = {} /\ pending' = 0
      BY <1>1, <1>6 DEF Drained, all
    <2>2. /\ indexed' = rows' /\ Tiled(forest', indexed') /\ Joined(forest, forest')
          /\ Len(forest') <= CompactLimit(indexed')
          /\ counted' \in 0 .. MaxRows /\ counted <= counted' /\ counted' <= rows'
      BY <1>3, <1>4, <2>1, IndexedState
    <2>3. NotedInv'
      BY <1>3, <2>1 DEF NotedInv
    <2>4. StoredInv'
      BY <1>2, <1>3, <1>5, <2>2, StoredStays, Numbers
    <2> QED BY <1>2, <1>3, <1>5, <2>1, <2>2, <2>3, <2>4, StateAfter DEF TypeOK
  <1>7. CASE ~(pending + n >= HardThreshold)
    <2>1. /\ noted' = all /\ pending' = pending + n
          /\ UNCHANGED <<forest, indexed, counted>>
      BY <1>1, <1>7 DEF all
    <2>2. NotedInv'
      BY <1>2, <1>3, <1>4, <2>1, StateNumbers DEF NotedInv
    <2>3. StoredInv'
      BY <1>2, <1>3, <1>5, <2>1, StateNumbers, StoredStays
    <2>4. pending' \in Nat
      BY <1>2, <2>1, StateNumbers
    <2> QED BY <1>2, <1>3, <1>5, <2>1, <2>2, <2>3, <2>4, StateNumbers, StateAfter, JoinedItself
            DEF TypeOK
  <1> QED BY <1>6, <1>7

LEMMA EnsureSyncKeepsInv ==
  ASSUME IInv, EnsureSync
  PROVE  IInv' /\ Joined(forest, forest')
  <1>1. /\ Indexed(rows, noted) /\ noted' = {} /\ pending' = 0 /\ answer' = NoAnswer
        /\ UNCHANGED <<rows, stored, marked>>
    BY DEF EnsureSync, Drained
  <1>2. TypeOK /\ StoredInv /\ rows \in 0 .. MaxRows
    BY InvParts DEF TypeOK
  <1>3. /\ indexed' = rows /\ Tiled(forest', indexed') /\ Joined(forest, forest')
        /\ Len(forest') <= CompactLimit(indexed')
        /\ counted' \in 0 .. MaxRows /\ counted <= counted' /\ counted' <= rows
    BY <1>1, <1>2, StateNumbers, IndexedState
  <1>4. NotedInv'
    BY <1>1, StateNumbers DEF NotedInv
  <1>5. StoredInv'
    BY <1>1, <1>2, <1>3, StateNumbers, StoredStays, Numbers
  <1> QED BY <1>1, <1>2, <1>3, <1>4, <1>5, StateAfter DEF TypeOK

LEMMA SyncFailedKeepsInv ==
  ASSUME IInv, SyncFailed
  PROVE  IInv'
  <1>1. /\ noted' = {} /\ answer' = NoAnswer
        /\ UNCHANGED <<rows, forest, indexed, pending, stored, counted, marked>>
    BY DEF SyncFailed
  <1>2. TypeOK /\ StoredInv
    BY InvParts
  <1>3. NotedInv'
    BY <1>1, StateNumbers DEF NotedInv
  <1>4. StoredInv'
    BY <1>1, <1>2 DEF StoredInv, RowsOf
  <1> QED BY <1>1, <1>2, <1>3, <1>4, StateNumbers, StateAfter DEF TypeOK

LEMMA EmptyForest ==
  /\ Tiled(<<>>, 0) /\ Len(<<>>) = 0
  /\ \A n \in Nat : Len(<<>>) <= CompactLimit(n)
  <1>1. Len(<<>>) = 0 /\ <<>> \in Seq(Fragment)
    OBVIOUS
  <1>2. Tiled(<<>>, 0)
    BY <1>1 DEF Tiled
  <1> QED BY <1>1, <1>2, LimitNumbers

LEMMA ResetKeepsInv ==
  ASSUME IInv, Reset
  PROVE  IInv'
  <1>1. /\ forest' = <<>> /\ indexed' = 0 /\ noted' = {} /\ pending' = rows /\ marked' = TRUE
        /\ answer' = NoAnswer /\ UNCHANGED <<rows, stored, counted>>
    BY DEF Reset
  <1>2. TypeOK /\ StoredInv
    BY InvParts
  <1>3. NotedInv'
    BY <1>1, StateNumbers DEF NotedInv
  <1>4. StoredInv'
    BY <1>1, <1>2, StateNumbers, StoredStays
  <1>5. Tiled(forest', indexed') /\ Len(forest') <= CompactLimit(indexed')
    BY <1>1, EmptyForest
  <1>6. indexed' \in 0 .. MaxRows /\ pending' \in Nat
    BY <1>1, StateNumbers, Numbers
  <1> QED BY <1>1, <1>2, <1>3, <1>4, <1>5, <1>6, StateAfter DEF TypeOK

LEMMA PersistIndexKeepsInv ==
  ASSUME IInv, PersistIndex
  PROVE  IInv' /\ Joined(forest, forest')
  <1> DEFINE fs == IndexThrough(forest, indexed, noted, rows)
  <1>1. /\ rows > 0 /\ forest' = fs /\ indexed' = rows /\ counted' = rows
        /\ noted' = (IF indexed < rows THEN {} ELSE noted)
        /\ stored' = ConcatMerge(fs) /\ pending' = 0 /\ marked' = FALSE
        /\ answer' = NoAnswer /\ UNCHANGED rows
    BY DEF PersistIndex, Drained
  <1>2. TypeOK /\ rows \in 0 .. MaxRows
    BY InvParts DEF TypeOK
  <1>3. Larger(indexed, rows) = rows
    BY StateNumbers DEF Larger
  <1>4. Tiled(fs, rows) /\ Joined(forest, fs) /\ Len(fs) <= CompactLimit(rows)
    BY <1>2, <1>3, StateNumbers, IndexedForest
  <1> HIDE DEF fs
  <1>5. fs # <<>> /\ fs \in Seq(Fragment) /\ Len(fs) \in Nat /\ Len(fs) >= 1
    <2>1. fs # <<>>
      BY <1>1, <1>4 DEF Tiled
    <2>2. fs \in Seq(Fragment)
      BY <1>4 DEF Tiled
    <2> QED BY <2>1, <2>2
  <1>6. Sound(stored') /\ stored'.start = 0 /\ stored'.end = rows
    <2> DEFINE L == Len(fs)
    <2>1. SubSeq(fs, 1, 1 + L - 1) = fs
      <3>1. 1 + L - 1 = L
        BY <1>5
      <3> QED BY <1>5, <3>1, SubSeqFull
    <2>2. 1 \in Nat /\ L \in Nat /\ L >= 1 /\ 1 + L - 1 <= L
      BY <1>5
    <2>3. LET c == ConcatMerge(SubSeq(fs, 1, 1 + L - 1))
          IN  Sound(c) /\ c.start = fs[1].start /\ c.end = fs[1 + L - 1].end
      BY <1>4, <2>2, MergedRun
    <2>4. 1 + L - 1 = L
      BY <1>5
    <2>5. fs[1].start = 0 /\ fs[L].end = rows
      BY <1>4, <1>5 DEF Tiled
    <2> HIDE DEF L
    <2> QED BY <1>1, <2>1, <2>3, <2>4, <2>5
  <1>7. NotedInv'
    BY <1>1, StateNumbers DEF NotedInv
  <1>8. StoredInv'
    BY <1>1, <1>6, StateNumbers DEF StoredInv, Sound
  <1>9. stored' \in Fragment
    BY <1>6 DEF Sound
  <1> QED BY <1>1, <1>2, <1>4, <1>7, <1>8, <1>9, StateAfter

LEMMA ReopenKeepsInv ==
  ASSUME IInv, Reopen
  PROVE  IInv'
  <1> DEFINE i == IF marked THEN 0 ELSE Smaller(counted, rows)
             fs == IF stored # NoFragment /\ i > 0 THEN <<stored>> ELSE <<>>
             persisted == IF fs = <<>> THEN 0 ELSE stored.end
             p == Smaller(persisted, i)
  <1>1. /\ forest' = IndexThrough(fs, p, {}, i) /\ indexed' = i /\ noted' = {}
        /\ pending' = rows - i /\ answer' = NoAnswer /\ UNCHANGED <<rows, stored, counted, marked>>
    BY DEF Reopen
  <1>2. TypeOK /\ StoredInv
    BY InvParts
  <1>3. i \in Nat /\ i <= rows /\ i \in 0 .. MaxRows /\ (i > 0 => i = counted)
    BY StateNumbers, Numbers DEF Smaller
  <1> HIDE DEF i
  <1>4. p \in Nat /\ p <= i /\ Tiled(fs, p) /\ Len(fs) <= CompactLimit(p)
    <2>1. CASE stored # NoFragment /\ i > 0
      <3>1. /\ Sound(stored) /\ stored.start = 0 /\ stored.end <= i /\ stored.end \in Nat
        <4>1. /\ stored \in Fragment /\ stored.start = 0 /\ 0 < stored.end
              /\ stored.end <= counted /\ stored.seen # {} /\ stored.seen \subseteq RowsOf(stored)
          BY <1>2, <2>1 DEF TypeOK, StoredInv
        <4> QED BY <1>3, <2>1, <4>1, FragmentNumbers DEF Sound
      <3>2. fs = <<stored>> /\ fs # <<>>
        BY <2>1
      <3>3. p = stored.end
        BY <1>3, <3>1, <3>2 DEF Smaller
      <3>4. Len(<<stored>>) = 1 /\ <<stored>>[1] = stored /\ <<stored>> \in Seq(Fragment)
        BY <3>1 DEF Sound
      <3>5. Tiled(<<stored>>, stored.end)
        BY <3>1, <3>4 DEF Tiled
      <3>6. CompactLimit(stored.end) >= 1
        BY <3>1, LimitNumbers
      <3> QED BY <3>1, <3>2, <3>3, <3>4, <3>5, <3>6
    <2>2. CASE ~(stored # NoFragment /\ i > 0)
      <3>1. fs = <<>> /\ p = 0
        BY <1>3, <2>2 DEF Smaller
      <3> QED BY <1>3, <3>1, EmptyForest
    <2> QED BY <2>1, <2>2
  <1> HIDE DEF p, fs
  <1>5. Tiled(forest', i) /\ Len(forest') <= CompactLimit(i)
    <2>1. Larger(p, i) = i
      BY <1>3, <1>4 DEF Larger
    <2>2. {} \subseteq p .. i - 1
      OBVIOUS
    <2> QED BY <1>1, <1>3, <1>4, <2>1, <2>2, IndexedForest
  <1>6. NotedInv'
    BY <1>1, <1>3, StateNumbers DEF NotedInv
  <1>7. StoredInv'
    BY <1>1, <1>2, <1>3, StateNumbers, StoredStays
  <1>8. pending' \in Nat
    BY <1>1, <1>3, StateNumbers
  <1> QED BY <1>1, <1>2, <1>3, <1>5, <1>6, <1>7, <1>8, StateAfter DEF TypeOK

-----------------------------------------------------------------------------
(* Searches.                                                               *)

(* The fragments together hold the rows below n and no other.              *)
LEMMA ForestRows ==
  ASSUME NEW fs, NEW n \in Nat, Tiled(fs, n)
  PROVE  UNION {RowsOf(fs[i]) : i \in 1 .. Len(fs)} = 0 .. n - 1
  <1> DEFINE L == Len(fs)
             U == UNION {RowsOf(fs[i]) : i \in 1 .. L}
             P(k) == \A r \in Nat : r < fs[k].end => r \in U
             S == {k \in Nat : k >= 1 /\ k <= L => P(k)}
  <1>1. L \in Nat
    BY ForestNumbers
  <1>2. \A k \in 1 .. L : fs[k].start \in Nat /\ fs[k].end \in Nat /\ fs[k].start < fs[k].end
    BY ForestNumbers
  <1>3. L > 0 => fs[1].start = 0 /\ fs[L].end = n
    <2>1. L > 0 => fs # <<>>
      OBVIOUS
    <2> QED BY <2>1 DEF Tiled
  <1>4. L = 0 => n = 0
    <2>1. L = 0 => fs = <<>>
      BY DEF Tiled
    <2> QED BY <2>1 DEF Tiled
  <1>5. \A k \in 1 .. L : k < L => fs[k].end = fs[k + 1].start
    BY <1>1 DEF Tiled
  <1>6. \A k \in 1 .. L : fs[k].end <= fs[L].end
    BY <1>1, ForestOrdered
  <1> HIDE DEF L
  <1>7. U \subseteq 0 .. n - 1
    <2>1. ASSUME NEW k \in 1 .. L, NEW r \in RowsOf(fs[k])
          PROVE  r \in 0 .. n - 1
      <3>1. fs[k].end <= n /\ L > 0
        BY <1>1, <1>3, <1>6
      <3>2. r \in fs[k].start .. fs[k].end - 1
        BY DEF RowsOf
      <3> QED BY <1>2, <3>1, <3>2
    <2> QED BY <2>1
  <1>8. \A k \in 1 .. L : RowsOf(fs[k]) \subseteq U
    OBVIOUS
  <1> HIDE DEF U
  <1>9. ASSUME NEW k \in Nat, k \in S
        PROVE  k + 1 \in S
    <2>1. ASSUME k + 1 >= 1, k + 1 <= L
          PROVE  P(k + 1)
      <3>1. k + 1 \in 1 .. L
        BY <1>1, <2>1
      <3>2. ASSUME NEW r \in Nat, r < fs[k + 1].end
            PROVE  r \in U
        <4>1. CASE r >= fs[k + 1].start
          <5>1. r \in RowsOf(fs[k + 1])
            BY <1>2, <3>1, <3>2, <4>1 DEF RowsOf
          <5> QED BY <1>8, <3>1, <5>1
        <4>2. CASE ~(r >= fs[k + 1].start)
          <5>1. CASE k = 0
            <6>1. fs[k + 1].start = 0
              BY <1>1, <1>3, <2>1, <5>1
            <6> QED BY <3>2, <4>2, <6>1
          <5>2. CASE k # 0
            <6>1. k \in 1 .. L /\ k < L /\ k >= 1 /\ k <= L
              BY <1>1, <2>1, <5>2
            <6>2. fs[k].end = fs[k + 1].start
              BY <1>5, <6>1
            <6>3. P(k)
              BY <1>9, <6>1
            <6>4. r < fs[k].end
              BY <1>2, <3>1, <4>2, <6>2
            <6> QED BY <6>3, <6>4
          <5> QED BY <5>1, <5>2
        <4> QED BY <4>1, <4>2
      <3> QED BY <3>2
    <2> HIDE DEF P
    <2> QED BY <2>1
  <1>10. 0 \in S
    OBVIOUS
  <1>11. L > 0 => P(L)
    <2> HIDE DEF P
    <2>1. L \in S
      <3> HIDE DEF S
      <3> QED BY <1>1, <1>9, <1>10, SetInduction
    <2> QED BY <1>1, <2>1
  <1>12. 0 .. n - 1 \subseteq U
    <2>1. CASE L > 0
      BY <1>3, <1>11, <2>1
    <2>2. CASE ~(L > 0)
      <3>1. 0 .. n - 1 = {}
        BY <1>1, <1>4, <2>2
      <3> QED BY <3>1
    <2> QED BY <2>1, <2>2
  <1> QED BY <1>7, <1>12 DEF U, L

(* What a search may rank: numbers, and all of the indexed rows if every   *)
(* fragment is chosen and small.                                           *)
LEMMA RankedNumbers ==
  ASSUME IInv, NEW chosen, chosen \subseteq DOMAIN forest
  PROVE  /\ Ranked(chosen) \subseteq Nat
         /\ chosen = DOMAIN forest /\ (\A f \in ToSet(forest) : SizeOf(f) <= ExhaustiveLimit)
              => \A r \in Ranked(chosen) : r = indexed
  <1> DEFINE L == Len(forest)
             Least(f) == IF SizeOf(f) <= ExhaustiveLimit THEN RowsOf(f) ELSE {f.start}
             A == UNION {Least(forest[i]) : i \in chosen}
             B == UNION {RowsOf(forest[i]) : i \in chosen}
  <1>1. Ranked(chosen) = Cardinality(A) .. Cardinality(B)
    BY DEF Ranked
  <1>2. Tiled(forest, indexed) /\ indexed \in Nat
    BY StateNumbers
  <1>3. /\ L \in Nat /\ DOMAIN forest = 1 .. L
        /\ \A i \in 1 .. L : /\ forest[i].start \in Nat /\ forest[i].end \in Nat
                             /\ forest[i].start < forest[i].end
    BY <1>2, ForestNumbers
  <1>4. B \subseteq 0 .. indexed - 1
    <2>1. B \subseteq UNION {RowsOf(forest[i]) : i \in 1 .. L}
      BY <1>3
    <2> QED BY <1>2, <2>1, ForestRows
  <1>5. A \subseteq B
    <2>1. \A i \in 1 .. L : forest[i].start \in RowsOf(forest[i])
      BY <1>3 DEF RowsOf
    <2>2. \A i \in chosen : Least(forest[i]) \subseteq RowsOf(forest[i])
      BY <1>3, <2>1
    <2> QED BY <2>2
  <1>6. IsFiniteSet(0 .. indexed - 1) /\ Cardinality(0 .. indexed - 1) = indexed
    <2>1. 0 \in Int /\ indexed - 1 \in Int
      BY <1>2
    <2>2. /\ IsFiniteSet(0 .. indexed - 1)
          /\ Cardinality(0 .. indexed - 1) =
               IF 0 > indexed - 1 THEN 0 ELSE (indexed - 1) - 0 + 1
      BY <2>1, FS_Interval
    <2> QED BY <1>2, <2>2
  <1>7. (chosen = DOMAIN forest /\ \A f \in ToSet(forest) : SizeOf(f) <= ExhaustiveLimit)
          => A = 0 .. indexed - 1 /\ B = 0 .. indexed - 1
    <2>1. ASSUME chosen = DOMAIN forest, \A f \in ToSet(forest) : SizeOf(f) <= ExhaustiveLimit
          PROVE  A = 0 .. indexed - 1 /\ B = 0 .. indexed - 1
      <3>1. \A i \in 1 .. L : SizeOf(forest[i]) <= ExhaustiveLimit
        BY <1>3, <2>1 DEF ToSet
      <3>2. \A i \in 1 .. L : Least(forest[i]) = RowsOf(forest[i])
        BY <3>1
      <3>3. B = 0 .. indexed - 1
        BY <1>2, <1>3, <2>1, ForestRows
      <3>4. A = B
        BY <1>3, <2>1, <3>2
      <3> QED BY <3>3, <3>4
    <2> QED BY <2>1
  <1> HIDE DEF A, B
  <1>8. IsFiniteSet(A) /\ IsFiniteSet(B) /\ Cardinality(A) \in Nat /\ Cardinality(B) \in Nat
    BY <1>4, <1>5, <1>6, FS_Subset, FS_CardinalityType
  <1>9. Ranked(chosen) \subseteq Nat
    BY <1>1, <1>8
  <1>10. ASSUME A = 0 .. indexed - 1, B = 0 .. indexed - 1, NEW r \in Ranked(chosen)
         PROVE  r = indexed
    <2>1. r \in indexed .. indexed
      BY <1>1, <1>6, <1>10
    <2> QED BY <1>2, <2>1
  <1> QED BY <1>7, <1>9, <1>10

(* The arithmetic of an answer: with all the indexed rows ranked, the two  *)
(* legs fill every column, short of the excluded row.                      *)
LEMMA LegsFill ==
  ASSUME NEW k \in Nat, k >= 1, NEW n \in Nat, n >= 1, NEW i \in Nat, i <= n,
         NEW excludeNearest \in BOOLEAN,
         NEW columns, columns = Smaller(k, n),
         NEW pool, pool = IF excludeNearest THEN Smaller(k + 1, n) ELSE columns,
         NEW depth, depth = IF excludeNearest THEN Larger(pool, 2 * columns) ELSE columns
  PROVE  Merged(Smaller(depth, i) + Smaller(pool, n - i), columns, excludeNearest)
           >= Smaller(columns, n - 1)
  <1> DEFINE c == Smaller(depth, i) + Smaller(pool, n - i)
  <1>1. columns \in Nat /\ columns <= k /\ columns <= n /\ (columns = k \/ columns = n)
    BY DEF Smaller
  <1>2. CASE ~excludeNearest
    <2>1. pool = columns /\ depth = columns
      BY <1>2
    <2>2. c \in Nat /\ c >= columns
      BY <1>1, <2>1 DEF Smaller
    <2> HIDE DEF c
    <2>3. Merged(c, columns, excludeNearest) = Smaller(columns, c)
      BY <1>2 DEF Merged
    <2>4. Smaller(columns, c) >= Smaller(columns, n - 1)
      BY <1>1, <2>2 DEF Smaller
    <2> QED BY <2>3, <2>4 DEF c
  <1>3. CASE excludeNearest
    <2>1. pool \in Nat /\ pool <= n /\ (pool = k + 1 \/ pool = n) /\ pool >= 1
      BY <1>3 DEF Smaller
    <2>2. depth \in Nat /\ depth >= pool
      BY <1>1, <1>3, <2>1 DEF Larger
    <2>3. c \in Nat /\ c >= pool
      BY <2>1, <2>2 DEF Smaller
    <2> HIDE DEF c
    <2>4. CASE c > 1
      <3>1. Merged(c, columns, excludeNearest) = Smaller(columns, c - 1)
        BY <1>3, <2>4 DEF Merged
      <3>2. Smaller(columns, c - 1) >= Smaller(columns, n - 1)
        BY <1>1, <2>1, <2>3 DEF Smaller
      <3> QED BY <3>1, <3>2 DEF c
    <2>5. CASE ~(c > 1)
      <3>1. Merged(c, columns, excludeNearest) = Smaller(columns, c)
        BY <1>3, <2>5 DEF Merged
      <3>2. n = 1 /\ c = 1
        BY <2>1, <2>3, <2>5
      <3>3. Smaller(columns, c) >= Smaller(columns, n - 1)
        BY <1>1, <3>2 DEF Smaller
      <3> QED BY <3>1, <3>3 DEF c
    <2> QED BY <2>4, <2>5
  <1> QED BY <1>2, <1>3

LEMMA SearchKeepsInv ==
  ASSUME IInv, Search
  PROVE  IInv'
  <1>1. /\ rows > NLimit
        /\ UNCHANGED <<rows, forest, indexed, noted, pending, stored, counted, marked>>
    BY DEF Search
  <1>2. PICK k \in 1 .. MaxNeighbors, excludeNearest \in BOOLEAN,
             chosen \in kSubset(SearchBudget, DOMAIN forest) :
          LET columns == Smaller(k, rows)
              pool == IF excludeNearest THEN Smaller(k + 1, rows) ELSE columns
              depth == IF excludeNearest THEN Larger(pool, 2 * columns) ELSE columns
          IN \E ranked \in Ranked(chosen) :
               answer' = [columns  |-> columns,
                          filled   |-> Merged(Smaller(depth, ranked) + Pending(pool),
                                              columns, excludeNearest),
                          complete |-> SearchBudget = Len(forest)]
    BY DEF Search
  <1> DEFINE columns == Smaller(k, rows)
             pool == IF excludeNearest THEN Smaller(k + 1, rows) ELSE columns
             depth == IF excludeNearest THEN Larger(pool, 2 * columns) ELSE columns
  <1>3. PICK ranked \in Ranked(chosen) :
          answer' = [columns  |-> columns,
                     filled   |-> Merged(Smaller(depth, ranked) + Pending(pool),
                                         columns, excludeNearest),
                     complete |-> SearchBudget = Len(forest)]
    BY <1>2
  <1> DEFINE filled == Merged(Smaller(depth, ranked) + Pending(pool), columns, excludeNearest)
  <1>4. /\ rows \in Nat /\ rows >= 1 /\ indexed \in Nat /\ indexed <= rows
        /\ k \in Nat /\ k >= 1
    BY <1>1, StateNumbers, Numbers
  <1>5. chosen \subseteq DOMAIN forest /\ Cardinality(chosen) = SearchBudget
    BY DEF kSubset
  <1>6. ranked \in Nat
    BY <1>5, RankedNumbers
  <1>7. columns \in Nat /\ pool \in Nat /\ depth \in Nat
    BY <1>4 DEF Smaller, Larger
  <1>8. ASSUME SearchBudget = Len(forest), \A f \in ToSet(forest) : SizeOf(f) <= ExhaustiveLimit
        PROVE  filled >= Smaller(columns, rows - 1)
    <2>1. Len(forest) \in Nat /\ DOMAIN forest = 1 .. Len(forest)
      BY StateNumbers, ForestNumbers
    <2> DEFINE L == Len(forest)
    <2>2. IsFiniteSet(1 .. L) /\ Cardinality(1 .. L) = L
      <3>1. L \in Nat
        BY <2>1
      <3> HIDE DEF L
      <3>2. IsFiniteSet(1 .. L) /\ Cardinality(1 .. L) = IF 1 > L THEN 0 ELSE L - 1 + 1
        BY <3>1, FS_Interval
      <3> QED BY <3>1, <3>2
    <2>3. chosen = DOMAIN forest
      BY <1>5, <1>8, <2>1, <2>2, FS_Subset
    <2>4. ranked = indexed
      BY <1>5, <1>8, <2>3, RankedNumbers
    <2>5. filled = Merged(Smaller(depth, indexed) + Smaller(pool, rows - indexed),
                          columns, excludeNearest)
      BY <2>4 DEF Pending
    <2> HIDE DEF filled, columns, pool, depth
    <2>6. /\ columns = Smaller(k, rows)
          /\ pool = (IF excludeNearest THEN Smaller(k + 1, rows) ELSE columns)
          /\ depth = (IF excludeNearest THEN Larger(pool, 2 * columns) ELSE columns)
      BY DEF columns, pool, depth
    <2> QED BY <1>4, <2>5, <2>6, LegsFill
  <1> HIDE DEF columns, pool, depth
  <1>9. filled \in Nat
    <2> DEFINE c == Smaller(depth, ranked) + Pending(pool)
    <2>1. Smaller(depth, ranked) \in Nat /\ Pending(pool) \in Nat
      BY <1>4, <1>6, <1>7 DEF Smaller, Pending
    <2>2. c \in Nat
      BY <2>1
    <2> HIDE DEF c
    <2>3. Merged(c, columns, excludeNearest) \in Nat
      BY <1>7, <2>2 DEF Merged, Smaller
    <2> QED BY <2>3 DEF c
  <1> HIDE DEF filled
  <1>10. answer' = [columns |-> columns, filled |-> filled,
                    complete |-> SearchBudget = Len(forest)]
    BY <1>3 DEF filled
  <1>11. /\ answer'.columns = columns /\ answer'.filled = filled
         /\ answer'.complete = (SearchBudget = Len(forest))
    BY <1>10
  <1>12. answer' \in [columns: Nat, filled: Nat, complete: BOOLEAN]
    BY <1>7, <1>9, <1>10
  <1>13. /\ TypeOK /\ Tiled(forest, indexed) /\ Len(forest) <= CompactLimit(indexed)
         /\ NotedInv /\ StoredInv
    BY InvParts
  <1>14. TypeOK'
    BY <1>1, <1>12, <1>13 DEF TypeOK
  <1>15. FullSearchesFill'
    BY <1>1, <1>8, <1>11 DEF FullSearchesFill, ToSet, SizeOf
  <1>16. NotedInv' /\ StoredInv'
    BY <1>1, <1>13 DEF NotedInv, StoredInv, RowsOf
  <1>17. Tiled(forest', indexed') /\ (Len(forest) <= CompactLimit(indexed))'
    BY <1>1, <1>13 DEF CompactLimit, IndexThreshold, Larger, Smaller
  <1> QED BY <1>14, <1>15, <1>16, <1>17, InvPartsNext

-----------------------------------------------------------------------------
(* The theorems.                                                           *)

LEMMA InitHolds ==
  Init => IInv
  <1>1. SUFFICES ASSUME Init PROVE IInv
    BY <1>1
  <1>2. /\ rows \in 0 .. MaxBatch /\ forest = <<>> /\ indexed = 0 /\ noted = {}
        /\ pending = rows /\ stored = NoFragment /\ counted = 0 /\ marked = FALSE
        /\ answer = NoAnswer
    BY <1>1 DEF Init
  <1>3. rows \in Nat /\ rows \in 0 .. MaxRows /\ 0 \in 0 .. MaxRows
    BY <1>2, Numbers
  <1>4. NoFragment \in Fragment
    BY <1>3 DEF NoFragment, Fragment
  <1>5. NoAnswer \in [columns: Nat, filled: Nat, complete: BOOLEAN]
    BY DEF NoAnswer
  <1>6. Tiled(forest, indexed) /\ Len(forest) <= CompactLimit(indexed) /\ forest \in Seq(Fragment)
    BY <1>2, EmptyForest
  <1>7. TypeOK
    BY <1>2, <1>3, <1>4, <1>5, <1>6 DEF TypeOK
  <1>8. FullSearchesFill
    <2>1. \A x \in Int : 0 >= Smaller(0, x)
      BY DEF Smaller
    <2>2. answer.filled = 0 /\ answer.columns = 0 /\ rows - 1 \in Int
      BY <1>2, <1>3 DEF NoAnswer
    <2> QED BY <2>1, <2>2 DEF FullSearchesFill
  <1>9. NotedInv /\ StoredInv
    BY <1>2, <1>3 DEF NotedInv, StoredInv
  <1> QED BY <1>6, <1>7, <1>8, <1>9, InvParts

LEMMA StepInv ==
  IInv /\ [Next]_vars => IInv'
  <1> SUFFICES ASSUME IInv, [Next]_vars
               PROVE  IInv'
    OBVIOUS
  <1>1. CASE AppendRows
    BY <1>1, AppendRowsKeepsInv
  <1>2. CASE AppendFailed
    BY <1>2, AppendFailedKeepsInv
  <1>3. CASE EnsureSync
    BY <1>3, EnsureSyncKeepsInv
  <1>4. CASE SyncFailed
    BY <1>4, SyncFailedKeepsInv
  <1>5. CASE Reset
    BY <1>5, ResetKeepsInv
  <1>6. CASE PersistIndex
    BY <1>6, PersistIndexKeepsInv
  <1>7. CASE Reopen
    BY <1>7, ReopenKeepsInv
  <1>8. CASE Search
    BY <1>8, SearchKeepsInv
  <1>9. CASE UNCHANGED vars
    <2>1. /\ UNCHANGED <<rows, forest, indexed, noted, pending, stored, counted, marked>>
          /\ answer' = answer
      BY <1>9 DEF vars
    <2>2. /\ TypeOK /\ Tiled(forest, indexed) /\ Len(forest) <= CompactLimit(indexed)
          /\ FullSearchesFill /\ NotedInv /\ StoredInv
      BY InvParts
    <2>3. TypeOK' /\ FullSearchesFill'
      BY <2>1, <2>2 DEF TypeOK, FullSearchesFill, ToSet, SizeOf
    <2>4. NotedInv' /\ StoredInv'
      BY <2>1, <2>2 DEF NotedInv, StoredInv, RowsOf
    <2>5. Tiled(forest', indexed') /\ (Len(forest) <= CompactLimit(indexed))'
      BY <2>1, <2>2 DEF CompactLimit, IndexThreshold, Larger, Smaller
    <2> QED BY <2>3, <2>4, <2>5, InvPartsNext
  <1> QED BY <1>1, <1>2, <1>3, <1>4, <1>5, <1>6, <1>7, <1>8, <1>9 DEF Next

LEMMA StepJoins ==
  ASSUME IInv, [Next]_vars, ~Reset, ~Reopen
  PROVE  Joined(forest, forest')
  <1>1. CASE AppendRows \/ EnsureSync \/ PersistIndex
    BY <1>1, AppendRowsKeepsInv, EnsureSyncKeepsInv, PersistIndexKeepsInv
  <1>2. CASE AppendFailed \/ SyncFailed \/ Search \/ UNCHANGED vars
    <2>1. forest' = forest
      BY <1>2 DEF AppendFailed, SyncFailed, Search, vars
    <2> QED BY <2>1, JoinedItself
  <1> QED BY <1>1, <1>2 DEF Next

(* The inductive invariant: the forest, its centroids and its answers,     *)
(* with what they rest on in the accumulator and the page files.           *)
THEOREM Invariance ==
  Spec => []IInv
  BY InitHolds, StepInv, PTL DEF Spec

(* After any compaction, persist and reopen the fragments hold the indexed *)
(* rows, each once and in order (sync.rs, index_through, amalgamate_run).  *)
THEOREM FragmentsAlwaysTile ==
  Spec => []FragmentsTile
  <1>1. IInv => FragmentsTile
    BY DEF IInv
  <1> QED BY <1>1, Invariance, PTL

(* The forest is well formed and within its compaction limit, so the loop  *)
(* of compact ends (sync.rs, maybe_compact).                               *)
THEOREM ForestIsOK ==
  Spec => []ForestOK
  <1>1. IInv => ForestOK
    BY DEF IInv
  <1> QED BY <1>1, Invariance, PTL

(* No fragment is placed by rows it does not hold (sync.rs, take_centroid  *)
(* and note_rows; build.rs, concat_merge).                                 *)
THEOREM CentroidsAreOwn ==
  Spec => []CentroidNotPoisoned
  <1>1. IInv => CentroidNotPoisoned
    BY DEF IInv
  <1> QED BY <1>1, Invariance, PTL

(* A search of all fragments answers every column, for every number of     *)
(* neighbours and with or without the nearest (lgnsrch.rs).                *)
THEOREM FullSearchesAlwaysFill ==
  Spec => []FullSearchesFill
  <1>1. IInv => FullSearchesFill
    BY DEF IInv
  <1> QED BY <1>1, Invariance, PTL

(* Indexing and compaction split no fragment and lose no part of one       *)
(* (sync.rs, amalgamate_run).                                              *)
THEOREM CompactionOnlyJoins ==
  Spec => CompactionJoins
  <1>1. IInv /\ [Next]_vars =>
          [~Reset /\ ~Reopen =>
             \A f \in ToSet(forest) : \E g \in ToSet(forest') :
               RowsOf(f) \subseteq RowsOf(g)]_vars
    BY StepJoins DEF Joined
  <1> QED BY <1>1, Invariance, PTL DEF Spec, CompactionJoins
=============================================================================
