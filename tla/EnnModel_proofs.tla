---------------------------- MODULE EnnModel_proofs ----------------------------
(***************************************************************************)
(* The copies of the metric, the moments and the bounds of EnnModel, for   *)
(* any metrics, drift limit, batches and thresholds.                       *)
(***************************************************************************)
EXTENDS EnnModel, FiniteSetTheorems, WellFoundedInduction, TLAPS

(* The numbers behind the constants.                                       *)
LEMMA Constants ==
  /\ Weights \subseteq Nat /\ Unit \in Weights /\ None \notin Weights
  /\ DriftLimit \in Nat /\ FirstRefit \in Nat /\ FirstRefit >= 1
  /\ Chunk \in Nat /\ MaxBatch \in Nat /\ MaxRows \in Nat /\ MaxOpens \in Nat
  /\ Unbounded # None /\ Box # None /\ Unbounded # Box
  BY EnnModelAssumption

-----------------------------------------------------------------------------
(* Induction over the numbers, from the library's facts about finite sets:  *)
(* a set of numbers that is not empty has a least one.                     *)

LEMMA LeastNumber ==
  ASSUME NEW T, T \subseteq Nat, T # {}
  PROVE  \E x \in T : \A y \in T : x <= y
  <1> DEFINE U == {0 .. m : m \in T}
  <1>1. IsWellFoundedOn(StrictSubsetOrdering(Nat), FiniteSubsetsOf(Nat))
    BY FS_StrictSubsetOrderingWellFounded
  <1>2. \A m \in T : IsFiniteSet(0 .. m) /\ 0 .. m \subseteq Nat
    BY FS_Interval
  <1>3. U \subseteq FiniteSubsetsOf(Nat)
    BY <1>2 DEF FiniteSubsetsOf
  <1>4. U # {}
    OBVIOUS
  <1>5. PICK X \in U : \A Y \in U : ~ (<<Y, X>> \in StrictSubsetOrdering(Nat))
    BY <1>1, <1>3, <1>4, WFMin
  <1>6. PICK x \in T : X = 0 .. x
    OBVIOUS
  <1>7. ASSUME NEW y \in T, y < x
        PROVE  FALSE
    <2>1. 0 .. y \in U
      OBVIOUS
    <2>2. 0 .. y \subseteq 0 .. x
      BY <1>7
    <2>3. x \in 0 .. x /\ x \notin 0 .. y
      BY <1>7
    <2>4. 0 .. y \subseteq Nat /\ 0 .. x \subseteq Nat
      BY <1>7
    <2>5. <<0 .. y, X>> \in StrictSubsetOrdering(Nat)
      BY <1>6, <2>2, <2>3, <2>4 DEF StrictSubsetOrdering
    <2> QED BY <1>5, <2>1, <2>5
  <1> QED BY <1>7

LEMMA SetInduction ==
  ASSUME NEW S, 0 \in S, \A n \in Nat : n \in S => n + 1 \in S
  PROVE  Nat \subseteq S
  <1> DEFINE T == Nat \ S
  <1>1. SUFFICES ASSUME T # {} PROVE FALSE
    BY <1>1
  <1>2. PICK x \in T : \A y \in T : x <= y
    BY <1>1, LeastNumber
  <1>3. x \in Nat /\ x # 0
    OBVIOUS
  <1>4. x - 1 \in T
    BY <1>3
  <1> QED BY <1>2, <1>3, <1>4

-----------------------------------------------------------------------------
(* The controller.                                                         *)

Controller == [weights : Weights, built : Weights, seen : 0..MaxRows, next : Nat]

LEMMA IngestedType ==
  ASSUME NEW c \in Controller, NEW n \in Nat, c.seen + n <= MaxRows
  PROVE  /\ Ingested(c, n) \in Controller /\ Ingested(c, n).seen = c.seen + n
         /\ Ingested(c, n).weights = c.weights
  <1>1. c.seen + n \in 0..MaxRows
    BY Constants DEF Controller
  <1> QED BY <1>1 DEF Ingested, Controller

LEMMA ProposedType ==
  ASSUME NEW c \in Controller
  PROVE  /\ Proposed(c) \in Controller /\ Proposed(c).seen = c.seen
         /\ Proposed(c).weights = c.weights
  <1> DEFINE grown == (3 * c.seen + 1) \div 2
             next  == IF grown > FirstRefit THEN grown ELSE FirstRefit
  <1>1. c.seen \in Nat
    BY Constants DEF Controller
  <1>2. grown \in Nat
    BY <1>1
  <1>3. next \in Nat
    BY <1>2, Constants
  <1>4. Proposed(c) = [c EXCEPT !.next = next]
    BY DEF Proposed
  <1> HIDE DEF next
  <1> QED BY <1>3, <1>4 DEF Controller

LEMMA SetWeightsType ==
  ASSUME NEW c \in Controller, NEW w \in Weights
  PROVE  /\ SetWeights(c, w) \in Controller /\ SetWeights(c, w).seen = c.seen
         /\ SetWeights(c, w).weights = w
  BY DEF SetWeights, Controller

(* Observing n rows, refitted or not, counts them.                         *)
LEMMA ObservedMetricsType ==
  ASSUME NEW c \in Controller, NEW n \in Nat, c.seen + n <= MaxRows,
         NEW d \in ObservedMetrics(c, n)
  PROVE  d \in Controller /\ d.seen = c.seen + n
  <1> DEFINE s == Ingested(c, n)
  <1>1. s \in Controller /\ s.seen = c.seen + n
    BY IngestedType
  <1>2. CASE ~Ready(s)
    BY <1>1, <1>2 DEF ObservedMetrics
  <1>3. CASE Ready(s)
    <2>1. PICK w \in Weights :
            d = IF w = s.weights THEN Proposed(s) ELSE SetWeights(Proposed(s), w)
      BY <1>3 DEF ObservedMetrics
    <2> HIDE DEF s
    <2>2. Proposed(s) \in Controller /\ Proposed(s).seen = s.seen
      BY <1>1, ProposedType
    <2>3. /\ SetWeights(Proposed(s), w) \in Controller
          /\ SetWeights(Proposed(s), w).seen = Proposed(s).seen
      BY <2>2, SetWeightsType
    <2> QED BY <1>1, <2>1, <2>2, <2>3
  <1> QED BY <1>2, <1>3

(* A turn of learn_metric's loop observes a row at least, until none is left. *)
LEMMA ChunkObservedType ==
  ASSUME NEW n \in Nat, n <= MaxRows, NEW c \in Controller, c.seen <= n,
         NEW d \in ChunkObserved(c, n)
  PROVE  d \in Controller /\ d.seen <= n /\ (d.seen = n \/ d.seen >= c.seen + 1)
  <1>1. c.seen \in Nat
    BY Constants DEF Controller
  <1>2. CASE c.seen = n
    BY <1>2, <1>1 DEF ChunkObserved
  <1>3. CASE c.seen # n
    <2> DEFINE k == Chunked(c, n)
    <2>1. k \in Nat /\ k >= 1 /\ c.seen + k <= n
      BY <1>1, <1>3, Constants, EnnModelAssumption DEF Chunked
    <2>2. d \in ObservedMetrics(c, k)
      BY <1>3 DEF ChunkObserved
    <2> HIDE DEF k
    <2>3. c.seen + k <= MaxRows
      BY <1>1, <2>1, Constants
    <2>4. d \in Controller /\ d.seen = c.seen + k
      BY <2>1, <2>2, <2>3, ObservedMetricsType
    <2> QED BY <1>1, <2>1, <2>4
  <1> QED BY <1>2, <1>3

(* The controllers after each turn of the loop over n rows, up to the m-th. *)
IsLearned(g, n, m) ==
  g = [i \in 0 .. m |->
         IF i = 0 THEN {NewMetric} ELSE UNION {ChunkObserved(c, n) : c \in g[i - 1]}]

LEMMA LearnedExists ==
  ASSUME NEW n \in Nat
  PROVE  \E g : IsLearned(g, n, n)
  <1> DEFINE S == {m \in Nat : \E g : IsLearned(g, n, m)}
             Turn(C) == UNION {ChunkObserved(c, n) : c \in C}
  <1>1. 0 \in S
    <2> DEFINE g == [i \in 0 .. 0 |-> {NewMetric}]
    <2>1. \A i \in 0 .. 0 : i = 0
      OBVIOUS
    <2>2. IsLearned(g, n, 0)
      BY <2>1 DEF IsLearned
    <2> QED BY <2>2
  <1>2. ASSUME NEW m \in Nat, m \in S
        PROVE  m + 1 \in S
    <2>1. PICK g : IsLearned(g, n, m)
      BY <1>2
    <2> DEFINE h == [i \in 0 .. m + 1 |-> IF i = m + 1 THEN Turn(g[m]) ELSE g[i]]
    <2>2. \A i \in 0 .. m : h[i] = g[i]
      OBVIOUS
    <2>3. ASSUME NEW i \in 0 .. m + 1
          PROVE  h[i] = IF i = 0 THEN {NewMetric} ELSE Turn(h[i - 1])
      <3>1. CASE i = m + 1
        <4>1. i # 0 /\ i - 1 = m /\ h[i - 1] = g[m]
          BY <3>1, <2>2
        <4>2. h[i] = Turn(g[m])
          BY <3>1
        <4> HIDE DEF h, Turn
        <4> QED BY <4>1, <4>2
      <3>2. CASE i = 0
        <4>1. 0 \in 0 .. m
          OBVIOUS
        <4>2. h[0] = g[0]
          BY <2>2, <4>1
        <4> HIDE DEF h
        <4>3. g[0] = {NewMetric}
          BY <2>1, <4>1 DEF IsLearned
        <4> QED BY <3>2, <4>2, <4>3
      <3>3. CASE i # 0 /\ i # m + 1
        <4>1. i \in 0 .. m /\ i - 1 \in 0 .. m
          BY <3>3
        <4>2. h[i] = g[i] /\ h[i - 1] = g[i - 1]
          BY <4>1, <2>2
        <4>3. g[i] = Turn(g[i - 1])
          BY <2>1, <3>3, <4>1 DEF IsLearned
        <4> HIDE DEF h, Turn
        <4> QED BY <3>3, <4>2, <4>3
      <3> QED BY <3>1, <3>2, <3>3
    <2>4. h = [i \in 0 .. m + 1 |-> h[i]]
      OBVIOUS
    <2> HIDE DEF h
    <2>5. IsLearned(h, n, m + 1)
      BY <2>3, <2>4 DEF IsLearned
    <2> QED BY <2>5
  <1> HIDE DEF S
  <1>3. Nat \subseteq S
    BY <1>1, <1>2, SetInduction
  <1> QED BY <1>3 DEF S

(* learn_metric ends with a controller that has observed every row.        *)
LEMMA LearnedMetricsType ==
  ASSUME NEW n \in Nat, n <= MaxRows, NEW d \in LearnedMetrics(n)
  PROVE  d \in Controller /\ d.seen = n
  <1> DEFINE g == CHOOSE h : IsLearned(h, n, n)
             P(m) == \A c \in g[m] :
                       c \in Controller /\ c.seen <= n /\ (c.seen = n \/ c.seen >= m)
             S == {m \in Nat : m <= n => P(m)}
  <1>1. LearnedMetrics(n) = g[n]
    BY DEF LearnedMetrics, IsLearned
  <1>2. IsLearned(g, n, n)
    BY LearnedExists
  <1> HIDE DEF g
  <1>3. 0 \in S
    <2>1. g[0] = {NewMetric}
      BY <1>2 DEF IsLearned
    <2>2. NewMetric \in Controller /\ NewMetric.seen = 0
      BY Constants DEF NewMetric, Controller
    <2> QED BY <2>1, <2>2
  <1>4. ASSUME NEW m \in Nat, m \in S
        PROVE  m + 1 \in S
    <2>1. SUFFICES ASSUME m + 1 <= n, NEW d1 \in g[m + 1]
                   PROVE  /\ d1 \in Controller /\ d1.seen <= n
                          /\ d1.seen = n \/ d1.seen >= m + 1
      OBVIOUS
    <2>2. m + 1 \in 0 .. n /\ m + 1 # 0 /\ (m + 1) - 1 = m
      BY <2>1
    <2>3. g[m + 1] = UNION {ChunkObserved(c, n) : c \in g[m]}
      BY <1>2, <2>2 DEF IsLearned
    <2>4. PICK c \in g[m] : d1 \in ChunkObserved(c, n)
      BY <2>1, <2>3
    <2>5. c \in Controller /\ c.seen <= n /\ (c.seen = n \/ c.seen >= m)
      BY <1>4, <2>1, <2>4
    <2>6. c.seen \in Nat /\ d1.seen \in Int
      BY <2>4, <2>5, ChunkObservedType, Constants DEF Controller
    <2>7. /\ d1 \in Controller /\ d1.seen <= n
          /\ d1.seen = n \/ d1.seen >= c.seen + 1
      BY <2>4, <2>5, ChunkObservedType
    <2> QED BY <2>5, <2>6, <2>7
  <1>5. n \in S
    <2> HIDE DEF S
    <2> QED BY <1>3, <1>4, SetInduction
  <1>6. P(n)
    BY <1>5
  <1>7. d \in Controller /\ d.seen <= n /\ (d.seen = n \/ d.seen >= n)
    BY <1>1, <1>6
  <1> QED BY <1>7, Constants DEF Controller

-----------------------------------------------------------------------------
(* The backend.                                                            *)

Backend == [scaled : BOOLEAN, scale : Weights, forest : SUBSET Weights,
            indexed : 0..MaxRows, dirty : BOOLEAN]

(* A backend every fragment of which is laid out in its metric.            *)
Uniform(b) == b \in Backend /\ b.forest \subseteq {Effective(b)}

LEMMA EffectiveType ==
  ASSUME NEW b \in Backend
  PROVE  Effective(b) \in Weights
  BY Constants DEF Effective, Backend

LEMMA IndexedUniform ==
  ASSUME NEW b, Uniform(b), NEW n \in 0..MaxRows
  PROVE  /\ Uniform(Indexed(b, n)) /\ Effective(Indexed(b, n)) = Effective(b)
         /\ Indexed(b, n).scaled = b.scaled /\ Indexed(b, n).scale = b.scale
  <1>1. Effective(b) \in Weights
    BY EffectiveType DEF Uniform
  <1> QED BY <1>1 DEF Indexed, Effective, Uniform, Backend

LEMMA StoredUniform ==
  ASSUME NEW b, Uniform(b)
  PROVE  /\ Uniform(Stored(b)) /\ Effective(Stored(b)) = Effective(b)
         /\ Stored(b).scaled = b.scaled /\ Stored(b).scale = b.scale
  BY DEF Stored, Effective, Uniform, Backend

(* Whatever fragments there were, after a change they are of the metric.   *)
LEMMA RescaledUniform ==
  ASSUME NEW b, Uniform(b), NEW w \in Weights, NEW rebuild \in BOOLEAN
  PROVE  /\ Uniform(Rescaled(b, w, rebuild)) /\ Effective(Rescaled(b, w, rebuild)) = w
         /\ Rescaled(b, w, rebuild).scaled /\ Rescaled(b, w, rebuild).scale = w
  <1>1. CASE b.scaled /\ b.scale = w
    BY <1>1 DEF Rescaled, Effective, Uniform
  <1>2. CASE ~(b.scaled /\ b.scale = w)
    <2> DEFINE c == [scaled |-> TRUE, scale |-> w, dirty |-> TRUE,
                     indexed |-> IF rebuild THEN 0 ELSE b.indexed,
                     forest |-> IF rebuild \/ b.forest = {} THEN {} ELSE {w}]
    <2>1. Rescaled(b, w, rebuild) = c
      BY <1>2, Zenon DEF Rescaled
    <2>2. c.indexed \in 0..MaxRows
      BY Constants DEF Uniform, Backend
    <2>3. c \in Backend /\ c.forest \subseteq {w}
      BY <2>2 DEF Backend
    <2>4. c.scaled /\ c.scale = w
      OBVIOUS
    <2> HIDE DEF c
    <2> QED BY <2>1, <2>3, <2>4 DEF Uniform, Effective
  <1> QED BY <1>1, <1>2

LEMMA NoBackendUniform ==
  /\ Uniform(NoBackend) /\ Effective(NoBackend) = Unit /\ ~NoBackend.scaled
  BY Constants DEF NoBackend, Uniform, Effective, Backend

(* An opened backend takes pages only of the unscaled metric.              *)
LEMMA OpenedUniform ==
  ASSUME FilesOK, PagesAreOfTheirMetric, rows \in 0..MaxRows
  PROVE  /\ Uniform(OpenedBackend) /\ Effective(OpenedBackend) = Unit
         /\ ~OpenedBackend.scaled
  <1> DEFINE trusted == MetricMatches /\ disk.pages # None
             used == IF trusted THEN disk.pages ELSE [scales |-> {}, rows |-> 0]
  <1>1. OpenedBackend = [NoBackend EXCEPT !.forest = used.scales, !.indexed = used.rows,
                                          !.dirty = used.rows < rows]
    BY DEF OpenedBackend
  <1>2. used.scales \subseteq {Unit} /\ used.rows \in 0..MaxRows
    <2>1. CASE trusted
      <3>1. used = disk.pages
        BY <2>1
      <3>2. disk.pages \in [scales : SUBSET Weights, rows : 0..MaxRows]
        BY <2>1 DEF FilesOK
      <3>3. disk.pages.scales \subseteq {Unit}
        BY <2>1 DEF PagesAreOfTheirMetric, MetricMatches
      <3> QED BY <3>1, <3>2, <3>3
    <2>2. CASE ~trusted
      BY <2>2, Constants
    <2> QED BY <2>1, <2>2
  <1> HIDE DEF used
  <1> DEFINE late == used.rows < rows
  <1>3. late \in BOOLEAN
    OBVIOUS
  <1> HIDE DEF late
  <1>4. OpenedBackend = [scaled |-> FALSE, scale |-> Unit, forest |-> used.scales,
                         indexed |-> used.rows, dirty |-> late]
    BY <1>1 DEF NoBackend, late
  <1>5. OpenedBackend \in Backend
    BY <1>2, <1>3, <1>4, Constants DEF Backend
  <1> QED BY <1>2, <1>4, <1>5 DEF Uniform, Effective

-----------------------------------------------------------------------------
(* A change of the metric.                                                 *)

(* What one leaves: all copies of the metric agree, the controller counts  *)
(* n more rows, and of the files only metric.pending may have appeared.    *)
MetricChanged(n) ==
  /\ Uniform(be') /\ xscale' = Effective(be')
  /\ metric = None => metric' = None
  /\ metric' # None => /\ metric' \in Controller /\ be'.scaled
                       /\ metric'.weights = be'.scale
                       /\ metric'.seen = metric.seen + n
  /\ \E x \in BOOLEAN : disk' = [disk EXCEPT !.marker = x] /\ (disk.marker => x)

LEMMA MetricWeightsEffect ==
  ASSUME NEW n \in Nat, NEW c \in Controller, NEW b, NEW w \in Weights,
         Uniform(b), b.scaled, c.weights = b.scale, xscale = Effective(b),
         metric # None, c.seen = metric.seen + n, FilesOK,
         MetricWeights(c, b, w)
  PROVE  MetricChanged(n)
  <1>1. CASE /\ be' = Rescaled(b, w, Rebuilds(c, w))
             /\ disk' = [disk EXCEPT !.marker = Pended(b, w)]
             /\ xscale' = w
             /\ metric' = SetWeights(c, w)
    <2>1. Rebuilds(c, w) \in BOOLEAN /\ Pended(b, w) \in BOOLEAN
          /\ (disk.marker => Pended(b, w))
      BY DEF Rebuilds, Pended
    <2>2. /\ Uniform(be') /\ Effective(be') = w /\ be'.scaled /\ be'.scale = w
      BY <1>1, <2>1, RescaledUniform
    <2>3. metric' \in Controller /\ metric'.seen = c.seen /\ metric'.weights = w
      BY <1>1, SetWeightsType
    <2> QED BY <1>1, <2>1, <2>2, <2>3 DEF MetricChanged
  <1>2. CASE be' = b /\ metric' = c /\ UNCHANGED <<xscale, disk>>
    <2>1. disk' = [disk EXCEPT !.marker = disk.marker] /\ disk.marker \in BOOLEAN
      BY <1>2 DEF FilesOK
    <2> QED BY <1>2, <2>1 DEF MetricChanged
  <1> QED BY <1>1, <1>2 DEF MetricWeights

LEMMA ObserveMetricEffect ==
  ASSUME NEW n \in Nat, NEW b, Uniform(b), xscale = Effective(b), FilesOK,
         metric # None => /\ metric \in Controller /\ metric.seen + n <= MaxRows
                          /\ b.scaled /\ metric.weights = b.scale,
         ObserveMetric(b, n)
  PROVE  MetricChanged(n)
  <1> DEFINE c == Ingested(metric, n)
  <1>1. disk.marker \in BOOLEAN /\ disk = [disk EXCEPT !.marker = disk.marker]
    BY DEF FilesOK
  <1>2. CASE metric = None
    BY <1>1, <1>2 DEF ObserveMetric, Unobserved, MetricChanged
  <1>3. CASE metric # None
    <2>1. /\ c \in Controller /\ c.seen = metric.seen + n /\ c.weights = b.scale
          /\ b.scaled
      BY <1>3, IngestedType
    <2>2. /\ Proposed(c) \in Controller /\ Proposed(c).seen = metric.seen + n
          /\ Proposed(c).weights = b.scale
      BY <2>1, ProposedType
    <2>3. \/ be' = b /\ metric' = c /\ UNCHANGED <<xscale, disk>>
          \/ be' = b /\ metric' = Proposed(c) /\ UNCHANGED <<xscale, disk>>
          \/ \E w \in Weights : MetricWeights(Proposed(c), b, w)
      BY <1>3 DEF ObserveMetric
    <2> HIDE DEF c
    <2>4. CASE be' = b /\ metric' = c /\ UNCHANGED <<xscale, disk>>
      BY <1>1, <1>3, <2>1, <2>4 DEF MetricChanged
    <2>5. CASE be' = b /\ metric' = Proposed(c) /\ UNCHANGED <<xscale, disk>>
      BY <1>1, <1>3, <2>1, <2>2, <2>5 DEF MetricChanged
    <2>6. CASE \E w \in Weights : MetricWeights(Proposed(c), b, w)
      BY <1>3, <2>1, <2>2, <2>6, MetricWeightsEffect
    <2> QED BY <2>3, <2>4, <2>5, <2>6
  <1> QED BY <1>2, <1>3

(* The files after metric.pending may have appeared.                       *)
LEMMA MarkedFiles ==
  ASSUME FilesOK, PagesAreOfTheirMetric, NEW x \in BOOLEAN, disk.marker => x,
         disk' = [disk EXCEPT !.marker = x]
  PROVE  /\ FilesOK' /\ PagesAreOfTheirMetric' /\ disk'.marker = x
         /\ disk'.pages = disk.pages /\ disk'.bin = disk.bin /\ disk'.kept = disk.kept
  <1>1. /\ disk'.marker = x /\ disk'.pages = disk.pages
        /\ disk'.bin = disk.bin /\ disk'.kept = disk.kept
    BY DEF FilesOK
  <1>2. FilesOK'
    BY DEF FilesOK
  <1> QED BY <1>1, <1>2 DEF PagesAreOfTheirMetric

-----------------------------------------------------------------------------
(* The invariant, by what an action has to show of it.                     *)

(* The numbers of the model and of its rows.                               *)
NumbersOK ==
  /\ phase \in Phases /\ closing \in BOOLEAN /\ bounds \in Bounds
  /\ numObs \in 0..MaxRows /\ summed \in 0..MaxRows
  /\ rows \in 0..MaxRows /\ warps \subseteq Bounds /\ lost \in 0..MaxRows
  /\ exposed \in BOOLEAN /\ mixed \in BOOLEAN /\ opens \in 0..MaxOpens

(* The copies of the metric.                                               *)
CopiesOK ==
  /\ Uniform(be) /\ xscale = Effective(be)
  /\ metric # None => metric \in Controller /\ be.scaled /\ metric.weights = be.scale

LEMMA InvParts ==
  IInv <=> /\ NumbersOK /\ CopiesOK /\ FilesOK /\ PagesAreOfTheirMetric
           /\ StepInv /\ MomentsInv /\ BoundsInv
  <1>1. FilesOK => /\ disk.bin \in Weights \cup {None} /\ disk.marker \in BOOLEAN
                   /\ disk.kept \in Bounds \cup {None}
    BY DEF FilesOK
  <1>2. Uniform(be) /\ xscale = Effective(be) => xscale \in Weights
    BY EffectiveType DEF Uniform
  <1> QED BY <1>1, <1>2
     DEF IInv, ModelOK, TypeOK, MetricAgrees, NumbersOK, CopiesOK, Uniform, Backend, Controller

LEMMA InvPartsNext ==
  IInv' <=> /\ NumbersOK' /\ CopiesOK' /\ FilesOK' /\ PagesAreOfTheirMetric'
            /\ StepInv' /\ MomentsInv' /\ BoundsInv'
  BY InvParts, PTL

(* A model with no rows of its own and no metric.                          *)
LEMMA NoModelEffect ==
  ASSUME NoModel
  PROVE  /\ CopiesOK' /\ metric' = None /\ xscale' = Unit
         /\ bounds' \in Bounds /\ numObs' \in 0..MaxRows /\ summed' \in 0..MaxRows
         /\ closing' \in BOOLEAN
  <1>1. be' = NoBackend /\ xscale' = Unit /\ metric' = None /\ closing' = FALSE
    BY DEF NoModel
  <1>2. bounds' \in Bounds
    BY DEF NoModel, Bounds
  <1>3. numObs' \in 0..MaxRows /\ summed' \in 0..MaxRows
    BY Constants DEF NoModel
  <1> QED BY <1>1, <1>2, <1>3, NoBackendUniform DEF CopiesOK

LEMMA InitInv ==
  ASSUME Init
  PROVE  IInv
  <1>1. NumbersOK
    <2>1. 0 \in 0..MaxRows /\ 0 \in 0..MaxOpens
      BY Constants
    <2>2. phase \in Phases /\ bounds \in Bounds /\ warps \subseteq Bounds
      BY DEF Init, Phases, Bounds
    <2> QED BY <2>1, <2>2 DEF Init, NumbersOK
  <1>2. CopiesOK
    BY NoBackendUniform DEF Init, CopiesOK
  <1>3. FilesOK /\ PagesAreOfTheirMetric
    BY DEF Init, FilesOK, PagesAreOfTheirMetric
  <1>4. StepInv /\ MomentsInv /\ BoundsInv
    BY Constants DEF Init, StepInv, MomentsInv, BoundsInv
  <1> QED BY <1>1, <1>2, <1>3, <1>4, InvParts

-----------------------------------------------------------------------------
(* Opening.                                                                *)

LEMMA OpenKeepsInv ==
  ASSUME IInv, NEW asked \in Bounds \cup {None}, Open(asked)
  PROVE  IInv'
  <1>1. /\ NumbersOK /\ CopiesOK /\ FilesOK /\ PagesAreOfTheirMetric
        /\ StepInv /\ MomentsInv /\ BoundsInv
    BY InvParts
  <1>2. Uniform(OpenedBackend) /\ Effective(OpenedBackend) = Unit
    BY <1>1, OpenedUniform DEF NumbersOK
  <1>3. bounds' \in Bounds
    BY <1>1 DEF Open, FilesOK, Bounds
  <1>4. NumbersOK'
    BY <1>1, <1>3, Constants DEF Open, NumbersOK, Phases
  <1>5. CopiesOK'
    BY <1>1, <1>2 DEF Open, CopiesOK, StepInv
  <1>6. FilesOK' /\ disk'.marker = disk.marker /\ disk'.pages = disk.pages
        /\ disk'.bin = disk.bin
    BY <1>1 DEF Open, FilesOK
  <1>7. PagesAreOfTheirMetric'
    BY <1>1, <1>6 DEF PagesAreOfTheirMetric
  <1>8. StepInv' /\ MomentsInv'
    BY <1>1, <1>6 DEF Open, StepInv, MomentsInv
  <1>9. BoundsInv'
    <2>1. ASSUME ~mixed'
          PROVE  warps \subseteq {bounds'}
      <3>1. ~mixed /\ (exposed => rows = 0)
        BY <1>1, <2>1, Constants DEF Open, NumbersOK
      <3>2. CASE rows = 0
        BY <1>1, <3>2 DEF BoundsInv
      <3>3. CASE rows # 0
        <4>1. disk.kept # None /\ warps \subseteq {disk.kept}
          BY <1>1, <3>1, <3>3, Constants DEF BoundsInv, NumbersOK
        <4>2. bounds' = disk.kept
          BY <4>1 DEF Open
        <4> QED BY <4>1, <4>2
      <3> QED BY <3>2, <3>3
    <2> QED BY <1>1, <2>1 DEF Open, BoundsInv
  <1> QED BY <1>1, <1>4, <1>5, <1>6, <1>7, <1>8, <1>9, InvPartsNext

LEMMA FinishOpenKeepsInv ==
  ASSUME IInv, FinishOpen
  PROVE  IInv'
  <1>1. /\ NumbersOK /\ CopiesOK /\ FilesOK /\ PagesAreOfTheirMetric
        /\ StepInv /\ MomentsInv /\ BoundsInv
    BY InvParts
  <1>2. NumbersOK'
    BY <1>1 DEF FinishOpen, Synced, NumbersOK, Phases, store
  <1>3. CopiesOK'
    BY <1>1, IndexedUniform DEF FinishOpen, CopiesOK, NumbersOK
  <1>4. FilesOK' /\ disk'.marker = disk.marker /\ disk'.pages = disk.pages
        /\ disk'.bin = disk.bin /\ disk'.kept = bounds
    BY <1>1 DEF FinishOpen, FilesOK, NumbersOK
  <1>5. PagesAreOfTheirMetric'
    BY <1>1, <1>4 DEF PagesAreOfTheirMetric
  <1>6. StepInv' /\ MomentsInv'
    BY <1>1, <1>4, Constants DEF FinishOpen, Synced, StepInv, MomentsInv, NumbersOK, store
  <1>7. BoundsInv'
    BY <1>1, <1>4, Constants DEF FinishOpen, BoundsInv, NumbersOK, Bounds, store
  <1> QED BY <1>2, <1>3, <1>4, <1>5, <1>6, <1>7, InvPartsNext

LEMMA OpenEmptyKeepsInv ==
  ASSUME IInv, OpenEmpty
  PROVE  IInv'
  <1>1. /\ NumbersOK /\ CopiesOK /\ FilesOK /\ PagesAreOfTheirMetric
        /\ StepInv /\ MomentsInv /\ BoundsInv
    BY InvParts
  <1>2. Uniform(OpenedBackend) /\ Effective(OpenedBackend) = Unit
    BY <1>1, OpenedUniform DEF NumbersOK
  <1>3. NumbersOK'
    BY <1>1, Constants DEF OpenEmpty, Synced, NumbersOK, Phases, Bounds
  <1>4. CopiesOK'
    BY <1>1, <1>2, IndexedUniform DEF OpenEmpty, CopiesOK, StepInv, NumbersOK
  <1>5. FilesOK' /\ disk'.marker = disk.marker /\ disk'.pages = disk.pages
        /\ disk'.bin = disk.bin
    BY <1>1 DEF OpenEmpty, FilesOK
  <1>6. PagesAreOfTheirMetric'
    BY <1>1, <1>5 DEF PagesAreOfTheirMetric
  <1>7. StepInv' /\ MomentsInv'
    BY <1>1, <1>5, Constants DEF OpenEmpty, Synced, StepInv, MomentsInv, NumbersOK
  <1>8. BoundsInv'
    <2>1. ~mixed' => rows = 0
      <3>1. rows > 0 => mixed'
        BY DEF OpenEmpty
      <3>2. rows \in Nat
        BY <1>1, Constants DEF NumbersOK
      <3> QED BY <3>1, <3>2
    <2> QED BY <1>1, <2>1 DEF OpenEmpty, BoundsInv
  <1> QED BY <1>3, <1>4, <1>5, <1>6, <1>7, <1>8, InvPartsNext

-----------------------------------------------------------------------------
(* The operations of an open model.                                        *)

LEMMA AddKeepsInv ==
  ASSUME IInv, NEW n \in 1..MaxBatch, Add(n)
  PROVE  IInv'
  <1>1. /\ NumbersOK /\ CopiesOK /\ FilesOK /\ PagesAreOfTheirMetric
        /\ StepInv /\ MomentsInv /\ BoundsInv
    BY InvParts
  <1>2. n \in Nat /\ n >= 1 /\ rows + n <= MaxRows /\ rows + n \in 0..MaxRows
    BY <1>1, Constants DEF Add, NumbersOK
  <1>3. summed + lost = rows /\ summed <= numObs /\ numObs <= rows
    BY <1>1 DEF Add, MomentsInv
  <1>4. PICK hard \in BOOLEAN :
          ObserveMetric(IF hard THEN Indexed(Stored(be), rows + n) ELSE Stored(be), n)
    BY DEF Add
  <1> DEFINE b == IF hard THEN Indexed(Stored(be), rows + n) ELSE Stored(be)
  <1>5. /\ Uniform(b) /\ Effective(b) = Effective(be)
        /\ b.scaled = be.scaled /\ b.scale = be.scale
    <2>1. /\ Uniform(Stored(be)) /\ Effective(Stored(be)) = Effective(be)
          /\ Stored(be).scaled = be.scaled /\ Stored(be).scale = be.scale
      BY <1>1, StoredUniform DEF CopiesOK
    <2> QED BY <1>2, <2>1, IndexedUniform
  <1>6. ObserveMetric(b, n)
    BY <1>4
  <1> HIDE DEF b
  <1>7. metric # None => metric.seen \in Nat /\ metric.seen <= numObs
    BY <1>1, Constants DEF CopiesOK, Controller, MomentsInv
  <1>8. MetricChanged(n)
    <2>1. metric # None => metric.seen + n <= MaxRows
      BY <1>1, <1>2, <1>3, <1>7, Constants DEF NumbersOK
    <2> QED BY <1>1, <1>2, <1>5, <1>6, <2>1, ObserveMetricEffect DEF CopiesOK
  <1>9. PICK x \in BOOLEAN : disk' = [disk EXCEPT !.marker = x] /\ (disk.marker => x)
    BY <1>8 DEF MetricChanged
  <1>10. /\ FilesOK' /\ PagesAreOfTheirMetric' /\ disk'.marker = x
         /\ disk'.pages = disk.pages /\ disk'.bin = disk.bin /\ disk'.kept = disk.kept
    BY <1>1, <1>9, MarkedFiles
  <1>11. NumbersOK'
    <2>1. summed' \in 0..MaxRows /\ numObs' \in 0..MaxRows /\ rows' \in 0..MaxRows
      BY <1>1, <1>2, <1>3, Constants DEF Add, Summed, NumbersOK
    <2> QED BY <1>1, <2>1 DEF Add, NumbersOK, ghosts
  <1>12. CopiesOK'
    BY <1>8 DEF MetricChanged, CopiesOK
  <1>13. StepInv'
    BY <1>1, <1>2, <1>10, Constants DEF Add, StepInv, NumbersOK, ghosts
  <1>14. MomentsInv'
    <2>1. summed' + lost' = rows' /\ summed' <= numObs' /\ numObs' <= rows'
      BY <1>1, <1>2, <1>3, Constants DEF Add, Summed, NumbersOK
    <2>2. metric' # None => metric'.seen <= numObs'
      <3>1. metric' # None => metric # None /\ metric'.seen = metric.seen + n
        BY <1>8 DEF MetricChanged
      <3> QED BY <1>1, <1>2, <1>3, <1>7, <3>1, Constants DEF Add, NumbersOK
    <2> QED BY <2>1, <2>2 DEF Add, MomentsInv
  <1>15. BoundsInv'
    <2>1. rows' # 0
      BY <1>1, <1>2, Constants DEF Add, NumbersOK
    <2> QED BY <1>1, <1>10, <2>1, Constants DEF Add, BoundsInv, NumbersOK, Bounds, ghosts
  <1> QED BY <1>10, <1>11, <1>12, <1>13, <1>14, <1>15, InvPartsNext

LEMMA AddFailedKeepsInv ==
  ASSUME IInv, NEW n \in 1..MaxBatch, AddFailed(n)
  PROVE  IInv'
  <1>1. /\ NumbersOK /\ CopiesOK /\ FilesOK /\ PagesAreOfTheirMetric
        /\ StepInv /\ MomentsInv /\ BoundsInv
    BY InvParts
  <1>2. n \in Nat /\ n >= 1 /\ rows + n <= MaxRows
    BY <1>1, Constants DEF AddFailed, NumbersOK
  <1>3. summed + lost = rows /\ summed <= numObs /\ numObs <= rows
    BY <1>1 DEF AddFailed, MomentsInv
  <1>4. NumbersOK'
    <2>1. rows' \in 0..MaxRows /\ lost' \in 0..MaxRows
      BY <1>1, <1>2, <1>3, Constants DEF AddFailed, NumbersOK
    <2> QED BY <1>1, <2>1 DEF AddFailed, NumbersOK, model, ghosts
  <1>5. CopiesOK'
    BY <1>1, StoredUniform DEF AddFailed, CopiesOK, model
  <1>6. FilesOK' /\ PagesAreOfTheirMetric'
    BY <1>1 DEF AddFailed, FilesOK, PagesAreOfTheirMetric
  <1>7. StepInv'
    BY <1>1, <1>2, Constants DEF AddFailed, StepInv, NumbersOK, model, ghosts
  <1>8. MomentsInv'
    BY <1>1, <1>2, <1>3, Constants DEF AddFailed, MomentsInv, NumbersOK, model
  <1>9. BoundsInv'
    <2>1. rows' # 0
      BY <1>1, <1>2, Constants DEF AddFailed, NumbersOK
    <2> QED BY <1>1, <2>1, Constants DEF AddFailed, BoundsInv, NumbersOK, Bounds, model, ghosts
  <1> QED BY <1>4, <1>5, <1>6, <1>7, <1>8, <1>9, InvPartsNext

LEMMA LearnMetricKeepsInv ==
  ASSUME IInv, LearnMetric
  PROVE  IInv'
  <1>1. /\ NumbersOK /\ CopiesOK /\ FilesOK /\ PagesAreOfTheirMetric
        /\ StepInv /\ MomentsInv /\ BoundsInv
    BY InvParts
  <1>2. PICK c \in LearnedMetrics(numObs) :
          /\ be' = Rescaled(be, c.weights, TRUE)
          /\ disk' = [disk EXCEPT !.marker = Pended(be, c.weights)]
          /\ xscale' = c.weights /\ metric' = c
    BY DEF LearnMetric
  <1>3. numObs \in Nat /\ numObs <= MaxRows
    BY <1>1, Constants DEF NumbersOK
  <1>4. c \in Controller /\ c.seen = numObs /\ c.weights \in Weights
    BY <1>2, <1>3, LearnedMetricsType DEF Controller
  <1>5. CopiesOK'
    <2>1. /\ Uniform(be') /\ Effective(be') = c.weights
          /\ be'.scaled /\ be'.scale = c.weights
      BY <1>1, <1>2, <1>4, RescaledUniform DEF CopiesOK
    <2> QED BY <1>2, <1>4, <2>1 DEF CopiesOK
  <1>6. /\ FilesOK' /\ PagesAreOfTheirMetric'
        /\ disk'.pages = disk.pages /\ disk'.bin = disk.bin /\ disk'.kept = disk.kept
    <2>1. Pended(be, c.weights) \in BOOLEAN /\ (disk.marker => Pended(be, c.weights))
      BY DEF Pended
    <2> QED BY <1>1, <1>2, <2>1, MarkedFiles
  <1>7. NumbersOK'
    BY <1>1 DEF LearnMetric, NumbersOK, store, ghosts
  <1>8. StepInv'
    BY <1>1, <1>6 DEF LearnMetric, StepInv, store, ghosts
  <1>9. MomentsInv'
    BY <1>1, <1>2, <1>3, <1>4 DEF LearnMetric, MomentsInv, store
  <1>10. BoundsInv'
    BY <1>1, <1>6 DEF LearnMetric, BoundsInv, store, ghosts
  <1> QED BY <1>5, <1>6, <1>7, <1>8, <1>9, <1>10, InvPartsNext

LEMMA CallerWeightsKeepsInv ==
  ASSUME IInv, NEW w \in Weights, CallerWeights(w)
  PROVE  IInv'
  <1>1. /\ NumbersOK /\ CopiesOK /\ FilesOK /\ PagesAreOfTheirMetric
        /\ StepInv /\ MomentsInv /\ BoundsInv
    BY InvParts
  <1>2. metric # None /\ MetricWeights(metric, be, w)
    BY DEF CallerWeights
  <1>3. metric \in Controller /\ metric.seen \in Nat /\ metric.seen = metric.seen + 0
    BY <1>1, <1>2, Constants DEF CopiesOK, Controller
  <1>4. MetricChanged(0)
    BY <1>1, <1>2, <1>3, MetricWeightsEffect DEF CopiesOK
  <1>5. PICK x \in BOOLEAN : disk' = [disk EXCEPT !.marker = x] /\ (disk.marker => x)
    BY <1>4 DEF MetricChanged
  <1>6. /\ FilesOK' /\ PagesAreOfTheirMetric'
        /\ disk'.pages = disk.pages /\ disk'.bin = disk.bin /\ disk'.kept = disk.kept
    BY <1>1, <1>5, MarkedFiles
  <1>7. CopiesOK'
    BY <1>4 DEF MetricChanged, CopiesOK
  <1>8. NumbersOK'
    BY <1>1 DEF CallerWeights, NumbersOK, store, ghosts
  <1>9. StepInv'
    BY <1>1, <1>6 DEF CallerWeights, StepInv, store, ghosts
  <1>10. MomentsInv'
    <2>1. metric' # None => metric'.seen = metric.seen
      BY <1>3, <1>4 DEF MetricChanged
    <2> QED BY <1>1, <1>2, <2>1 DEF CallerWeights, MomentsInv, store
  <1>11. BoundsInv'
    BY <1>1, <1>6 DEF CallerWeights, BoundsInv, store, ghosts
  <1> QED BY <1>6, <1>7, <1>8, <1>9, <1>10, <1>11, InvPartsNext

LEMMA EnsureSyncKeepsInv ==
  ASSUME IInv, EnsureSync
  PROVE  IInv'
  <1>1. /\ NumbersOK /\ CopiesOK /\ FilesOK /\ PagesAreOfTheirMetric
        /\ StepInv /\ MomentsInv /\ BoundsInv
    BY InvParts
  <1>2. CopiesOK'
    BY <1>1, IndexedUniform DEF EnsureSync, CopiesOK, NumbersOK, model
  <1>3. NumbersOK' /\ FilesOK' /\ PagesAreOfTheirMetric'
    BY <1>1 DEF EnsureSync, NumbersOK, FilesOK, PagesAreOfTheirMetric, model, store, ghosts
  <1>4. StepInv' /\ MomentsInv' /\ BoundsInv'
    BY <1>1 DEF EnsureSync, StepInv, MomentsInv, BoundsInv, model, store, ghosts
  <1> QED BY <1>2, <1>3, <1>4, InvPartsNext

-----------------------------------------------------------------------------
(* persist_index, write by write, and the kill.                            *)

(* Dropping a model, or losing it to a kill, leaves what the files say.    *)
LEMMA ClosedInv ==
  ASSUME IInv, NoModel, phase' = "closed", FilesOK', PagesAreOfTheirMetric',
         UNCHANGED <<rows, warps, lost, exposed, mixed, opens>>,
         disk'.kept = disk.kept, disk'.pages = disk.pages
  PROVE  IInv'
  <1>1. /\ NumbersOK /\ CopiesOK /\ FilesOK /\ PagesAreOfTheirMetric
        /\ StepInv /\ MomentsInv /\ BoundsInv
    BY InvParts
  <1>2. CopiesOK' /\ metric' = None /\ xscale' = Unit
    BY NoModelEffect
  <1>3. NumbersOK'
    BY <1>1, NoModelEffect DEF NumbersOK, Phases
  <1>4. StepInv' /\ MomentsInv' /\ BoundsInv'
    BY <1>1, <1>2 DEF StepInv, MomentsInv, BoundsInv
  <1> QED BY <1>2, <1>3, <1>4, InvPartsNext

LEMMA CrashKeepsInv ==
  ASSUME IInv, Crash
  PROVE  IInv'
  <1>1. FilesOK /\ PagesAreOfTheirMetric
    BY InvParts
  <1>2. FilesOK' /\ PagesAreOfTheirMetric'
    BY <1>1 DEF Crash, FilesOK, PagesAreOfTheirMetric
  <1> QED BY <1>2, ClosedInv DEF Crash, store, ghosts

LEMMA PersistCleanKeepsInv ==
  ASSUME IInv, NEW drop \in BOOLEAN, PersistClean(drop)
  PROVE  IInv'
  <1>1. /\ NumbersOK /\ CopiesOK /\ FilesOK /\ PagesAreOfTheirMetric
        /\ StepInv /\ MomentsInv /\ BoundsInv
    BY InvParts
  <1>2. CASE drop
    <2>1. FilesOK' /\ PagesAreOfTheirMetric'
      BY <1>1, <1>2 DEF PersistClean, FilesOK, PagesAreOfTheirMetric
    <2> QED BY <1>2, <2>1, ClosedInv DEF PersistClean, store
  <1>3. CASE ~drop
    <2>1. /\ disk'.marker = disk.marker /\ disk'.pages = disk.pages
          /\ disk'.bin = disk.bin /\ disk'.kept = bounds /\ FilesOK'
      BY <1>1, <1>3 DEF PersistClean, FilesOK, NumbersOK
    <2>2. NumbersOK' /\ CopiesOK' /\ PagesAreOfTheirMetric'
      BY <1>1, <1>3, <2>1
         DEF PersistClean, NumbersOK, CopiesOK, PagesAreOfTheirMetric, model, store
    <2>3. StepInv' /\ MomentsInv'
      BY <1>1, <1>3, <2>1 DEF PersistClean, StepInv, MomentsInv, model, store
    <2>4. BoundsInv'
      BY <1>1, <1>3, <2>1, Constants
         DEF PersistClean, BoundsInv, NumbersOK, Bounds, model, store
    <2> QED BY <2>1, <2>2, <2>3, <2>4, InvPartsNext
  <1> QED BY <1>2, <1>3

LEMMA PersistMarkKeepsInv ==
  ASSUME IInv, NEW drop \in BOOLEAN, PersistMark(drop)
  PROVE  IInv'
  <1>1. /\ NumbersOK /\ CopiesOK /\ FilesOK /\ PagesAreOfTheirMetric
        /\ StepInv /\ MomentsInv /\ BoundsInv
    BY InvParts
  <1>2. /\ FilesOK' /\ PagesAreOfTheirMetric' /\ disk'.marker = TRUE
        /\ disk'.pages = disk.pages /\ disk'.bin = disk.bin /\ disk'.kept = disk.kept
    BY <1>1, MarkedFiles DEF PersistMark
  <1>3. CopiesOK'
    BY <1>1, IndexedUniform DEF PersistMark, CopiesOK, NumbersOK, model
  <1>4. NumbersOK'
    BY <1>1 DEF PersistMark, NumbersOK, Phases, model, store, ghosts
  <1>5. StepInv'
    <2>1. rows = 0 => disk.pages = None
      BY <1>1 DEF StepInv
    <2>2. rows # 0 => rows > 0
      BY <1>1, Constants DEF NumbersOK
    <2> QED BY <1>1, <1>2, <2>1, <2>2 DEF PersistMark, StepInv, model, store, ghosts
  <1>6. MomentsInv' /\ BoundsInv'
    BY <1>1, <1>2 DEF PersistMark, MomentsInv, BoundsInv, model, store, ghosts
  <1> QED BY <1>2, <1>3, <1>4, <1>5, <1>6, InvPartsNext

LEMMA PersistPagesKeepsInv ==
  ASSUME IInv, PersistPages
  PROVE  IInv'
  <1>1. /\ NumbersOK /\ CopiesOK /\ FilesOK /\ PagesAreOfTheirMetric
        /\ StepInv /\ MomentsInv /\ BoundsInv
    BY InvParts
  <1>2. be.forest \in SUBSET Weights /\ be.indexed \in 0..MaxRows
        /\ be.forest \subseteq {Effective(be)}
    BY <1>1 DEF CopiesOK, Uniform, Backend
  <1>3. /\ disk'.marker = disk.marker /\ disk'.bin = disk.bin /\ disk'.kept = disk.kept
        /\ disk'.pages.scales = be.forest /\ FilesOK'
    BY <1>1, <1>2 DEF PersistPages, FilesOK
  <1>4. NumbersOK' /\ CopiesOK'
    BY <1>1 DEF PersistPages, NumbersOK, CopiesOK, Phases, model, store, ghosts
  <1>5. PagesAreOfTheirMetric'
    BY <1>1, <1>3 DEF PersistPages, PagesAreOfTheirMetric, StepInv
  <1>6. StepInv'
    BY <1>1, <1>2, <1>3 DEF PersistPages, StepInv, model, store, ghosts
  <1>7. MomentsInv' /\ BoundsInv'
    BY <1>1, <1>3 DEF PersistPages, MomentsInv, BoundsInv, model, store, ghosts
  <1> QED BY <1>3, <1>4, <1>5, <1>6, <1>7, InvPartsNext

LEMMA PersistMetadataKeepsInv ==
  ASSUME IInv, PersistMetadata
  PROVE  IInv'
  <1>1. /\ NumbersOK /\ CopiesOK /\ FilesOK /\ PagesAreOfTheirMetric
        /\ StepInv /\ MomentsInv /\ BoundsInv
    BY InvParts
  <1>2. /\ disk'.marker = disk.marker /\ disk'.bin = disk.bin
        /\ disk'.pages = disk.pages /\ FilesOK'
    BY <1>1 DEF PersistMetadata, FilesOK
  <1>3. NumbersOK' /\ CopiesOK'
    BY <1>1 DEF PersistMetadata, NumbersOK, CopiesOK, Phases, model, store
  <1>4. PagesAreOfTheirMetric' /\ StepInv'
    BY <1>1, <1>2 DEF PersistMetadata, PagesAreOfTheirMetric, StepInv, model, store
  <1>5. MomentsInv' /\ BoundsInv'
    BY <1>1 DEF PersistMetadata, MomentsInv, BoundsInv, model, store
  <1> QED BY <1>2, <1>3, <1>4, <1>5, InvPartsNext

LEMMA PersistMetricKeepsInv ==
  ASSUME IInv, PersistMetric
  PROVE  IInv'
  <1>1. /\ NumbersOK /\ CopiesOK /\ FilesOK /\ PagesAreOfTheirMetric
        /\ StepInv /\ MomentsInv /\ BoundsInv
    BY InvParts
  <1>2. Effective(be) \in Weights
    BY <1>1, EffectiveType DEF CopiesOK, Uniform
  <1>3. /\ disk'.marker = disk.marker /\ disk'.bin = Effective(be)
        /\ disk'.pages = disk.pages /\ disk'.kept = disk.kept /\ FilesOK'
    BY <1>1, <1>2 DEF PersistMetric, FilesOK
  <1>4. NumbersOK' /\ CopiesOK'
    BY <1>1 DEF PersistMetric, NumbersOK, CopiesOK, Phases, model, store, ghosts
  <1>5. PagesAreOfTheirMetric'
    BY <1>1, <1>3 DEF PersistMetric, PagesAreOfTheirMetric, StepInv
  <1>6. StepInv'
    BY <1>1, <1>3 DEF PersistMetric, StepInv, model, store, ghosts
  <1>7. MomentsInv' /\ BoundsInv'
    BY <1>1, <1>3 DEF PersistMetric, MomentsInv, BoundsInv, model, store, ghosts
  <1> QED BY <1>3, <1>4, <1>5, <1>6, <1>7, InvPartsNext

(* The marker goes when metric.bin and pages are of one metric.            *)
LEMMA PersistUnmarkKeepsInv ==
  ASSUME IInv, PersistUnmark
  PROVE  IInv'
  <1>1. /\ NumbersOK /\ CopiesOK /\ FilesOK /\ PagesAreOfTheirMetric
        /\ StepInv /\ MomentsInv /\ BoundsInv
    BY InvParts
  <1>2. Effective(be) \in Weights /\ Effective(be) # None
    BY <1>1, EffectiveType, Constants DEF CopiesOK, Uniform
  <1>3. /\ disk'.bin = disk.bin /\ disk'.pages = disk.pages /\ disk'.kept = disk.kept
        /\ FilesOK'
    BY <1>1 DEF PersistUnmark, FilesOK
  <1>4. PagesAreOfTheirMetric'
    BY <1>1, <1>2, <1>3 DEF PersistUnmark, PagesAreOfTheirMetric, StepInv
  <1>5. CASE closing
    BY <1>3, <1>4, <1>5, ClosedInv DEF PersistUnmark, store, ghosts
  <1>6. CASE ~closing
    <2>1. CopiesOK'
      BY <1>1, <1>6 DEF PersistUnmark, CopiesOK, Uniform, Backend, Effective, model
    <2>2. NumbersOK'
      BY <1>1, <1>6 DEF PersistUnmark, NumbersOK, Phases, model, store, ghosts
    <2>3. StepInv'
      BY <1>1, <1>3, <1>6 DEF PersistUnmark, StepInv, model, store, ghosts
    <2>4. MomentsInv' /\ BoundsInv'
      BY <1>1, <1>3, <1>6 DEF PersistUnmark, MomentsInv, BoundsInv, model, store, ghosts
    <2> QED BY <1>3, <1>4, <2>1, <2>2, <2>3, <2>4, InvPartsNext
  <1> QED BY <1>5, <1>6

LEMMA PersistBoundsKeepsInv ==
  ASSUME IInv, PersistBounds
  PROVE  IInv'
  <1>1. /\ NumbersOK /\ CopiesOK /\ FilesOK /\ PagesAreOfTheirMetric
        /\ StepInv /\ MomentsInv /\ BoundsInv
    BY InvParts
  <1>2. /\ disk'.marker = disk.marker /\ disk'.bin = disk.bin
        /\ disk'.pages = disk.pages /\ disk'.kept = bounds /\ FilesOK'
    BY <1>1 DEF PersistBounds, FilesOK, NumbersOK
  <1>3. NumbersOK' /\ CopiesOK'
    BY <1>1 DEF PersistBounds, NumbersOK, CopiesOK, Phases, model, store
  <1>4. PagesAreOfTheirMetric' /\ StepInv'
    BY <1>1, <1>2 DEF PersistBounds, PagesAreOfTheirMetric, StepInv, model, store
  <1>5. MomentsInv'
    BY <1>1 DEF PersistBounds, MomentsInv, model, store
  <1>6. BoundsInv'
    BY <1>1, <1>2, Constants DEF PersistBounds, BoundsInv, NumbersOK, Bounds, model, store
  <1> QED BY <1>2, <1>3, <1>4, <1>5, <1>6, InvPartsNext

-----------------------------------------------------------------------------
(* The theorems.                                                           *)

LEMMA StepKeepsInv ==
  ASSUME IInv, [Next]_vars
  PROVE  IInv'
  <1>1. ASSUME NEW asked \in Bounds \cup {None}, Open(asked)
        PROVE  IInv'
    BY <1>1, OpenKeepsInv
  <1>2. CASE FinishOpen \/ OpenEmpty
    BY <1>2, FinishOpenKeepsInv, OpenEmptyKeepsInv
  <1>3. ASSUME NEW n \in 1..MaxBatch, Add(n) \/ AddFailed(n)
        PROVE  IInv'
    BY <1>3, AddKeepsInv, AddFailedKeepsInv
  <1>4. CASE LearnMetric \/ EnsureSync
    BY <1>4, LearnMetricKeepsInv, EnsureSyncKeepsInv
  <1>5. ASSUME NEW w \in Weights, CallerWeights(w)
        PROVE  IInv'
    BY <1>5, CallerWeightsKeepsInv
  <1>6. ASSUME NEW drop \in BOOLEAN, PersistClean(drop) \/ PersistMark(drop)
        PROVE  IInv'
    BY <1>6, PersistCleanKeepsInv, PersistMarkKeepsInv
  <1>7. CASE PersistPages \/ PersistMetadata \/ PersistMetric
    BY <1>7, PersistPagesKeepsInv, PersistMetadataKeepsInv, PersistMetricKeepsInv
  <1>8. CASE PersistUnmark \/ PersistBounds \/ Crash
    BY <1>8, PersistUnmarkKeepsInv, PersistBoundsKeepsInv, CrashKeepsInv
  <1>9. CASE UNCHANGED vars
    BY <1>9 DEF vars, model, store, ghosts, IInv, ModelOK, TypeOK, MetricAgrees, Effective,
                PagesAreOfTheirMetric, FilesOK, StepInv, MomentsInv, BoundsInv
  <1> QED BY <1>1, <1>2, <1>3, <1>4, <1>5, <1>6, <1>7, <1>8, <1>9 DEF Next

(* The invariant the others follow from.                                   *)
THEOREM ModelInvariance == Spec => []IInv
  <1>1. Init => IInv
    BY InitInv
  <1>2. IInv /\ [Next]_vars => IInv'
    BY StepKeepsInv
  <1> QED BY <1>1, <1>2, PTL DEF Spec

(* Model, controller, backend and fragments hold one metric at all times,  *)
(* refused changes included, and pages left without metric.pending are of  *)
(* the metric in metric.bin, whichever writes a kill cut off.              *)
THEOREM MetricsNeverPart == Spec => []ModelOK
  <1>1. IInv => ModelOK
    BY DEF IInv
  <1> QED BY <1>1, ModelInvariance, PTL

(* Counts and moments cover every row but those a failed append stored.    *)
THEOREM MomentsAreOfAllRows == Spec => []MomentsCoverRows
  <1>1. IInv => MomentsCoverRows
    BY DEF IInv, MomentsInv, MomentsCoverRows
  <1> QED BY <1>1, ModelInvariance, PTL

(* A model reads its rows through the bounds they were warped under,       *)
(* unless it, or one before it, was opened over a metadata.json that had   *)
(* lost them.                                                              *)
THEOREM BoundsAreOfAllRows == Spec => []RowsOfOneBounds
  <1>1. IInv => RowsOfOneBounds
    BY DEF IInv, BoundsInv, RowsOfOneBounds
  <1> QED BY <1>1, ModelInvariance, PTL
=============================================================================
