-------------------------- MODULE TrialSearch_proofs --------------------------
(***************************************************************************)
(* The slots, rows and base of TrialSearch, for histories, batches and     *)
(* tolerances of any size.                                                 *)
(***************************************************************************)
EXTENDS TrialSearch, FiniteSetTheorems, WellFoundedInduction, TLAPS

(* The numbers behind the constants.                                       *)
LEMMA Numbers ==
  /\ Capacity \in Nat /\ Capacity >= 1
  /\ PendingCapacity \in Nat /\ PendingCapacity >= 1
  /\ SuccessTolerance \in Nat /\ SuccessTolerance >= 1
  /\ FailureTolerance \in Nat /\ FailureTolerance >= 1
  /\ LengthInit \in Nat /\ LengthMin \in Nat /\ LengthMax \in Nat
  /\ LengthMin <= LengthInit /\ LengthInit <= LengthMax
  /\ MaxWorth \in Nat /\ MaxRows \in Nat
  BY TrialSearchAssumption

-----------------------------------------------------------------------------
(* Induction over the numbers, stated with a set.  It follows from the     *)
(* strict subsets of a set being well founded.                             *)

LEMMA LeastNumber ==
  ASSUME NEW T, T \subseteq Nat, T # {}
  PROVE  \E x \in T : \A y \in T : x <= y
  <1> DEFINE U == {0 .. m : m \in T}
  <1>1. IsWellFoundedOn(StrictSubsetOrdering(Nat), FiniteSubsetsOf(Nat))
    BY FS_StrictSubsetOrderingWellFounded
  <1>2. \A m \in T : IsFiniteSet(0 .. m) /\ 0 .. m \subseteq Nat
    BY FS_Interval
  <1>3. U \subseteq FiniteSubsetsOf(Nat)
    BY <1>2 DEF FiniteSubsetsOf
  <1>4. U # {}
    OBVIOUS
  <1>5. PICK X \in U : \A Y \in U : ~ (<<Y, X>> \in StrictSubsetOrdering(Nat))
    BY <1>1, <1>3, <1>4, WFMin
  <1>6. PICK x \in T : X = 0 .. x
    OBVIOUS
  <1>7. ASSUME NEW y \in T, y < x
        PROVE  FALSE
    <2>1. 0 .. y \in U
      OBVIOUS
    <2>2. 0 .. y \subseteq 0 .. x
      BY <1>7
    <2>3. x \in 0 .. x /\ x \notin 0 .. y
      BY <1>7
    <2>4. 0 .. y \subseteq Nat /\ 0 .. x \subseteq Nat
      BY <1>7
    <2>5. <<0 .. y, X>> \in StrictSubsetOrdering(Nat)
      BY <1>6, <2>2, <2>3, <2>4 DEF StrictSubsetOrdering
    <2> QED BY <1>5, <2>1, <2>5
  <1> QED BY <1>7

LEMMA SetInduction ==
  ASSUME NEW S, 0 \in S, \A n \in Nat : n \in S => n + 1 \in S
  PROVE  Nat \subseteq S
  <1> DEFINE T == Nat \ S
  <1>1. SUFFICES ASSUME T # {} PROVE FALSE
    BY <1>1
  <1>2. PICK x \in T : \A y \in T : x <= y
    BY <1>1, LeastNumber
  <1>3. x \in Nat /\ x # 0
    OBVIOUS
  <1>4. x - 1 \in T
    BY <1>3
  <1> QED BY <1>2, <1>3, <1>4

(* Min and Max of the community modules.                                   *)
LEMMA MinIsLeast ==
  ASSUME NEW S, S \subseteq Nat, S # {}
  PROVE  Min(S) \in S
  BY LeastNumber DEF Min

LEMMA MaxOfTwo ==
  ASSUME NEW a \in Int, NEW b \in Int
  PROVE  Max({a, b}) = IF a > b THEN a ELSE b
  <1> DEFINE m == IF a > b THEN a ELSE b
  <1>1. m \in {a, b} /\ \A y \in {a, b} : m >= y
    OBVIOUS
  <1>2. ASSUME NEW x \in {a, b}, \A y \in {a, b} : x >= y
        PROVE  x = m
    BY <1>2
  <1> QED BY <1>1, <1>2 DEF Max

-----------------------------------------------------------------------------
(* Slots.                                                                  *)

LEMMA SlotNumbers ==
  /\ Slots \subseteq Nat /\ IsFiniteSet(Slots)
  /\ Cardinality(Slots) = Capacity + PendingCapacity + 1
  <1>1. Capacity + PendingCapacity \in Nat
    BY Numbers
  <1>2. /\ IsFiniteSet(0 .. Capacity + PendingCapacity)
        /\ Cardinality(0 .. Capacity + PendingCapacity) = Capacity + PendingCapacity + 1
    BY <1>1, FS_Interval
  <1> QED BY <1>1, <1>2 DEF Slots

(* A history has no more slots than records, and a set of trials no more   *)
(* than trials.                                                            *)
LEMMA HistorySlots ==
  ASSUME NEW h \in Seq(Record)
  PROVE  /\ IsFiniteSet(SlotsOf(h)) /\ Cardinality(SlotsOf(h)) <= Len(h)
         /\ SlotsOf(h) \subseteq Slots
  <1> DEFINE f == [i \in 1 .. Len(h) |-> h[i].slot]
  <1>1. Len(h) \in Nat /\ DOMAIN h = 1 .. Len(h)
    OBVIOUS
  <1>2. f \in Surjection(1 .. Len(h), SlotsOf(h))
    BY <1>1 DEF Surjection, SlotsOf
  <1>3. ExistsSurjection(1 .. Len(h), SlotsOf(h))
    BY <1>2 DEF ExistsSurjection
  <1>4. IsFiniteSet(SlotsOf(h)) /\ Cardinality(SlotsOf(h)) <= Len(h)
    <2> DEFINE n == Len(h)
    <2> HIDE DEF n
    <2>1. n \in Nat /\ ExistsSurjection(1 .. n, SlotsOf(h))
      BY <1>1, <1>3 DEF n
    <2>2. IsFiniteSet(SlotsOf(h))
      BY <2>1, FS_NatSurjection
    <2>3. Cardinality(SlotsOf(h)) <= n
      BY <2>1, FS_SurjCardinalityBound
    <2> QED BY <2>2, <2>3 DEF n
  <1>5. SlotsOf(h) \subseteq Slots
    <2>1. ASSUME NEW i \in DOMAIN h
          PROVE  h[i].slot \in Slots
      <3>1. h[i] \in Record
        BY <1>1
      <3> QED BY <3>1 DEF Record
    <2> QED BY <2>1 DEF SlotsOf
  <1> QED BY <1>4, <1>5

LEMMA TrialSlots ==
  ASSUME NEW trials, IsFiniteSet(trials)
  PROVE  /\ IsFiniteSet({t.slot : t \in trials})
         /\ Cardinality({t.slot : t \in trials}) <= Cardinality(trials)
  <1> DEFINE T == {t.slot : t \in trials}
             f == [t \in trials |-> t.slot]
  <1>1. f \in Surjection(trials, T)
    BY DEF Surjection
  <1> HIDE DEF f
  <1> QED BY <1>1, FS_Surjection

(* However the base and the history lie, a trial more than are out finds   *)
(* a slot, as long as they are fewer than the pool is made for.            *)
LEMMA FreeSlots ==
  ASSUME TypeOK, NEW trials, IsFiniteSet(trials)
  PROVE  /\ IsFiniteSet(Free(trials))
         /\ Cardinality(Free(trials)) >= PendingCapacity - Cardinality(trials)
  <1> DEFINE T == {t.slot : t \in trials}
             H == SlotsOf(history)
             taken == {base} \cup H \cup T
  <1>1. IsFiniteSet(H) /\ Cardinality(H) \in Nat /\ Cardinality(H) <= Capacity
    <2>1. history \in Seq(Record) /\ Len(history) <= Capacity /\ Len(history) \in Nat
      BY DEF TypeOK
    <2>2. IsFiniteSet(H) /\ Cardinality(H) <= Len(history)
      BY <2>1, HistorySlots
    <2> QED BY <2>1, <2>2, Numbers, FS_CardinalityType
  <1>2. IsFiniteSet(T) /\ Cardinality(T) \in Nat /\ Cardinality(trials) \in Nat
        /\ Cardinality(T) <= Cardinality(trials)
    BY TrialSlots, FS_CardinalityType
  <1>3. IsFiniteSet({base}) /\ Cardinality({base}) = 1
    BY FS_Singleton
  <1> HIDE DEF T, H
  <1>4. IsFiniteSet({base} \cup H) /\ Cardinality({base} \cup H) \in Nat
        /\ Cardinality({base} \cup H) <= 1 + Capacity
    <2>1. /\ IsFiniteSet({base} \cup H)
          /\ Cardinality({base} \cup H) = 1 + Cardinality(H) - Cardinality({base} \cap H)
      BY <1>1, <1>3, FS_Union
    <2>2. Cardinality({base} \cap H) \in Nat
      BY <1>3, FS_Intersection, FS_CardinalityType
    <2>3. Cardinality({base} \cup H) \in Nat
      BY <2>1, FS_CardinalityType
    <2> QED BY <1>1, <2>1, <2>2, <2>3, Numbers
  <1>5. IsFiniteSet(taken) /\ Cardinality(taken) \in Nat
        /\ Cardinality(taken) <= 1 + Capacity + Cardinality(trials)
    <2>1. /\ IsFiniteSet(taken)
          /\ Cardinality(taken) = Cardinality({base} \cup H) + Cardinality(T)
                                    - Cardinality(({base} \cup H) \cap T)
      BY <1>2, <1>4, FS_Union
    <2>2. Cardinality(({base} \cup H) \cap T) \in Nat
      BY <1>4, FS_Intersection, FS_CardinalityType
    <2>3. Cardinality(taken) \in Nat
      BY <2>1, FS_CardinalityType
    <2> QED BY <1>2, <1>4, <2>1, <2>2, <2>3, Numbers
  <1>6. Free(trials) = Slots \ taken
    BY DEF Free, T, H
  <1> HIDE DEF taken
  <1>7. /\ IsFiniteSet(Slots \ taken)
        /\ Cardinality(Slots \ taken) = Cardinality(Slots) - Cardinality(Slots \cap taken)
    BY SlotNumbers, FS_Difference
  <1>8. Cardinality(Slots \cap taken) \in Nat
        /\ Cardinality(Slots \cap taken) <= Cardinality(taken)
    BY <1>5, FS_Intersection, FS_CardinalityType
  <1> QED BY <1>2, <1>5, <1>6, <1>7, <1>8, SlotNumbers, Numbers

LEMMA FreeSlotExists ==
  ASSUME TypeOK, NEW trials, IsFiniteSet(trials), Cardinality(trials) < PendingCapacity
  PROVE  Free(trials) # {} /\ Min(Free(trials)) \in Free(trials)
  <1>1. /\ IsFiniteSet(Free(trials)) /\ Cardinality(Free(trials)) >= 1
    <2>1. Cardinality(trials) \in Nat /\ Cardinality(Free(trials)) \in Nat
      BY FreeSlots, FS_CardinalityType
    <2> QED BY <2>1, FreeSlots, Numbers
  <1>2. Free(trials) # {}
    BY <1>1, FS_EmptySet
  <1>3. Free(trials) \subseteq Nat
    BY SlotNumbers DEF Free
  <1> QED BY <1>2, <1>3, MinIsLeast

-----------------------------------------------------------------------------
(* What is asked for.                                                      *)

(* Trials that are out, all in slots and of rows of their own, of the      *)
(* first n rows not made yet.                                              *)
NewTrials(trials, n) ==
  /\ trials \subseteq Trial /\ IsFiniteSet(trials) /\ Cardinality(trials) = n
  /\ \A t \in trials :
       /\ t.from = rows[base] /\ t.row \in made + 1 .. made + n
       /\ t.slot # base /\ t.slot \notin SlotsOf(history)
       /\ \A u \in trials : t.slot = u.slot \/ t.row = u.row => t = u

LEMMA NoTrials ==
  NewTrials({}, 0)
  BY FS_EmptySet DEF NewTrials

LEMMA OneMoreTrial ==
  ASSUME TypeOK, BaseInv, NEW n \in Nat, n < PendingCapacity, made + n < MaxRows,
         NEW trials, NewTrials(trials, n), NEW ready \in BOOLEAN
  PROVE  NewTrials(trials \cup {Asked(trials, made + (n + 1), ready)}, n + 1)
  <1> DEFINE a == Asked(trials, made + (n + 1), ready)
             s == Min(Free(trials))
  <1>1. s \in Free(trials)
    BY FreeSlotExists DEF NewTrials
  <1>2. /\ s \in Slots /\ s # base /\ s \notin SlotsOf(history)
        /\ \A t \in trials : t.slot # s
    BY <1>1 DEF Free
  <1>3. made \in Nat /\ made + (n + 1) \in Rows
    BY Numbers DEF TypeOK, Rows
  <1>4. a = [slot |-> s, row |-> made + (n + 1), from |-> rows[base], ready |-> ready]
    BY DEF Asked
  <1> HIDE DEF s
  <1>5. a \in Trial
    BY <1>2, <1>3, <1>4 DEF Trial, BaseInv
  <1>6. a.slot = s /\ a.row = made + (n + 1) /\ a.from = rows[base]
    BY <1>4
  <1> HIDE DEF a
  <1>7. \A t \in trials : t.row \in made + 1 .. made + n
    BY DEF NewTrials
  <1>8. \A t \in trials : t.row # made + (n + 1) /\ t.row \in made + 1 .. made + (n + 1)
    BY <1>3, <1>7
  <1>9. made + (n + 1) \in made + 1 .. made + (n + 1)
    BY <1>3
  <1>10. a \notin trials
    BY <1>2, <1>6
  <1>11. /\ IsFiniteSet(trials \cup {a})
         /\ Cardinality(trials \cup {a}) = n + 1
    BY <1>10, FS_AddElement DEF NewTrials
  <1>12. ASSUME NEW t \in trials \cup {a}
         PROVE  /\ t.from = rows[base] /\ t.row \in made + 1 .. made + (n + 1)
                /\ t.slot # base /\ t.slot \notin SlotsOf(history)
                /\ \A u \in trials \cup {a} : t.slot = u.slot \/ t.row = u.row => t = u
    <2>1. CASE t = a
      BY <1>2, <1>6, <1>8, <1>9, <2>1
    <2>2. CASE t \in trials
      BY <1>2, <1>6, <1>8, <2>2 DEF NewTrials
    <2> QED BY <2>1, <2>2
  <1>13. trials \cup {a} \subseteq Trial
    BY <1>5 DEF NewTrials
  <1> QED BY <1>11, <1>12, <1>13 DEF NewTrials, a

(* The trials of a batch one after the other, up to the m-th.              *)
IsBatch(g, m) ==
  g = [i \in 0 .. m |->
         IF i = 0 THEN {} ELSE g[i - 1] \cup {Asked(g[i - 1], made + i, TRUE)}]

LEMMA BatchExists ==
  ASSUME NEW n \in Nat
  PROVE  \E g : IsBatch(g, n)
  <1> DEFINE S == {m \in Nat : \E g : IsBatch(g, m)}
  <1>1. 0 \in S
    <2> DEFINE g == [i \in 0 .. 0 |-> {}]
    <2>1. \A i \in 0 .. 0 : i = 0
      OBVIOUS
    <2>2. IsBatch(g, 0)
      BY <2>1 DEF IsBatch
    <2> QED BY <2>2
  <1>2. ASSUME NEW m \in Nat, m \in S
        PROVE  m + 1 \in S
    <2>1. PICK g : IsBatch(g, m)
      BY <1>2
    <2> DEFINE h == [i \in 0 .. m + 1 |->
                       IF i = m + 1 THEN g[m] \cup {Asked(g[m], made + i, TRUE)} ELSE g[i]]
    <2>2. \A i \in 0 .. m : h[i] = g[i]
      OBVIOUS
    <2>3. ASSUME NEW i \in 0 .. m + 1
          PROVE  h[i] = IF i = 0 THEN {} ELSE h[i - 1] \cup {Asked(h[i - 1], made + i, TRUE)}
      <3>1. CASE i = m + 1
        <4>1. i # 0 /\ i - 1 = m /\ h[i - 1] = g[m]
          BY <3>1, <2>2
        <4>2. h[i] = g[m] \cup {Asked(g[m], made + i, TRUE)}
          BY <3>1
        <4> HIDE DEF h
        <4> QED BY <4>1, <4>2
      <3>2. CASE i = 0
        <4>1. 0 \in 0 .. m
          OBVIOUS
        <4>2. h[0] = g[0]
          BY <2>2, <4>1
        <4> HIDE DEF h
        <4>3. g[0] = {}
          BY <2>1, <4>1 DEF IsBatch
        <4> QED BY <3>2, <4>2, <4>3
      <3>3. CASE i # 0 /\ i # m + 1
        <4>1. i \in 0 .. m /\ i - 1 \in 0 .. m
          BY <3>3
        <4>2. h[i] = g[i] /\ h[i - 1] = g[i - 1]
          BY <4>1, <2>2
        <4>3. g[i] = g[i - 1] \cup {Asked(g[i - 1], made + i, TRUE)}
          BY <2>1, <3>3, <4>1 DEF IsBatch
        <4> HIDE DEF h
        <4> QED BY <3>3, <4>2, <4>3
      <3> QED BY <3>1, <3>2, <3>3
    <2>4. h = [i \in 0 .. m + 1 |-> h[i]]
      OBVIOUS
    <2> HIDE DEF h
    <2>5. IsBatch(h, m + 1)
      BY <2>3, <2>4 DEF IsBatch
    <2> QED BY <2>5
  <1> HIDE DEF S
  <1>3. Nat \subseteq S
    BY <1>1, <1>2, SetInduction
  <1> QED BY <1>3 DEF S

(* A batch is of as many new trials as were asked for.                     *)
LEMMA BatchTrials ==
  ASSUME TypeOK, BaseInv, NEW n \in Nat, n <= PendingCapacity, made + n <= MaxRows
  PROVE  NewTrials(Batch(n), n) /\ \A t \in Batch(n) : t.ready
  <1> DEFINE g == CHOOSE h : IsBatch(h, n)
             P(m) == NewTrials(g[m], m) /\ \A t \in g[m] : t.ready
             S == {m \in Nat : m <= n => P(m)}
  <1>1. Batch(n) = g[n]
    BY DEF Batch, IsBatch
  <1>2. IsBatch(g, n)
    BY BatchExists
  <1> HIDE DEF g
  <1>3. 0 \in S
    <2>1. 0 \in 0 .. n
      OBVIOUS
    <2>2. g[0] = {}
      BY <1>2, <2>1 DEF IsBatch
    <2> QED BY <2>2, NoTrials
  <1>4. ASSUME NEW m \in Nat, m \in S
        PROVE  m + 1 \in S
    <2>1. SUFFICES ASSUME m + 1 <= n PROVE P(m + 1)
      BY <2>1
    <2>2. P(m)
      BY <1>4, <2>1
    <2>3. m + 1 \in 0 .. n /\ m + 1 # 0 /\ (m + 1) - 1 = m
      BY <2>1
    <2>4. g[m + 1] = g[m] \cup {Asked(g[m], made + (m + 1), TRUE)}
      BY <1>2, <2>3 DEF IsBatch
    <2>5. m < PendingCapacity /\ made + m < MaxRows
      BY <2>1, Numbers DEF TypeOK, Rows
    <2>6. NewTrials(g[m + 1], m + 1)
      BY <2>2, <2>4, <2>5, OneMoreTrial
    <2>7. Asked(g[m], made + (m + 1), TRUE).ready
      BY DEF Asked
    <2>8. \A t \in g[m + 1] : t.ready
      BY <2>2, <2>4, <2>7
    <2> QED BY <2>6, <2>8
  <1> HIDE DEF P
  <1>5. n \in S
    <2> HIDE DEF S
    <2> QED BY <1>3, <1>4, SetInduction
  <1> QED BY <1>1, <1>5 DEF P

-----------------------------------------------------------------------------
(* Asks.                                                                   *)

LEMMA InvParts ==
  IInv <=> /\ TypeOK /\ SlotsAreDisjoint /\ SlotsSuffice
           /\ RowsAreWhatWasTold /\ BaseIsBest /\ TrialsInv /\ BaseInv /\ LengthInv
  BY DEF IInv, PoolOK

LEMMA InvPartsNext ==
  IInv' <=> /\ TypeOK' /\ SlotsAreDisjoint' /\ SlotsSuffice'
            /\ RowsAreWhatWasTold' /\ BaseIsBest' /\ TrialsInv' /\ BaseInv' /\ LengthInv'
  BY InvParts, PTL

(* Slots suffice whatever the history and the base are.                    *)
LEMMA SlotsAlwaysSuffice ==
  TypeOK => SlotsSuffice
  <1>1. IsFiniteSet({}) /\ Cardinality({}) = 0
    BY FS_EmptySet
  <1>2. ASSUME TypeOK
        PROVE  Cardinality(Free({})) >= PendingCapacity
    <2>1. /\ IsFiniteSet(Free({}))
          /\ Cardinality(Free({})) >= PendingCapacity - 0
      BY <1>1, <1>2, FreeSlots
    <2>2. Cardinality(Free({})) \in Nat
      BY <2>1, FS_CardinalityType
    <2> QED BY <2>1, <2>2, Numbers
  <1> QED BY <1>2 DEF SlotsSuffice

LEMMA SlotsSufficeNext ==
  TypeOK' => SlotsSuffice'
  BY SlotsAlwaysSuffice, PTL

LEMMA OutKeepsInv ==
  ASSUME IInv, pending = {}, NEW n \in Nat, n <= PendingCapacity, made + n <= MaxRows,
         NEW trials, NewTrials(trials, n), Out(trials),
         \A t \in trials : ~t.ready => driver = "owner" /\ trials = {t}
  PROVE  IInv'
  <1>1. /\ TypeOK /\ SlotsAreDisjoint /\ RowsAreWhatWasTold /\ BaseIsBest
        /\ BaseInv /\ LengthInv
    BY InvParts
  <1>2. /\ trials \subseteq Trial /\ IsFiniteSet(trials) /\ Cardinality(trials) = n
        /\ \A t \in trials :
             /\ t.from = rows[base] /\ t.row \in made + 1 .. made + n
             /\ t.slot # base /\ t.slot \notin SlotsOf(history)
             /\ \A u \in trials : t.slot = u.slot \/ t.row = u.row => t = u
    BY DEF NewTrials
  <1>3. pending' = trials /\ made' = made + n /\ made \in Nat /\ made + n \in Rows
    BY <1>1, <1>2, Numbers DEF Out, TypeOK, Rows
  <1>4. UNCHANGED <<driver, base, history, worth, best, region>>
    BY DEF Out
  <1>5. \A t \in trials : /\ t.slot \in Slots /\ t.row \in Rows /\ t.row \in Nat
                          /\ t.row > made /\ t.row <= made + n
    BY <1>2, <1>3 DEF Trial, Rows
  <1>6. ASSUME NEW s \in Slots
        PROVE  rows'[s] = IF \E t \in trials : t.ready /\ t.slot = s
                          THEN (CHOOSE t \in trials : t.slot = s).row
                          ELSE rows[s]
    BY DEF Out
  <1>7. ASSUME NEW t \in trials, t.ready
        PROVE  rows'[t.slot] = t.row
    <2>1. (CHOOSE u \in trials : u.slot = t.slot) = t
      BY <1>2
    <2> QED BY <1>5, <1>6, <1>7, <2>1
  <1>8. ASSUME NEW s \in Slots, \A t \in trials : t.slot # s
        PROVE  rows'[s] = rows[s]
    BY <1>6, <1>8
  <1>9. base \in Slots /\ rows'[base] = rows[base]
    BY <1>1, <1>2, <1>8 DEF TypeOK
  <1>10. \A i \in DOMAIN history :
           history[i].slot \in Slots /\ rows'[history[i].slot] = rows[history[i].slot]
    <2>1. ASSUME NEW i \in DOMAIN history
          PROVE  history[i].slot \in Slots /\ rows'[history[i].slot] = rows[history[i].slot]
      <3>1. history[i].slot \in SlotsOf(history)
        BY DEF SlotsOf
      <3>2. SlotsOf(history) \subseteq Slots
        BY <1>1, HistorySlots DEF TypeOK
      <3> QED BY <1>2, <1>8, <3>1, <3>2
    <2> QED BY <2>1
  <1>11. TypeOK'
    <2>1. rows' \in [Slots -> Rows \cup {None, Mixed}]
      <3>1. \A s \in Slots : rows'[s] \in Rows \cup {None, Mixed}
        <4>1. ASSUME NEW s \in Slots
              PROVE  rows'[s] \in Rows \cup {None, Mixed}
          <5>1. CASE \E t \in trials : t.ready /\ t.slot = s
            BY <1>5, <1>7, <5>1
          <5>2. CASE ~ \E t \in trials : t.ready /\ t.slot = s
            BY <1>1, <1>6, <5>2 DEF TypeOK
          <5> QED BY <5>1, <5>2
        <4> QED BY <4>1
      <3>2. rows' = [s \in Slots |-> rows'[s]]
        BY DEF Out
      <3> QED BY <3>1, <3>2
    <2> QED BY <1>1, <1>2, <1>3, <1>4, <2>1, Numbers DEF TypeOK
  <1>12. SlotsAreDisjoint'
    BY <1>1, <1>2, <1>3, <1>4 DEF SlotsAreDisjoint
  <1>13. RowsAreWhatWasTold'
    BY <1>1, <1>4, <1>10 DEF RowsAreWhatWasTold
  <1>14. BaseIsBest'
    BY <1>1, <1>4, <1>9 DEF BaseIsBest
  <1>15. TrialsInv'
    <2>1. ASSUME NEW t \in trials
          PROVE  t.row <= made' /\ worth'[t.row] = None
      BY <1>1, <1>3, <1>4, <1>5 DEF BaseInv
    <2>2. ASSUME NEW t \in trials
          PROVE  ~t.ready => t.from = rows'[base'] /\ pending' = {t}
      BY <1>2, <1>3, <1>4, <1>9
    <2> QED BY <1>2, <1>3, <1>7, <2>1, <2>2 DEF TrialsInv
  <1>16. BaseInv'
    <2>1. \A r \in Rows : r > made' => worth'[r] = None
      <3>1. \A r \in Rows : r > made + n => r > made
        BY <1>3 DEF Rows
      <3> QED BY <1>1, <1>3, <1>4, <3>1 DEF BaseInv
    <2> QED BY <1>1, <1>3, <1>4, <1>9, <2>1 DEF BaseInv
  <1>17. LengthInv'
    <2>1. region.length >= LengthMin /\ region.length \in Int
      BY <1>1, Numbers DEF LengthInv, TypeOK, Region
    <2>2. region.length >= LengthMin - PendingCapacity + n
      BY <2>1, Numbers
    <2> QED BY <1>2, <1>3, <1>4, <2>1, <2>2 DEF LengthInv
  <1> QED BY <1>11, <1>12, <1>13, <1>14, <1>15, <1>16, <1>17, SlotsSufficeNext, InvPartsNext

LEMMA AskKeepsInv ==
  ASSUME IInv, NEW lazy \in BOOLEAN, Ask(lazy)
  PROVE  IInv'
  <1> DEFINE a == Asked({}, made + 1, ~lazy)
  <1>1. TypeOK /\ BaseInv
    BY InvParts
  <1>2. made \in Nat /\ made + 1 <= MaxRows /\ made + 0 < MaxRows
    BY <1>1, Numbers DEF Ask, TypeOK, Rows
  <1>3. NewTrials({} \cup {Asked({}, made + (0 + 1), ~lazy)}, 0 + 1)
    <2>1. 0 \in Nat /\ 0 < PendingCapacity
      BY Numbers
    <2>2. (~lazy) \in BOOLEAN
      OBVIOUS
    <2> QED BY <1>1, <1>2, <2>1, <2>2, NoTrials, OneMoreTrial
  <1>4. NewTrials({a}, 1)
    BY <1>3
  <1>5. a.ready = ~lazy
    BY DEF Asked
  <1>6. pending = {} /\ Out({a}) /\ (driver = "optimizer" => ~lazy)
        /\ driver \in {"owner", "optimizer"}
    BY <1>1 DEF Ask, TypeOK
  <1> HIDE DEF a
  <1>7. \A t \in {a} : ~t.ready => driver = "owner" /\ {a} = {t}
    BY <1>5, <1>6
  <1> QED BY <1>2, <1>4, <1>6, <1>7, Numbers, OutKeepsInv

LEMMA AskBatchKeepsInv ==
  ASSUME IInv, NEW arms \in 1 .. PendingCapacity, AskBatch(arms)
  PROVE  IInv'
  <1>1. TypeOK /\ BaseInv
    BY InvParts
  <1>2. arms \in Nat /\ arms <= PendingCapacity /\ made + arms <= MaxRows
    BY Numbers DEF AskBatch
  <1>3. NewTrials(Batch(arms), arms) /\ \A t \in Batch(arms) : t.ready
    BY <1>1, <1>2, BatchTrials
  <1>4. pending = {} /\ Out(Batch(arms))
    BY DEF AskBatch
  <1> QED BY <1>2, <1>3, <1>4, OutKeepsInv

-----------------------------------------------------------------------------
(* Tells.                                                                  *)

LEMMA PendingFinite ==
  ASSUME IInv
  PROVE  IsFiniteSet(pending)
  <1> DEFINE f == [t \in pending |-> t.slot]
  <1>1. \A t \in pending : t.slot \in Slots
    BY InvParts DEF TypeOK, Trial
  <1>2. \A t, u \in pending : t.slot = u.slot => t = u
    BY InvParts DEF SlotsAreDisjoint
  <1>3. f \in Injection(pending, Slots)
    BY <1>1, <1>2 DEF Injection, IsInjective
  <1> HIDE DEF f
  <1> QED BY <1>3, SlotNumbers, FS_Injection

(* A lazy trial is made from the base it was asked on, whatever the time.  *)
LEMMA MaterializedRows ==
  ASSUME IInv, NEW t \in pending
  PROVE  /\ t.slot \in Slots /\ t.row \in Rows
         /\ Materialized(t) \in [Slots -> Rows \cup {None, Mixed}]
         /\ Materialized(t)[t.slot] = t.row
         /\ \A s \in Slots : s # t.slot => Materialized(t)[s] = rows[s]
  <1>1. t.slot \in Slots /\ t.row \in Rows /\ t.ready \in BOOLEAN
    BY InvParts DEF TypeOK, Trial
  <1>2. rows \in [Slots -> Rows \cup {None, Mixed}]
    BY InvParts DEF TypeOK
  <1>3. CASE t.ready
    <2>1. rows[t.slot] = t.row
      BY <1>3, InvParts DEF TrialsInv
    <2>2. Materialized(t) = rows
      BY <1>3 DEF Materialized
    <2> QED BY <1>1, <1>2, <2>1, <2>2
  <1>4. CASE ~t.ready
    <2>1. rows[base] = t.from
      BY <1>4, InvParts DEF TrialsInv
    <2>2. Materialized(t) = [rows EXCEPT ![t.slot] = t.row]
      BY <1>4, <2>1 DEF Materialized
    <2> QED BY <1>1, <1>2, <2>2
  <1> QED BY <1>3, <1>4

LEMMA MaterializeKeepsInv ==
  ASSUME IInv, NEW t \in pending, Materialize(t)
  PROVE  IInv'
  <1> DEFINE m == [t EXCEPT !.ready = TRUE]
  <1>1. /\ TypeOK /\ SlotsAreDisjoint /\ RowsAreWhatWasTold /\ BaseIsBest /\ TrialsInv
        /\ BaseInv /\ LengthInv
    BY InvParts
  <1>2. /\ driver = "owner" /\ ~t.ready /\ rows' = Materialized(t)
        /\ pending' = (pending \ {t}) \cup {m}
        /\ UNCHANGED <<driver, base, history, made, worth, best, region>>
    BY DEF Materialize
  <1>3. t \in Trial
    BY <1>1 DEF TypeOK
  <1>4. /\ m \in Trial /\ m.slot = t.slot /\ m.row = t.row /\ m.ready
    BY <1>3 DEF Trial
  <1> HIDE DEF m
  <1>5. pending = {t}
    BY <1>1, <1>2 DEF TrialsInv
  <1>6. pending' = {m}
    BY <1>2, <1>5
  <1>7. Cardinality(pending) = 1 /\ Cardinality(pending') = 1
    BY <1>5, <1>6, FS_Singleton
  <1>8. t.slot # base /\ t.slot \notin SlotsOf(history)
    BY <1>1 DEF SlotsAreDisjoint
  <1>9. base \in Slots /\ rows'[base] = rows[base]
    BY <1>1, <1>2, <1>8, MaterializedRows DEF TypeOK
  <1>10. \A i \in DOMAIN history : rows'[history[i].slot] = rows[history[i].slot]
    <2>1. ASSUME NEW i \in DOMAIN history
          PROVE  rows'[history[i].slot] = rows[history[i].slot]
      <3>1. history[i].slot \in SlotsOf(history)
        BY DEF SlotsOf
      <3>2. SlotsOf(history) \subseteq Slots
        BY <1>1, HistorySlots DEF TypeOK
      <3> QED BY <1>2, <1>8, <3>1, <3>2, MaterializedRows
    <2> QED BY <2>1
  <1>11. TypeOK'
    <2>1. rows' \in [Slots -> Rows \cup {None, Mixed}]
      BY <1>2, MaterializedRows
    <2> QED BY <1>1, <1>2, <1>4, <1>6, <1>7, <2>1, Numbers DEF TypeOK
  <1>12. SlotsAreDisjoint'
    BY <1>1, <1>2, <1>4, <1>6, <1>8 DEF SlotsAreDisjoint, SlotsOf
  <1>13. RowsAreWhatWasTold'
    BY <1>1, <1>2, <1>10 DEF RowsAreWhatWasTold
  <1>14. BaseIsBest'
    BY <1>1, <1>2, <1>9 DEF BaseIsBest
  <1>15. TrialsInv'
    <2>1. rows'[m.slot] = m.row
      BY <1>2, <1>4, MaterializedRows
    <2>2. m.row <= made' /\ worth'[m.row] = None
      BY <1>1, <1>2, <1>4 DEF TrialsInv
    <2> QED BY <1>4, <1>6, <2>1, <2>2 DEF TrialsInv
  <1>16. BaseInv'
    BY <1>1, <1>2, <1>4, <1>6, <1>9 DEF BaseInv
  <1>17. LengthInv'
    BY <1>1, <1>2, <1>7 DEF LengthInv
  <1> QED BY <1>11, <1>12, <1>13, <1>14, <1>15, <1>16, <1>17, SlotsSufficeNext, InvPartsNext

(* What a told trial leaves: its row in its slot with the value it earned, *)
(* and every other row, worth and trial as before.                         *)
LEMMA ToldRows ==
  ASSUME IInv, NEW t \in pending, NEW value \in Worths, NEW accept \in BOOLEAN,
         Told(t, value, accept)
  PROVE  /\ t.slot \in Slots /\ t.row \in Rows /\ t.row <= made /\ worth[t.row] = None
         /\ rows' \in [Slots -> Rows \cup {None, Mixed}]
         /\ worth' \in [Rows -> Worths \cup {None}]
         /\ rows'[t.slot] = t.row /\ worth'[t.row] = value
         /\ \A s \in Slots : s # t.slot => rows'[s] = rows[s]
         /\ \A r \in Rows : r # t.row => worth'[r] = worth[r]
  <1>1. rows' = Materialized(t) /\ worth' = [worth EXCEPT ![t.row] = value]
    BY DEF Told
  <1>2. worth \in [Rows -> Worths \cup {None}]
    BY InvParts DEF TypeOK
  <1>3. t.row <= made /\ worth[t.row] = None
    BY InvParts DEF TrialsInv
  <1> QED BY <1>1, <1>2, <1>3, MaterializedRows

LEMMA ToldTrials ==
  ASSUME IInv, NEW t \in pending, NEW value \in Worths, NEW accept \in BOOLEAN,
         Told(t, value, accept)
  PROVE  /\ pending' \subseteq Trial /\ IsFiniteSet(pending) /\ IsFiniteSet(pending')
         /\ Cardinality(pending) \in Nat /\ Cardinality(pending') \in Nat
         /\ Cardinality(pending') = Cardinality(pending) - 1
         /\ \A u \in pending' :
              /\ u \in pending /\ u.ready /\ u.slot # t.slot /\ u.row # t.row
              /\ u.slot # base' /\ rows'[u.slot] = u.row /\ worth'[u.row] = None
  <1>1. pending' = pending \ {t}
    BY DEF Told
  <1>2. /\ IsFiniteSet(pending') /\ Cardinality(pending') = Cardinality(pending) - 1
    BY <1>1, PendingFinite, FS_RemoveElement
  <1>3. Cardinality(pending) \in Nat /\ Cardinality(pending') \in Nat
    BY <1>2, PendingFinite, FS_CardinalityType
  <1>4. pending \subseteq Trial
    BY InvParts DEF TypeOK
  <1>5. ASSUME NEW u \in pending'
        PROVE  /\ u \in pending /\ u.ready /\ u.slot # t.slot /\ u.row # t.row
               /\ u.slot # base' /\ rows'[u.slot] = u.row /\ worth'[u.row] = None
    <2>1. u \in pending /\ u # t
      BY <1>1
    <2>2. u.slot # t.slot /\ u.slot # base
      BY <2>1, InvParts DEF SlotsAreDisjoint
    <2>3. u.ready /\ u.row # t.row /\ rows[u.slot] = u.row /\ worth[u.row] = None
      BY <2>1, InvParts DEF TrialsInv
    <2>4. u.slot \in Slots /\ u.row \in Rows
      BY <1>4, <2>1 DEF Trial
    <2>5. u.slot # base'
      BY <2>2 DEF Told
    <2> QED BY <2>1, <2>2, <2>3, <2>4, <2>5, ToldRows
  <1> QED BY <1>1, <1>2, <1>3, <1>4, <1>5, PendingFinite

(* The told records keep their rows, and the base is the told row or keeps *)
(* its own.                                                                *)
LEMMA ToldRecords ==
  ASSUME IInv, NEW t \in pending, NEW value \in Worths, NEW accept \in BOOLEAN,
         Told(t, value, accept)
  PROVE  \A i \in DOMAIN history :
           /\ history[i].slot # t.slot
           /\ rows'[history[i].slot] \in Rows
           /\ worth'[rows'[history[i].slot]] = history[i].value
  <1>1. ASSUME NEW i \in DOMAIN history
        PROVE  /\ history[i].slot # t.slot
               /\ rows'[history[i].slot] \in Rows
               /\ worth'[rows'[history[i].slot]] = history[i].value
    <2>1. history[i] \in Record
      BY InvParts DEF TypeOK
    <2>2. history[i].slot \in Slots /\ history[i].value \in Worths
      BY <2>1 DEF Record
    <2>3. history[i].slot # t.slot
      BY InvParts DEF SlotsAreDisjoint, SlotsOf
    <2>4. rows[history[i].slot] \in Rows /\ worth[rows[history[i].slot]] = history[i].value
      BY InvParts DEF RowsAreWhatWasTold
    <2>5. rows'[history[i].slot] = rows[history[i].slot]
      BY <2>2, <2>3, ToldRows
    <2>6. rows[history[i].slot] # t.row
      <3>1. history[i].value # None
        BY <2>2, Numbers DEF Worths, None
      <3> QED BY <2>4, <3>1, ToldRows
    <2> QED BY <2>3, <2>4, <2>5, <2>6, ToldRows
  <1> QED BY <1>1

LEMMA ToldBase ==
  ASSUME IInv, NEW t \in pending, NEW value \in Worths, NEW accept \in BOOLEAN,
         Told(t, value, accept)
  PROVE  /\ base' \in Slots /\ rows'[base'] \in Rows
         /\ worth'[rows'[base']] = IF accept THEN value ELSE worth[rows[base]]
  <1>1. CASE accept
    <2>1. base' = t.slot
      BY <1>1 DEF Told
    <2> QED BY <1>1, <2>1, ToldRows
  <1>2. CASE ~accept
    <2>1. base' = base
      BY <1>2 DEF Told
    <2>2. base \in Slots /\ rows[base] \in Rows /\ worth[rows[base]] # None
      BY InvParts DEF TypeOK, BaseInv
    <2>3. base # t.slot
      BY InvParts DEF SlotsAreDisjoint
    <2>4. rows[base] # t.row
      BY <2>2, ToldRows
    <2> QED BY <1>2, <2>1, <2>2, <2>3, <2>4, ToldRows
  <1> QED BY <1>1, <1>2

(* The trials and the base after a tell, whatever happens to the history.  *)
LEMMA ToldKeepsTrials ==
  ASSUME IInv, NEW t \in pending, NEW value \in Worths, NEW accept \in BOOLEAN,
         Told(t, value, accept), UNCHANGED <<driver, made>>
  PROVE  TrialsInv' /\ BaseInv'
  <1>1. TrialsInv /\ BaseInv
    BY InvParts
  <1>2. \A u \in pending' :
          /\ u \in pending /\ u.ready /\ rows'[u.slot] = u.row /\ worth'[u.row] = None
    BY ToldTrials
  <1>3. TrialsInv'
    BY <1>1, <1>2 DEF TrialsInv
  <1>4. rows'[base'] \in Rows /\ worth'[rows'[base']] # None
    <2>1. value # None
      BY Numbers DEF Worths, None
    <2>2. worth[rows[base]] # None
      BY <1>1 DEF BaseInv
    <2> QED BY <2>1, <2>2, ToldBase
  <1>5. \A r \in Rows : r > made' => worth'[r] = None
    <2>1. made \in Nat /\ t.row \in Nat /\ t.row <= made
      BY InvParts, ToldRows DEF TypeOK, Rows
    <2>2. \A r \in Rows : r > made => r # t.row
      BY <2>1 DEF Rows
    <2> QED BY <1>1, <2>2, ToldRows DEF BaseInv
  <1>6. BaseInv'
    BY <1>1, <1>2, <1>4, <1>5 DEF BaseInv
  <1> QED BY <1>3, <1>6

(* The history after a record: the oldest falls out of a full one.         *)
Follows(h, record) ==
  /\ h \in Seq(Record) /\ Len(h) \in 1 .. Capacity
  /\ h[Len(h)] = record
  /\ \E k \in {0, 1} :
       \A j \in 1 .. Len(h) - 1 : j + k \in DOMAIN history /\ h[j] = history[j + k]

LEMMA RecordedEntries ==
  ASSUME TypeOK, NEW record \in Record
  PROVE  Follows(Recorded(record), record)
  <1>1. history \in Seq(Record) /\ Len(history) \in Nat /\ Len(history) <= Capacity
        /\ Capacity \in Nat /\ Capacity >= 1 /\ DOMAIN history = 1 .. Len(history)
    BY Numbers DEF TypeOK
  <1>2. CASE Len(history) = Capacity
    <2> DEFINE q == Tail(history)
    <2>1. history # <<>>
      BY <1>1, <1>2
    <2>2. /\ q \in Seq(Record) /\ Len(q) = Capacity - 1
          /\ \A i \in 1 .. Capacity - 1 : q[i] = history[i + 1]
      BY <1>1, <1>2, <2>1
    <2>3. Recorded(record) = Append(q, record)
      BY <1>2 DEF Recorded
    <2> HIDE DEF q
    <2>4. /\ Append(q, record) \in Seq(Record) /\ Len(Append(q, record)) = Capacity
          /\ Append(q, record)[Capacity] = record
          /\ \A i \in 1 .. Capacity - 1 : Append(q, record)[i] = q[i]
      BY <1>1, <2>2
    <2>5. \A i \in 1 .. Capacity - 1 : i + 1 \in DOMAIN history
      BY <1>1, <1>2
    <2> QED BY <1>1, <2>2, <2>3, <2>4, <2>5 DEF Follows
  <1>3. CASE Len(history) # Capacity
    <2>1. Recorded(record) = Append(history, record)
      BY <1>3 DEF Recorded
    <2> DEFINE n == Len(history)
    <2>2. /\ Append(history, record) \in Seq(Record) /\ Len(Append(history, record)) = n + 1
          /\ Append(history, record)[n + 1] = record
          /\ \A i \in 1 .. n : Append(history, record)[i] = history[i]
      BY <1>1
    <2>3. n \in Nat /\ n + 1 \in 1 .. Capacity /\ (n + 1) - 1 = n
      <3>1. n \in Nat /\ n <= Capacity /\ n # Capacity /\ Capacity \in Nat
        BY <1>1, <1>3
      <3> HIDE DEF n
      <3> QED BY <3>1
    <2> DEFINE h == Append(history, record)
    <2>4. \A j \in 1 .. n : j + 0 \in DOMAIN history /\ h[j] = history[j + 0]
      BY <1>1, <2>2, <2>3
    <2> HIDE DEF h
    <2>5. \E k \in {0, 1} : \A j \in 1 .. n : j + k \in DOMAIN history /\ h[j] = history[j + k]
      BY <2>4
    <2>6. h \in Seq(Record) /\ Len(h) = n + 1 /\ h[n + 1] = record
      BY <2>2 DEF h
    <2>7. Follows(h, record)
      BY <2>3, <2>5, <2>6 DEF Follows
    <2> QED BY <2>1, <2>7 DEF h
  <1> QED BY <1>2, <1>3

(* A told trial joins the history in a slot of its own.                    *)
LEMMA ToldHistory ==
  ASSUME IInv, NEW t \in pending, NEW value \in Worths, NEW accept \in BOOLEAN,
         Told(t, value, accept), history' = Recorded([slot |-> t.slot, value |-> value])
  PROVE  /\ history' \in Seq(Record) /\ Len(history') <= Capacity
         /\ SlotsAreDisjoint' /\ RowsAreWhatWasTold'
  <1> DEFINE r == [slot |-> t.slot, value |-> value]
             m == Len(history')
  <1>1. r \in Record /\ r.slot = t.slot /\ r.value = value
    BY ToldRows DEF Record
  <1>2. TypeOK /\ SlotsAreDisjoint
    BY InvParts
  <1>3. history' = Recorded(r)
    OBVIOUS
  <1> HIDE DEF r
  <1>11. Follows(history', r)
    BY <1>1, <1>2, <1>3, RecordedEntries
  <1>4. history' \in Seq(Record) /\ m \in 1 .. Capacity /\ history'[m] = r
    BY <1>11 DEF Follows
  <1>5. PICK k \in {0, 1} :
          \A j \in 1 .. m - 1 : j + k \in DOMAIN history /\ history'[j] = history[j + k]
    BY <1>11 DEF Follows
  <1>6. m \in Nat /\ m <= Capacity /\ DOMAIN history' = 1 .. m
        /\ \A j \in 1 .. m : j = m \/ j \in 1 .. m - 1
    BY <1>4, Numbers
  <1> HIDE DEF m
  <1>7. ASSUME NEW i \in 1 .. m, NEW j \in 1 .. m, history'[i].slot = history'[j].slot
        PROVE  i = j
    <2>1. \A a \in 1 .. m - 1 : history'[a].slot # t.slot
      BY <1>5, ToldRecords
    <2>2. CASE i = m \/ j = m
      BY <1>1, <1>4, <1>6, <1>7, <2>1, <2>2
    <2>3. CASE i \in 1 .. m - 1 /\ j \in 1 .. m - 1
      <3>1. i + k = j + k
        BY <1>2, <1>5, <1>7, <2>3 DEF SlotsAreDisjoint
      <3> QED BY <3>1
    <2> QED BY <1>6, <2>2, <2>3
  <1>8. ASSUME NEW u \in pending', NEW i \in 1 .. m
        PROVE  u.slot # history'[i].slot
    <2>1. u \in pending /\ u.slot # t.slot
      BY ToldTrials
    <2>2. CASE i = m
      BY <1>1, <1>4, <2>1, <2>2
    <2>3. CASE i \in 1 .. m - 1
      BY <1>2, <1>5, <2>1, <2>3 DEF SlotsAreDisjoint, SlotsOf
    <2> QED BY <1>6, <2>2, <2>3
  <1>9. SlotsAreDisjoint'
    <2>1. \A u \in pending' : u.slot # base' /\ u.slot \notin SlotsOf(history)'
      BY <1>6, <1>8, ToldTrials DEF SlotsOf
    <2>2. \A u, w \in pending' : u.slot = w.slot => u = w
      BY <1>2, ToldTrials DEF SlotsAreDisjoint
    <2> QED BY <1>6, <1>7, <2>1, <2>2 DEF SlotsAreDisjoint
  <1>10. ASSUME NEW i \in 1 .. m
         PROVE  /\ rows'[history'[i].slot] \in Rows
                /\ worth'[rows'[history'[i].slot]] = history'[i].value
    <2>1. CASE i = m
      BY <1>1, <1>4, <2>1, ToldRows
    <2>2. CASE i \in 1 .. m - 1
      BY <1>5, <2>2, ToldRecords
    <2> QED BY <1>6, <2>1, <2>2
  <1>12. RowsAreWhatWasTold'
    BY <1>6, <1>10 DEF RowsAreWhatWasTold
  <1> QED BY <1>4, <1>6, <1>9, <1>12

LEMMA TellSearchKeepsInv ==
  ASSUME IInv, NEW t \in pending, NEW value \in Worths, NEW accept \in BOOLEAN,
         TellSearch(t, value, accept)
  PROVE  IInv'
  <1>1. /\ Told(t, value, accept) /\ driver = "owner"
        /\ history' = Recorded([slot |-> t.slot, value |-> value])
        /\ UNCHANGED <<driver, made, best, region>>
    BY DEF TellSearch
  <1>2. TypeOK /\ LengthInv
    BY InvParts
  <1>3. /\ history' \in Seq(Record) /\ Len(history') <= Capacity
        /\ SlotsAreDisjoint' /\ RowsAreWhatWasTold'
    BY <1>1, ToldHistory
  <1>4. TrialsInv' /\ BaseInv'
    BY <1>1, ToldKeepsTrials
  <1>5. /\ pending' \subseteq Trial /\ Cardinality(pending) \in Nat
        /\ Cardinality(pending') \in Nat
        /\ Cardinality(pending') = Cardinality(pending) - 1
    BY <1>1, ToldTrials
  <1>6. TypeOK'
    <2>1. Cardinality(pending') <= PendingCapacity
      BY <1>2, <1>5, Numbers DEF TypeOK
    <2>2. /\ rows' \in [Slots -> Rows \cup {None, Mixed}]
          /\ worth' \in [Rows -> Worths \cup {None}] /\ base' \in Slots
      BY <1>1, ToldRows, ToldBase
    <2> QED BY <1>1, <1>2, <1>3, <1>5, <2>1, <2>2 DEF TypeOK
  <1>7. BaseIsBest'
    BY <1>1 DEF BaseIsBest
  <1>8. LengthInv'
    <2>1. region.length \in Int /\ region.length >= LengthMin
          /\ region.length >= LengthMin - PendingCapacity + Cardinality(pending)
      BY <1>1, <1>2, Numbers DEF LengthInv, TypeOK, Region
    <2>2. region.length >= LengthMin - PendingCapacity + Cardinality(pending')
      BY <1>5, <2>1, Numbers
    <2> QED BY <1>1, <2>1, <2>2 DEF LengthInv
  <1> QED BY <1>3, <1>4, <1>6, <1>7, <1>8, SlotsSufficeNext, InvPartsNext

-----------------------------------------------------------------------------
(* Tells of an Optimizer: the region and its restart.                      *)

(* A tell moves the region by one step at most.                            *)
LEMMA UpdatedRegion ==
  ASSUME TypeOK, NEW value \in Worths
  PROVE  /\ Updated(value) \in [length: Int, successes: 0 .. SuccessTolerance - 1,
                                failures: 0 .. FailureTolerance - 1,
                                best: Worths \cup {None}]
         /\ Updated(value).length <= LengthMax
         /\ Updated(value).length >= region.length - 1
  <1> DEFINE S == SuccessTolerance
             F == FailureTolerance
             c == Counted(value)
             R == [length: Int, successes: 0 .. S - 1, failures: 0 .. F - 1,
                   best: Worths \cup {None}]
             l == region.length
  <1>1. S \in Nat /\ S >= 1 /\ F \in Nat /\ F >= 1 /\ LengthMax \in Nat
        /\ LengthMin \in Nat /\ PendingCapacity \in Nat
    BY Numbers
  <1>2. /\ region = [length |-> l, successes |-> region.successes,
                     failures |-> region.failures, best |-> region.best]
        /\ l \in LengthMin - PendingCapacity .. LengthMax
        /\ region.successes \in 0 .. S - 1 /\ region.failures \in 0 .. F - 1
        /\ region.best \in Worths \cup {None}
    BY DEF TypeOK, Region
  <1>3. l \in Int /\ l <= LengthMax /\ best \in Worths /\ best \in Int /\ value \in Int
    BY <1>1, <1>2 DEF TypeOK, Worths
  <1> HIDE DEF l, S, F
  <1>4. CASE region.best = None
    <2>1. Updated(value) = [region EXCEPT !.best = Max({best, value})]
      BY <1>4 DEF Updated
    <2>2. Max({best, value}) \in Worths
      BY <1>3, MaxOfTwo
    <2> DEFINE x == Max({best, value})
    <2> HIDE DEF x
    <2>3. Updated(value) = [length |-> l, successes |-> region.successes,
                            failures |-> region.failures, best |-> x]
      BY <1>2, <2>1 DEF x
    <2>4. x \in Worths
      BY <2>2 DEF x
    <2> QED BY <1>2, <1>3, <2>3, <2>4 DEF S, F, l
  <1>5. CASE region.best # None
    <2>1. Updated(value) = Adapted(c)
      BY <1>5 DEF Updated
    <2>2. /\ c = [length |-> l, successes |-> c.successes, failures |-> c.failures,
                  best |-> c.best]
          /\ c.successes \in 0 .. S /\ c.failures \in 0 .. F
          /\ c.successes = 0 \/ c.failures = 0
          /\ c.best \in Worths \cup {None}
      <3>1. CASE value > region.best
        <4> DEFINE a == region.successes + 1
        <4>0. c = [region EXCEPT !.successes = a, !.failures = 0, !.best = value]
          BY <3>1 DEF Counted
        <4> HIDE DEF a, c
        <4> DEFINE f == region.failures
                   s == region.successes
                   b == region.best
        <4>3. region = [length |-> l, successes |-> s, failures |-> f, best |-> b]
          BY <1>2
        <4> HIDE DEF f, s, b
        <4>1. c = [length |-> l, successes |-> a, failures |-> 0, best |-> value]
          BY <4>0, <4>3
        <4> USE DEF a
        <4>2. a \in 0 .. S /\ 0 \in 0 .. F
          BY <1>1, <1>2
        <4> HIDE DEF a
        <4> QED BY <4>1, <4>2
      <3>2. CASE ~(value > region.best)
        <4> DEFINE a == region.failures + 1
        <4>0. c = [region EXCEPT !.failures = a, !.successes = 0]
          BY <3>2 DEF Counted
        <4> HIDE DEF a, c
        <4> DEFINE f == region.failures
                   s == region.successes
                   b == region.best
        <4>3. region = [length |-> l, successes |-> s, failures |-> f, best |-> b]
          BY <1>2
        <4> HIDE DEF f, s, b
        <4>1. c = [length |-> l, successes |-> 0, failures |-> a, best |-> b]
          BY <4>0, <4>3
        <4> USE DEF a
        <4>2. a \in 0 .. F /\ 0 \in 0 .. S
          BY <1>1, <1>2
        <4> HIDE DEF a
        <4> QED BY <1>2, <4>1, <4>2 DEF b
      <3> QED BY <3>1, <3>2
    <2> HIDE DEF c
    <2>3. c.length = l
      BY <2>2
    <2>4. CASE c.successes >= S
      <3> DEFINE g == IF l < LengthMax THEN l + 1 ELSE l
      <3>1. Adapted(c) = [length |-> g, successes |-> 0, failures |-> c.failures,
                          best |-> c.best]
        BY <2>2, <2>3, <2>4 DEF Adapted, S
      <3>2. g \in Int /\ g <= LengthMax /\ g >= l - 1
        BY <1>1, <1>3
      <3>3. c.failures \in 0 .. F - 1 /\ 0 \in 0 .. S - 1
        BY <1>1, <2>2, <2>4
      <3> HIDE DEF g
      <3> QED BY <2>1, <2>2, <3>1, <3>2, <3>3 DEF S, F, l
    <2>5. CASE ~(c.successes >= S) /\ c.failures >= F
      <3>1. Adapted(c) = [length |-> l - 1, successes |-> c.successes, failures |-> 0,
                          best |-> c.best]
        BY <2>2, <2>3, <2>5 DEF Adapted, S, F
      <3>2. l - 1 \in Int /\ l - 1 <= LengthMax /\ l - 1 >= l - 1
        BY <1>1, <1>3
      <3>3. c.successes \in 0 .. S - 1 /\ 0 \in 0 .. F - 1
        BY <1>1, <2>2, <2>5
      <3> QED BY <2>1, <2>2, <3>1, <3>2, <3>3 DEF S, F, l
    <2>6. CASE ~(c.successes >= S) /\ ~(c.failures >= F)
      <3>1. Adapted(c) = c
        BY <2>6 DEF Adapted, S, F
      <3>2. c.successes \in 0 .. S - 1 /\ c.failures \in 0 .. F - 1
        BY <1>1, <2>2, <2>6
      <3>3. l <= LengthMax /\ l >= l - 1
        BY <1>3
      <3> QED BY <1>3, <2>1, <2>2, <2>3, <3>1, <3>2, <3>3 DEF S, F, l
    <2> QED BY <2>4, <2>5, <2>6
  <1> QED BY <1>4, <1>5

LEMMA TellOptimizerKeepsInv ==
  ASSUME IInv, NEW t \in pending, NEW value \in Worths, TellOptimizer(t, value)
  PROVE  IInv'
  <1> DEFINE accept == Accepts(value)
             u == Updated(value)
  <1>1. /\ Told(t, value, accept) /\ driver = "optimizer"
        /\ best' = Max({best, value})
        /\ IF Restarts(u, pending')
           THEN /\ region' = NewRegion
                /\ history' = <<[slot |-> base', value |-> best']>>
           ELSE /\ region' = u
                /\ history' = Recorded([slot |-> t.slot, value |-> value])
        /\ UNCHANGED <<driver, made>>
    BY DEF TellOptimizer
  <1>2. /\ TypeOK /\ SlotsAreDisjoint /\ BaseIsBest /\ LengthInv
    BY InvParts
  <1>3. best \in Worths /\ best \in Int /\ value \in Int
    BY <1>2, Numbers DEF TypeOK, Worths
  <1>4. accept \in BOOLEAN
    BY DEF Accepts
  <1>5. best' = (IF accept THEN value ELSE best) /\ best' \in Worths
    BY <1>1, <1>3, MaxOfTwo DEF Accepts
  <1>6. /\ u \in [length: Int, successes: 0 .. SuccessTolerance - 1,
                  failures: 0 .. FailureTolerance - 1, best: Worths \cup {None}]
        /\ u.length <= LengthMax /\ u.length >= region.length - 1
    BY <1>2, UpdatedRegion
  <1> HIDE DEF accept, u
  <1>7. TrialsInv' /\ BaseInv'
    BY <1>1, <1>4, ToldKeepsTrials
  <1>8. /\ pending' \subseteq Trial /\ IsFiniteSet(pending') /\ Cardinality(pending) \in Nat
        /\ Cardinality(pending') \in Nat
        /\ Cardinality(pending') = Cardinality(pending) - 1
    BY <1>1, <1>4, ToldTrials
  <1>9. /\ rows' \in [Slots -> Rows \cup {None, Mixed}]
        /\ worth' \in [Rows -> Worths \cup {None}]
    BY <1>1, <1>4, ToldRows
  <1>10. base' \in Slots /\ rows'[base'] \in Rows /\ worth'[rows'[base']] = best'
    <2>1. worth[rows[base]] = best
      BY <1>1, <1>2 DEF BaseIsBest
    <2> QED BY <1>1, <1>4, <1>5, <2>1, ToldBase
  <1>11. BaseIsBest'
    BY <1>10 DEF BaseIsBest
  <1>12. /\ history' \in Seq(Record) /\ Len(history') <= Capacity
         /\ SlotsAreDisjoint' /\ RowsAreWhatWasTold'
    <2>1. CASE Restarts(u, pending')
      <3> DEFINE r == [slot |-> base', value |-> best']
      <3>1. history' = <<r>> /\ pending' = {}
        BY <1>1, <2>1 DEF Restarts
      <3>2. r \in Record /\ r.slot = base' /\ r.value = best'
        BY <1>5, <1>10 DEF Record
      <3> HIDE DEF r
      <3>3. history' \in Seq(Record) /\ Len(history') = 1 /\ DOMAIN history' = {1}
            /\ history'[1] = r
        BY <3>1, <3>2
      <3>4. SlotsAreDisjoint'
        BY <3>1, <3>3 DEF SlotsAreDisjoint
      <3>5. RowsAreWhatWasTold'
        BY <1>10, <3>2, <3>3 DEF RowsAreWhatWasTold
      <3> QED BY <3>3, <3>4, <3>5, Numbers
    <2>2. CASE ~Restarts(u, pending')
      BY <1>1, <1>4, <2>2, ToldHistory
    <2> QED BY <2>1, <2>2
  <1>13. /\ region' \in [length: Int, successes: 0 .. SuccessTolerance - 1,
                         failures: 0 .. FailureTolerance - 1, best: Worths \cup {None}]
         /\ region'.length \in Int /\ region'.length <= LengthMax
         /\ region'.length >= LengthMin - PendingCapacity + Cardinality(pending')
         /\ pending' = {} => region'.length >= LengthMin
    <2>1. CASE Restarts(u, pending')
      <3>1. region' = NewRegion /\ pending' = {}
        BY <1>1, <2>1 DEF Restarts
      <3>2. Cardinality(pending') = 0
        BY <3>1, FS_EmptySet
      <3>3. region'.length = LengthInit
        BY <3>1 DEF NewRegion
      <3>4. 0 \in 0 .. SuccessTolerance - 1 /\ 0 \in 0 .. FailureTolerance - 1
        BY Numbers
      <3>5. region' \in [length: Int, successes: 0 .. SuccessTolerance - 1,
                         failures: 0 .. FailureTolerance - 1, best: Worths \cup {None}]
        BY <3>1, <3>4, Numbers DEF NewRegion
      <3> QED BY <3>2, <3>3, <3>5, Numbers
    <2>2. CASE ~Restarts(u, pending')
      <3>1. region' = u
        BY <1>1, <2>2
      <3>2. u.length \in Int
        BY <1>6
      <3>3. region.length \in Int
            /\ region.length >= LengthMin - PendingCapacity + Cardinality(pending)
        BY <1>2, Numbers DEF LengthInv, TypeOK, Region
      <3>4. u.length >= LengthMin - PendingCapacity + Cardinality(pending')
        BY <1>6, <1>8, <3>2, <3>3, Numbers
      <3>5. pending' = {} => u.length >= LengthMin
        BY <2>2, <3>2, Numbers DEF Restarts
      <3> QED BY <1>6, <3>1, <3>2, <3>4, <3>5
    <2> QED BY <2>1, <2>2
  <1>14. region' \in Region
    <2> DEFINE l == region'.length
    <2>1. region' = [length |-> l, successes |-> region'.successes,
                     failures |-> region'.failures, best |-> region'.best]
          /\ region'.successes \in 0 .. SuccessTolerance - 1
          /\ region'.failures \in 0 .. FailureTolerance - 1
          /\ region'.best \in Worths \cup {None}
      BY <1>13
    <2>2. l \in LengthMin - PendingCapacity .. LengthMax
      BY <1>8, <1>13, Numbers
    <2> HIDE DEF l
    <2> QED BY <2>1, <2>2 DEF Region
  <1>15. TypeOK'
    <2>1. Cardinality(pending') <= PendingCapacity
      BY <1>2, <1>8, Numbers DEF TypeOK
    <2> QED BY <1>1, <1>2, <1>5, <1>8, <1>9, <1>10, <1>12, <1>14, <2>1 DEF TypeOK
  <1>16. LengthInv'
    <2>1. driver' # "owner"
      BY <1>1
    <2> QED BY <1>13, <2>1 DEF LengthInv
  <1> QED BY <1>7, <1>11, <1>12, <1>15, <1>16, SlotsSufficeNext, InvPartsNext

-----------------------------------------------------------------------------
(* Replacements.                                                           *)

LEMMA ReplacedSlots ==
  ASSUME TypeOK
  PROVE  /\ \A i \in 1 .. Capacity : Replaced[i] \in Slots /\ Replaced[i] # base
         /\ \A i, j \in 1 .. Capacity : Replaced[i] = Replaced[j] => i = j
  <1>1. base \in Nat /\ Capacity \in Nat /\ PendingCapacity \in Nat
    BY Numbers DEF TypeOK, Slots
  <1>2. \A i \in 1 .. Capacity : i \in 1 .. Capacity + PendingCapacity
    BY <1>1
  <1>3. \A i \in 1 .. Capacity : Replaced[i] = IF i <= base THEN i - 1 ELSE i
    BY <1>2 DEF Replaced
  <1> QED BY <1>1, <1>3 DEF Slots

LEMMA LoadedKeepsInv ==
  ASSUME IInv, driver = "owner", pending = {}, NEW n \in 0 .. Capacity,
         NEW values \in Values(n), made + Len(values) <= MaxRows, Loaded(values)
  PROVE  IInv'
  <1>1. /\ TypeOK /\ SlotsAreDisjoint /\ RowsAreWhatWasTold /\ BaseInv /\ LengthInv
    BY InvParts
  <1>2. n \in Nat /\ n <= Capacity /\ DOMAIN values = 1 .. n /\ Len(values) = n
        /\ \A i \in 1 .. n : values[i] \in Worths
    <2>1. n \in Nat /\ n <= Capacity
      BY Numbers
    <2>2. values \in [1 .. n -> Worths]
      BY DEF Values
    <2>3. values \in Seq(Worths)
      BY <2>1, <2>2
    <2> QED BY <2>1, <2>2, <2>3
  <1>3. made \in Nat /\ made' = made + n /\ made + n \in Rows
    BY <1>1, <1>2, Numbers DEF Loaded, TypeOK, Rows
  <1>4. UNCHANGED <<driver, base, pending, best, region>>
    BY DEF Loaded
  <1>5. /\ \A i \in 1 .. n : Replaced[i] \in Slots /\ Replaced[i] # base
        /\ \A i, j \in 1 .. n : Replaced[i] = Replaced[j] => i = j
    BY <1>1, <1>2, ReplacedSlots, Numbers
  <1>6. ASSUME NEW s \in Slots
        PROVE  rows'[s] = IF \E i \in 1 .. n : Replaced[i] = s
                          THEN made + (CHOOSE i \in 1 .. n : Replaced[i] = s)
                          ELSE rows[s]
    BY <1>2 DEF Loaded
  <1>7. ASSUME NEW i \in 1 .. n
        PROVE  rows'[Replaced[i]] = made + i /\ made + i \in Rows
    <2>1. (CHOOSE j \in 1 .. n : Replaced[j] = Replaced[i]) = i
      BY <1>5
    <2>2. made + i \in Rows
      BY <1>2, <1>3, Numbers DEF Rows
    <2> QED BY <1>5, <1>6, <2>1, <2>2
  <1>8. ASSUME NEW r \in Rows
        PROVE  worth'[r] = IF r - made \in 1 .. n THEN values[r - made] ELSE worth[r]
    BY <1>2 DEF Loaded
  <1>9. /\ DOMAIN history' = 1 .. n
        /\ \A i \in 1 .. n : history'[i] = [slot |-> Replaced[i], value |-> values[i]]
        /\ history' = [i \in 1 .. n |-> history'[i]]
    BY <1>2 DEF Loaded
  <1>10. \A i \in 1 .. n : history'[i].slot = Replaced[i] /\ history'[i].value = values[i]
    BY <1>9
  <1>11. history' \in Seq(Record) /\ Len(history') = n
    <2>1. \A i \in 1 .. n : history'[i] \in Record
      BY <1>2, <1>5, <1>9 DEF Record
    <2>2. history' \in [1 .. n -> Record]
      BY <1>9, <2>1
    <2> QED BY <1>2, <2>2
  <1>12. rows' \in [Slots -> Rows \cup {None, Mixed}]
    <2>1. ASSUME NEW s \in Slots
          PROVE  rows'[s] \in Rows \cup {None, Mixed}
      <3>1. CASE \E i \in 1 .. n : Replaced[i] = s
        BY <1>7, <3>1
      <3>2. CASE ~ \E i \in 1 .. n : Replaced[i] = s
        BY <1>1, <1>6, <3>2 DEF TypeOK
      <3> QED BY <3>1, <3>2
    <2>2. rows' = [s \in Slots |-> rows'[s]]
      BY DEF Loaded
    <2> QED BY <2>1, <2>2
  <1>13. worth' \in [Rows -> Worths \cup {None}]
    <2>1. \A r \in Rows : worth'[r] \in Worths \cup {None}
      BY <1>1, <1>2, <1>8 DEF TypeOK
    <2>2. worth' = [r \in Rows |-> worth'[r]]
      BY DEF Loaded
    <2> QED BY <2>1, <2>2
  <1>14. TypeOK'
    BY <1>1, <1>2, <1>3, <1>4, <1>11, <1>12, <1>13 DEF TypeOK
  <1>15. SlotsAreDisjoint'
    BY <1>4, <1>5, <1>9, <1>10 DEF SlotsAreDisjoint
  <1>16. RowsAreWhatWasTold'
    <2>1. ASSUME NEW i \in 1 .. n
          PROVE  worth'[made + i] = values[i]
      <3>1. (made + i) - made = i
        BY <1>2, <1>3
      <3> QED BY <1>7, <1>8, <3>1
    <2> QED BY <1>7, <1>9, <1>10, <2>1 DEF RowsAreWhatWasTold
  <1>17. BaseInv'
    <2>1. rows[base] \in Rows /\ worth[rows[base]] # None
      BY <1>1 DEF BaseInv
    <2>2. rows'[base'] = rows[base]
      <3>1. base \in Slots
        BY <1>1 DEF TypeOK
      <3> QED BY <1>4, <1>5, <1>6, <3>1
    <2>3. rows[base] - made \notin 1 .. n
      <3>1. ~(rows[base] > made)
        BY <1>1, <2>1 DEF BaseInv
      <3>2. rows[base] \in Int
        BY <2>1 DEF Rows
      <3> QED BY <1>2, <1>3, <3>1, <3>2
    <2>4. \A r \in Rows : r > made' => worth'[r] = None
      <3>1. \A r \in Rows : r > made + n => r > made /\ r - made \notin 1 .. n
        BY <1>2, <1>3 DEF Rows
      <3> QED BY <1>1, <1>3, <1>8, <3>1 DEF BaseInv
    <2> QED BY <1>4, <1>8, <2>1, <2>2, <2>3, <2>4 DEF BaseInv
  <1>18. BaseIsBest' /\ TrialsInv'
    BY <1>4 DEF BaseIsBest, TrialsInv
  <1>19. LengthInv'
    BY <1>1, <1>4 DEF LengthInv
  <1> QED BY <1>14, <1>15, <1>16, <1>17, <1>18, <1>19, SlotsSufficeNext, InvPartsNext

-----------------------------------------------------------------------------
(* The theorems.                                                           *)

LEMMA InitHolds ==
  Init => IInv
  <1>1. SUFFICES ASSUME Init PROVE IInv
    BY <1>1
  <1>2. PICK v \in Worths :
          /\ history = <<[slot |-> 0, value |-> v]>>
          /\ worth = [r \in Rows |-> IF r = 0 THEN v ELSE None]
          /\ best = v
    BY <1>1 DEF Init
  <1>3. /\ driver \in {"owner", "optimizer"} /\ base = 0 /\ pending = {} /\ made = 0
        /\ rows = [s \in Slots |-> IF s = 0 THEN 0 ELSE None] /\ region = NewRegion
    BY <1>1 DEF Init
  <1>4. 0 \in Slots /\ 0 \in Rows /\ v # None
    BY Numbers DEF Slots, Rows, Worths, None
  <1> DEFINE r == [slot |-> 0, value |-> v]
  <1>5. r \in Record /\ r.slot = 0 /\ r.value = v
    BY <1>4 DEF Record
  <1>6. history = <<r>>
    BY <1>2
  <1> HIDE DEF r
  <1>7. history \in Seq(Record) /\ Len(history) = 1 /\ DOMAIN history = {1} /\ history[1] = r
    BY <1>5, <1>6
  <1>8. rows[0] = 0 /\ worth[0] = v
    BY <1>2, <1>3, <1>4
  <1>9. region \in Region /\ region.length = LengthInit
    <2>1. LengthInit \in LengthMin - PendingCapacity .. LengthMax
          /\ 0 \in 0 .. SuccessTolerance - 1 /\ 0 \in 0 .. FailureTolerance - 1
      BY Numbers
    <2> QED BY <1>3, <2>1 DEF NewRegion, Region
  <1>10. Cardinality(pending) = 0
    BY <1>3, FS_EmptySet
  <1>11. TypeOK
    <2>1. rows \in [Slots -> Rows \cup {None, Mixed}]
      BY <1>3, <1>4
    <2>2. worth \in [Rows -> Worths \cup {None}]
      BY <1>2
    <2> QED BY <1>2, <1>3, <1>4, <1>7, <1>9, <1>10, <2>1, <2>2, Numbers DEF TypeOK
  <1>12. SlotsAreDisjoint
    BY <1>3, <1>7 DEF SlotsAreDisjoint
  <1>13. RowsAreWhatWasTold
    BY <1>4, <1>5, <1>7, <1>8 DEF RowsAreWhatWasTold
  <1>14. BaseIsBest
    BY <1>2, <1>3, <1>4, <1>8 DEF BaseIsBest
  <1>15. TrialsInv
    BY <1>3 DEF TrialsInv
  <1>16. BaseInv
    <2>1. \A q \in Rows : q > 0 => worth[q] = None
      BY <1>2
    <2> QED BY <1>3, <1>4, <1>8, <2>1 DEF BaseInv
  <1>17. LengthInv
    BY <1>9, <1>10, Numbers DEF LengthInv
  <1> QED BY <1>11, <1>12, <1>13, <1>14, <1>15, <1>16, <1>17, SlotsAlwaysSuffice, InvParts

LEMMA StandingKeepsInv ==
  ASSUME IInv, UNCHANGED vars
  PROVE  IInv'
  <1>1. /\ driver' = driver /\ rows' = rows /\ base' = base /\ history' = history
        /\ pending' = pending /\ made' = made /\ worth' = worth /\ best' = best
        /\ region' = region
    BY DEF vars
  <1>2. /\ TypeOK /\ SlotsAreDisjoint /\ RowsAreWhatWasTold /\ BaseIsBest /\ TrialsInv
        /\ BaseInv /\ LengthInv
    BY InvParts
  <1>3. TypeOK'
    BY <1>1, <1>2 DEF TypeOK
  <1>4. SlotsAreDisjoint' /\ RowsAreWhatWasTold' /\ BaseIsBest'
    BY <1>1, <1>2 DEF SlotsAreDisjoint, SlotsOf, RowsAreWhatWasTold, BaseIsBest
  <1>5. TrialsInv' /\ BaseInv' /\ LengthInv'
    BY <1>1, <1>2 DEF TrialsInv, BaseInv, LengthInv
  <1> QED BY <1>3, <1>4, <1>5, SlotsSufficeNext, InvPartsNext

LEMMA StepInv ==
  IInv /\ [Next]_vars => IInv'
  <1> SUFFICES ASSUME IInv, [Next]_vars
               PROVE  IInv'
    OBVIOUS
  <1>1. CASE \E lazy \in BOOLEAN : Ask(lazy)
    BY <1>1, AskKeepsInv
  <1>2. CASE \E arms \in 1 .. PendingCapacity : AskBatch(arms)
    BY <1>2, AskBatchKeepsInv
  <1>3. CASE \E t \in pending : Materialize(t)
    BY <1>3, MaterializeKeepsInv
  <1>4. CASE \E t \in pending, v \in Worths, accept \in BOOLEAN : TellSearch(t, v, accept)
    BY <1>4, TellSearchKeepsInv
  <1>5. CASE \E t \in pending, v \in Worths : TellOptimizer(t, v)
    BY <1>5, TellOptimizerKeepsInv
  <1>6. CASE \E n \in 1 .. Capacity : \E values \in Values(n) : Replace(values)
    <2>1. PICK n \in 1 .. Capacity : \E values \in Values(n) : Replace(values)
      BY <1>6
    <2>2. n \in 0 .. Capacity
      BY Numbers
    <2> QED BY <2>1, <2>2, LoadedKeepsInv DEF Replace
  <1>7. CASE \E n \in 0 .. Capacity - 1 : \E values \in Values(n) : ReplaceFailed(values)
    <2>1. PICK n \in 0 .. Capacity - 1 : \E values \in Values(n) : ReplaceFailed(values)
      BY <1>7
    <2>2. n \in 0 .. Capacity
      BY Numbers
    <2> QED BY <2>1, <2>2, LoadedKeepsInv DEF ReplaceFailed
  <1>8. CASE Spent
    BY <1>8, StandingKeepsInv DEF Spent
  <1>9. CASE UNCHANGED vars
    BY <1>9, StandingKeepsInv
  <1> QED BY <1>1, <1>2, <1>3, <1>4, <1>5, <1>6, <1>7, <1>8, <1>9 DEF Next

(* The inductive invariant: the pool, its rows and the base, with what     *)
(* they rest on.                                                           *)
THEOREM Invariance ==
  Spec => []IInv
  BY InitHolds, StepInv, PTL DEF Spec

(* However asks, lazy rows, tells, restarts and replacements follow each   *)
(* other, no slot of the pool is shared, and a batch of the greatest size  *)
(* always finds its slots (trials.rs, free_slot).                          *)
THEOREM PoolIsOK ==
  Spec => []PoolOK
  <1>1. IInv => PoolOK
    BY DEF IInv
  <1> QED BY <1>1, Invariance, PTL

(* Every record of the history scores the row that lies in its slot        *)
(* (trials.rs, tell, materialize_pending and replace_history).             *)
THEOREM RowsStayTold ==
  Spec => []RowsAreWhatWasTold
  <1>1. IInv => RowsAreWhatWasTold
    BY DEF IInv
  <1> QED BY <1>1, Invariance, PTL

(* The base of an Optimizer is the row that earned the best value, over    *)
(* every order of tells and every restart (search.rs, tell).               *)
THEOREM BaseStaysBest ==
  Spec => []BaseIsBest
  <1>1. IInv => BaseIsBest
    BY DEF IInv
  <1> QED BY <1>1, Invariance, PTL
=============================================================================
