--------------------------- MODULE Optimizer_proofs ---------------------------
(***************************************************************************)
(* The incumbent and the region of Optimizer, for batches, tolerances,     *)
(* lengths and values of any size.  IInv is inductive: a tell that commits *)
(* its rows leaves tracker and incumbent at the greatest value there is,   *)
(* and any other leaves a count that shows it did not.                     *)
(***************************************************************************)
EXTENDS Optimizer, TLAPS

(* The numbers behind the constants.                                       *)
LEMMA Numbers ==
  /\ NumInit \in Nat /\ MaxWorth \in Nat
  /\ ToleranceRows \in Nat /\ ToleranceRows >= 1
  /\ SuccessTolerance \in Nat /\ SuccessTolerance >= 1
  /\ MaxBatch \in Nat /\ MaxLag \in Nat /\ MaxLag >= 1 /\ MaxBatch < MaxLag
  /\ LengthInit \in Nat /\ LengthMin \in Nat /\ LengthMax \in Nat
  /\ LengthMin <= LengthInit /\ LengthInit <= LengthMax
  /\ Values = -1 .. MaxWorth + 1
  /\ Worths \subseteq Values /\ None \in Values
  BY OptimizerAssumption DEF Values, Worths, None, Infinite

(* A batch leaves the region at least one failure, and at most as many as  *)
(* it allows to single rows.                                               *)
LEMMA ToleranceBounds ==
  ASSUME NEW n \in Batches
  PROVE  FailureTolerance(n) \in 1 .. ToleranceRows
  <1> DEFINE a == ToleranceRows + n - 1
             q == a \div n
  <1>1. n \in Nat /\ n >= 1 /\ a \in Nat
    BY Numbers DEF Batches
  <1>2. q \in Int /\ n * q <= a /\ a < n * (q + 1)
    BY <1>1 DEF q
  <1> HIDE DEF q
  <1>3. q >= 1
    BY Numbers, <1>1, <1>2
  <1>4. q <= ToleranceRows
    BY Numbers, <1>1, <1>2
  <1> QED
    BY <1>2, <1>3, <1>4, Numbers DEF q, FailureTolerance

-----------------------------------------------------------------------------
(* The region.                                                             *)

(* A region that was just updated, before it is restarted.                 *)
UpdatedRegion == [length: LengthMin - 1 .. LengthMax,
                  successes: 0 .. SuccessTolerance - 1,
                  failures: 0 .. ToleranceRows - 1,
                  best: Values]

LEMMA NewRegionType == NewRegion \in Region /\ NewRegion.best = None
  BY Numbers DEF NewRegion, Region

(* One update moves the length by one step at most, keeps both counters    *)
(* below their tolerances, and never contracts a region that improved.     *)
LEMMA UpdateOfRegion ==
  ASSUME NEW r \in Region, NEW n \in Batches, NEW y \in Values
  PROVE  /\ Updated(r, n, y) \in UpdatedRegion
         /\ Updated(r, n, y).best = IF r.best = None THEN y ELSE Greater(r.best, y)
         /\ r.best # None /\ y > r.best => Updated(r, n, y).length >= r.length
  <1> DEFINE u == Updated(r, n, y)
             c == Counted(r, y)
             a == Adapted(c, n)
  <1>1. /\ r.length \in LengthMin .. LengthMax
        /\ r.successes \in 0 .. SuccessTolerance - 1
        /\ r.failures \in 0 .. ToleranceRows - 1
        /\ r.best \in Values
    BY DEF Region
  <1>2. FailureTolerance(n) \in 1 .. ToleranceRows
    BY ToleranceBounds
  <1>3. CASE r.best = None
    <2>1. u = [r EXCEPT !.best = y]
      BY <1>3 DEF Updated
    <2>2. r.length \in LengthMin - 1 .. LengthMax
      BY <1>1, Numbers
    <2>3. u \in UpdatedRegion
      BY <2>1, <1>1, <2>2 DEF Region, UpdatedRegion
    <2> QED BY <2>1, <2>3, <1>3 DEF Region
  <1>4. CASE r.best # None
    <2>1. u = [a EXCEPT !.best = Greater(a.best, y)]
      BY <1>4 DEF Updated
    <2>2. /\ c \in [length: LengthMin .. LengthMax, successes: 0 .. SuccessTolerance,
                    failures: 0 .. ToleranceRows, best: Values]
          /\ c.length = r.length /\ c.best = r.best
          /\ y > r.best => c.failures = 0
          /\ c.successes > 0 => c.failures = 0
      <3>1. CASE Improves(r, y)
        <4>1. c = [r EXCEPT !.successes = r.successes + 1, !.failures = 0]
          BY <3>1 DEF Counted
        <4>2. r.successes + 1 \in 0 .. SuccessTolerance /\ 0 \in 0 .. ToleranceRows
          BY <1>1, Numbers
        <4> QED BY <4>1, <4>2, <1>1 DEF Region
      <3>2. CASE ~Improves(r, y)
        <4>1. c = [r EXCEPT !.failures = r.failures + 1, !.successes = 0]
          BY <3>2 DEF Counted
        <4>2. r.failures + 1 \in 0 .. ToleranceRows /\ 0 \in 0 .. SuccessTolerance
          BY <1>1, Numbers
        <4>3. c \in [length: LengthMin .. LengthMax, successes: 0 .. SuccessTolerance,
                     failures: 0 .. ToleranceRows, best: Values]
          BY <4>1, <4>2, <1>1 DEF Region
        <4>4. c.length = r.length /\ c.best = r.best /\ c.successes = 0
          BY <4>1 DEF Region
        <4>5. ~(y > r.best)
          BY <3>2 DEF Improves
        <4> QED BY <4>3, <4>4, <4>5
      <3> QED BY <3>1, <3>2
    <2> HIDE DEF c
    <2>3. a \in UpdatedRegion /\ a.best = c.best /\ (c.failures = 0 => a.length >= c.length)
      <3>1. CASE c.successes >= SuccessTolerance
        <4>1. a = [c EXCEPT !.length = IF c.length < LengthMax THEN c.length + 1 ELSE c.length,
                            !.successes = 0]
          BY <3>1 DEF Adapted
        <4>2. c.failures = 0
          BY <2>2, <3>1, Numbers
        <4>3. (IF c.length < LengthMax THEN c.length + 1 ELSE c.length)
                \in LengthMin - 1 .. LengthMax
          BY <2>2, Numbers
        <4>4. a.length >= c.length /\ a.best = c.best
          BY <4>1, <2>2, Numbers
        <4>5. 0 \in 0 .. SuccessTolerance - 1 /\ 0 \in 0 .. ToleranceRows - 1
          BY Numbers
        <4>6. a \in UpdatedRegion
          BY <4>1, <4>2, <4>3, <4>5, <2>2 DEF UpdatedRegion
        <4> QED BY <4>4, <4>6
      <3>2. CASE ~(c.successes >= SuccessTolerance) /\ c.failures >= FailureTolerance(n)
        <4>1. a = [c EXCEPT !.length = c.length - 1, !.failures = 0]
          BY <3>2 DEF Adapted
        <4>2. c.length - 1 \in LengthMin - 1 .. LengthMax
              /\ c.successes \in 0 .. SuccessTolerance - 1
              /\ 0 \in 0 .. ToleranceRows - 1
          BY <2>2, <3>2, Numbers
        <4>3. c.failures # 0
          BY <3>2, <1>2, <2>2, Numbers
        <4>4. a \in UpdatedRegion
          BY <4>1, <4>2, <2>2 DEF UpdatedRegion
        <4> QED BY <4>1, <4>3, <4>4, <2>2
      <3>3. CASE ~(c.successes >= SuccessTolerance) /\ ~(c.failures >= FailureTolerance(n))
        <4>1. a = c
          BY <3>3 DEF Adapted
        <4>2. c.successes \in 0 .. SuccessTolerance - 1 /\ c.failures \in 0 .. ToleranceRows - 1
              /\ c.length \in LengthMin - 1 .. LengthMax
          BY <3>3, <1>2, <2>2, Numbers
        <4>3. c \in UpdatedRegion
          BY <4>2, <2>2 DEF UpdatedRegion
        <4> QED BY <4>1, <4>3, <2>2, Numbers
      <3> QED BY <3>1, <3>2, <3>3
    <2> HIDE DEF a
    <2>4. Greater(a.best, y) \in Values
      BY <2>3 DEF Greater, UpdatedRegion
    <2>5. u \in UpdatedRegion /\ u.best = Greater(a.best, y) /\ u.length = a.length
      BY <2>1, <2>3, <2>4 DEF UpdatedRegion
    <2> QED BY <2>2, <2>3, <2>5, <1>4
  <1> QED BY <1>3, <1>4

-----------------------------------------------------------------------------
(* The rows of a tell.                                                     *)

(* A tell that commits its rows makes the greatest value the incumbent.    *)
LEMMA Committed ==
  ASSUME IInv, NEW n \in Batches, NEW y \in Values,
         Added(n, y), Tracked(n, y), Picked
  PROVE  /\ top' \in Values /\ top <= top' /\ y <= top'
         /\ known' = top' /\ incumbent' = top' /\ unknown' = 0
         /\ hidden' = 0 /\ hiddenTop' = None
  <1>1. /\ top \in Values /\ hiddenTop \in Values /\ known \in Values
        /\ hidden \in Nat /\ unknown \in Nat
    BY Numbers DEF IInv, TypeOK
  <1>2. top' \in Values /\ top <= top' /\ y <= top'
    BY <1>1, Numbers DEF Added, Greater
  <1>3. CASE unknown + hidden = 0
    <2>1. hiddenTop = None /\ known = top
      BY <1>3, <1>1 DEF IInv, CountsInv, IncumbentIsBest
    <2>2. top' = Greater(known, y)
      BY <2>1, <1>1, Numbers DEF Added, Greater, None
    <2> QED BY <1>2, <1>3, <2>2 DEF Added, Tracked, Picked
  <1>4. CASE unknown + hidden # 0
    BY <1>2, <1>4 DEF Added, Tracked, Picked
  <1> QED BY <1>3, <1>4

(* The rows a region has not counted: none if it is fresh, some if it is   *)
(* not, and only those of the batch if it had counted all before.          *)
LEMMA LagOfBatch ==
  ASSUME IInv, NEW n \in Batches
  PROVE  /\ Lag(n) \in 0 .. MaxLag
         /\ fresh => Lag(n) = 0
         /\ ~fresh => Lag(n) >= 1
         /\ ~fresh /\ Lag(n) = n => unseen = 0 /\ hidden = 0
  <1>1. n \in Nat /\ n >= 1 /\ n < MaxLag /\ MaxLag \in Nat
    BY Numbers DEF Batches
  <1>2. unseen \in Nat /\ hidden \in Nat
    BY Numbers DEF IInv, TypeOK
  <1> QED BY <1>1, <1>2 DEF Lag, Capped

(* Rows that were stored and not committed show in a count.                *)
LEMMA CappedCount ==
  ASSUME NEW k \in Nat, NEW n \in Batches
  PROVE  Capped(k + n) \in 1 .. MaxLag
  <1>1. n \in Nat /\ n >= 1 /\ MaxLag \in Nat /\ MaxLag >= 1
    BY Numbers DEF Batches
  <1> QED BY <1>1 DEF Capped

-----------------------------------------------------------------------------
(* IInv is inductive.                                                      *)

LEMMA InitInv == Init => IInv
  <1> SUFFICES ASSUME Init PROVE IInv
    OBVIOUS
  <1>1. region \in Region /\ region.best = None
    BY NewRegionType DEF Init
  <1>2. {top, hiddenTop, known, incumbent} \subseteq Values /\ last.worth \in Values
    BY Numbers DEF Init
  <1>3. completed \in 0 .. NumInit /\ {hidden, unknown, unseen} \subseteq 0 .. MaxLag
    BY Numbers DEF Init
  <1>4. last \in [worth: Values, ok: BOOLEAN, restarted: BOOLEAN]
    BY <1>2 DEF Init
  <1>5. TypeOK
    BY <1>1, <1>2, <1>3, <1>4 DEF Init, TypeOK
  <1>6. IncumbentIsBest /\ BestIsIncumbent /\ CountsInv
    BY <1>1, Numbers DEF Init, IncumbentIsBest, BestIsIncumbent, CountsInv, None
  <1> QED BY <1>5, <1>6 DEF IInv

(* What a rejected tell leaves of the last one.                            *)
LEMMA RejectedType ==
  ASSUME TypeOK, Rejected
  PROVE  last' \in [worth: Values, ok: BOOLEAN, restarted: BOOLEAN]
  BY DEF TypeOK, Rejected

(* A batch of the initialization phase.                                    *)
LEMMA InitToldInv ==
  ASSUME IInv, NEW n \in Batches, NEW y \in Values, NEW flushed \in BOOLEAN,
         Added(n, y), Tracked(n, y), Picked, inInit, InitTold(n, flushed)
  PROVE  IInv'
  <1>1. /\ top' \in Values /\ known' = top' /\ incumbent' = top' /\ unknown' = 0
        /\ hidden' = 0 /\ hiddenTop' = None
    BY Committed
  <1>2. n \in Nat /\ completed \in 0 .. NumInit
    BY Numbers DEF Batches, IInv, TypeOK
  <1>3. completed' \in 0 .. NumInit /\ inInit' \in BOOLEAN
    BY <1>2, Numbers DEF InitTold
  <1>4. last' \in [worth: Values, ok: BOOLEAN, restarted: BOOLEAN]
    BY <1>1 DEF InitTold
  <1>5. fresh' = fresh /\ unseen' = unseen /\ region' = region
    BY DEF InitTold
  <1>6. fresh /\ region.best = None
    BY DEF IInv, CountsInv
  <1>7. {hidden', unknown', unseen'} \subseteq 0 .. MaxLag
    BY <1>1, <1>5, Numbers DEF IInv, TypeOK
  <1>8. TypeOK'
    BY <1>1, <1>3, <1>4, <1>5, <1>7, Numbers DEF TypeOK, IInv
  <1>9. (IncumbentIsBest /\ BestIsIncumbent /\ CountsInv)'
    BY <1>1, <1>5, <1>6, Numbers DEF IncumbentIsBest, BestIsIncumbent, CountsInv
  <1> QED BY <1>8, <1>9 DEF IInv

(* A batch of the region phase.                                            *)
LEMMA RegionToldInv ==
  ASSUME IInv, NEW n \in Batches, NEW y \in Values, NEW flushed \in BOOLEAN,
         Added(n, y), Tracked(n, y), Picked, ~inInit, RegionTold(n, flushed)
  PROVE  IInv'
  <1> DEFINE r      == Updated(region, n, incumbent')
             placed == fresh \/ Lag(n) = n
  <1>1. /\ top' \in Values /\ top <= top' /\ known' = top' /\ incumbent' = top'
        /\ unknown' = 0 /\ hidden' = 0 /\ hiddenTop' = None
    BY Committed
  <1>2. region \in Region /\ incumbent \in Values /\ top \in Values
    BY DEF IInv, TypeOK
  <1>3. /\ r \in UpdatedRegion
        /\ r.best = IF region.best = None THEN incumbent' ELSE Greater(region.best, incumbent')
    BY <1>1, <1>2, UpdateOfRegion
  <1> HIDE DEF r
  <1>4. /\ fresh' = (fresh /\ ~placed)
        /\ unseen' = IF placed THEN 0 ELSE Lag(n)
        /\ region' = IF ~placed THEN region ELSE IF NeedsRestart(r) THEN NewRegion ELSE r
        /\ last' = [worth |-> incumbent', ok |-> placed /\ flushed,
                    restarted |-> placed /\ NeedsRestart(r)]
        /\ inInit' = inInit /\ completed' = completed
    BY DEF RegionTold, r
  <1>5. region' \in Region
    <2>1. ~NeedsRestart(r) => r.length \in LengthMin .. LengthMax
      BY <1>3, Numbers DEF NeedsRestart, UpdatedRegion
    <2>2. ~NeedsRestart(r) => r \in Region
      BY <2>1, <1>3 DEF Region, UpdatedRegion
    <2> QED BY <1>2, <1>4, <2>2, NewRegionType
  <1>6. last' \in [worth: Values, ok: BOOLEAN, restarted: BOOLEAN]
    <2>1. NeedsRestart(r) \in BOOLEAN /\ placed \in BOOLEAN
      BY DEF NeedsRestart, IInv, TypeOK
    <2> QED BY <1>1, <1>4, <2>1
  <1>7. ~fresh'
    BY <1>4
  <1>8. Lag(n) \in 0 .. MaxLag /\ (~fresh => Lag(n) >= 1)
    BY LagOfBatch
  <1>9. unseen' \in 0 .. MaxLag /\ (~placed => unseen' # 0)
    BY <1>4, <1>8, Numbers
  <1>10. TypeOK'
    BY <1>1, <1>4, <1>5, <1>6, <1>7, <1>9, Numbers DEF TypeOK, IInv
  <1>11. BestIsIncumbent'
    <2>1. CASE ~placed
      BY <2>1, <1>9 DEF BestIsIncumbent
    <2>2. CASE placed /\ NeedsRestart(r)
      BY <2>2, <1>4, NewRegionType DEF BestIsIncumbent
    <2>3. CASE placed /\ ~NeedsRestart(r)
      <3>1. region' = r
        BY <2>3, <1>4
      <3>2. region.best # None => region.best = incumbent
        BY <2>3, LagOfBatch DEF IInv, CountsInv, BestIsIncumbent
      <3>3. incumbent <= incumbent'
        BY <1>1, <1>2, Numbers DEF IInv, CountsInv
      <3>4. r.best = incumbent'
        BY <1>1, <1>2, <1>3, <3>2, <3>3, Numbers DEF Greater
      <3> QED BY <3>1, <3>4 DEF BestIsIncumbent
    <2> QED BY <2>1, <2>2, <2>3
  <1>12. (IncumbentIsBest /\ CountsInv)'
    BY <1>1, <1>4, <1>7, Numbers DEF IncumbentIsBest, CountsInv
  <1> QED BY <1>10, <1>11, <1>12 DEF IInv

(* Rows the surrogate keeps and the optimizer does not commit.             *)
LEMMA NotFittedInv ==
  ASSUME IInv, NEW n \in Batches, NEW y \in Values, NotFitted(n, y)
  PROVE  IInv'
  <1>1. /\ top \in Values /\ hiddenTop \in Values /\ incumbent \in Values
        /\ hidden \in Nat /\ unknown \in Nat
    BY Numbers DEF IInv, TypeOK
  <1>2. top' \in Values /\ top <= top' /\ hidden' = 0 /\ hiddenTop' = None
    BY <1>1, Numbers DEF NotFitted, Added, Greater
  <1>3. unknown' \in 1 .. MaxLag
    <2>1. unknown + n + hidden = (unknown + hidden) + n /\ unknown + hidden \in Nat
      BY <1>1, Numbers DEF Batches
    <2> QED BY <2>1, CappedCount DEF NotFitted
  <1>4. /\ unseen' = Lag(n)
        /\ Lag(n) \in 0 .. MaxLag /\ (~fresh => Lag(n) >= 1)
    BY LagOfBatch DEF NotFitted
  <1>5. last' \in [worth: Values, ok: BOOLEAN, restarted: BOOLEAN]
    BY RejectedType DEF NotFitted, IInv
  <1>6. UNCHANGED <<inInit, completed, known, incumbent, fresh, region>>
    BY DEF NotFitted
  <1>7. TypeOK'
    BY <1>2, <1>3, <1>4, <1>5, <1>6, Numbers DEF TypeOK, IInv
  <1>8. IncumbentIsBest' /\ BestIsIncumbent'
    BY <1>3, <1>4, <1>6 DEF IInv, CountsInv, IncumbentIsBest, BestIsIncumbent
  <1>9. CountsInv'
    BY <1>1, <1>2, <1>6, Numbers DEF IInv, CountsInv
  <1> QED BY <1>7, <1>8, <1>9 DEF IInv

LEMMA TellNotReleasedInv ==
  ASSUME IInv, NEW n \in Batches, NEW y \in Values, TellNotReleased(n, y)
  PROVE  IInv'
  <1>1. /\ top' \in Values /\ known' = top' /\ incumbent' = top' /\ unknown' = 0
        /\ hidden' = 0 /\ hiddenTop' = None
    BY Committed DEF TellNotReleased
  <1>2. /\ unseen' = Lag(n)
        /\ Lag(n) \in 0 .. MaxLag /\ (~fresh => Lag(n) >= 1)
    BY LagOfBatch DEF TellNotReleased
  <1>3. last' \in [worth: Values, ok: BOOLEAN, restarted: BOOLEAN]
    BY RejectedType DEF TellNotReleased, IInv
  <1>4. UNCHANGED <<inInit, completed, fresh, region>>
    BY DEF TellNotReleased
  <1>5. TypeOK'
    BY <1>1, <1>2, <1>3, <1>4, Numbers DEF TypeOK, IInv
  <1>6. BestIsIncumbent'
    BY <1>2, <1>4 DEF IInv, CountsInv, BestIsIncumbent
  <1>7. IncumbentIsBest' /\ CountsInv'
    BY <1>1, <1>4, Numbers DEF IInv, CountsInv, IncumbentIsBest
  <1> QED BY <1>5, <1>6, <1>7 DEF IInv

LEMMA TellNotCountedInv ==
  ASSUME IInv, NEW n \in Batches, NEW y \in Values, TellNotCounted(n, y)
  PROVE  IInv'
  <1>1. hiddenTop \in Values /\ hidden \in Nat
    BY Numbers DEF IInv, TypeOK
  <1>2. hidden' \in 1 .. MaxLag
    BY <1>1, CappedCount DEF TellNotCounted
  <1>3. hiddenTop' \in Values
    BY <1>1 DEF TellNotCounted, Greater
  <1>4. last' \in [worth: Values, ok: BOOLEAN, restarted: BOOLEAN]
    BY RejectedType DEF TellNotCounted, IInv
  <1>5. UNCHANGED <<inInit, completed, top, known, unknown, incumbent, fresh, unseen, region>>
    BY DEF TellNotCounted
  <1>6. TypeOK'
    BY <1>2, <1>3, <1>4, <1>5, Numbers DEF TypeOK, IInv
  <1>7. (IncumbentIsBest /\ BestIsIncumbent /\ CountsInv)'
    BY <1>2, <1>5 DEF IInv, CountsInv, IncumbentIsBest, BestIsIncumbent
  <1> QED BY <1>6, <1>7 DEF IInv

(* A tell that is rejected before anything is stored.                      *)
LEMMA NothingToldInv ==
  ASSUME IInv, Rejected,
         UNCHANGED <<inInit, completed, top, hidden, hiddenTop, known, unknown,
                     incumbent, fresh, unseen, region>>
  PROVE  IInv'
  <1>1. last' \in [worth: Values, ok: BOOLEAN, restarted: BOOLEAN]
    BY RejectedType DEF IInv
  <1>2. TypeOK'
    BY <1>1 DEF TypeOK, IInv
  <1>3. (IncumbentIsBest /\ BestIsIncumbent /\ CountsInv)'
    BY DEF IInv, CountsInv, IncumbentIsBest, BestIsIncumbent
  <1> QED BY <1>2, <1>3 DEF IInv

LEMMA StepInv == IInv /\ [Next]_vars => IInv'
  <1> SUFFICES ASSUME IInv, [Next]_vars PROVE IInv'
    OBVIOUS
  <1>1. Worths \subseteq Values
    BY Numbers
  <1>2. ASSUME NEW n \in Batches, NEW y \in Worths, NEW flushed \in BOOLEAN,
               Tell(n, y, flushed)
        PROVE  IInv'
    BY <1>1, <1>2, InitToldInv, RegionToldInv DEF Tell
  <1>3. ASSUME NEW n \in Batches, NEW y \in Worths, TellNotReleased(n, y)
        PROVE  IInv'
    BY <1>1, <1>3, TellNotReleasedInv
  <1>4. ASSUME NEW n \in Batches, NEW y \in Worths, TellNotFitted(n, y)
        PROVE  IInv'
    BY <1>1, <1>4, NotFittedInv DEF TellNotFitted
  <1>5. ASSUME NEW n \in Batches, NEW y \in Values, TellNotFinite(n, y)
        PROVE  IInv'
    BY <1>5, NotFittedInv, NothingToldInv DEF TellNotFinite
  <1>6. ASSUME NEW n \in Batches, NEW y \in Worths, TellNotCounted(n, y)
        PROVE  IInv'
    BY <1>1, <1>6, TellNotCountedInv
  <1>7. CASE TellRefused
    BY <1>7, NothingToldInv DEF TellRefused
  <1>8. CASE UNCHANGED vars
    BY <1>8 DEF vars, IInv, TypeOK, IncumbentIsBest, BestIsIncumbent, CountsInv
  <1> QED BY <1>2, <1>3, <1>4, <1>5, <1>6, <1>7, <1>8 DEF Next

-----------------------------------------------------------------------------
(* Theorems.                                                               *)

(* The strengthened invariant holds in every reachable state.              *)
THEOREM OptimizerInvariance == Spec => []IInv
  <1>1. Init => IInv
    BY InitInv
  <1>2. IInv /\ [Next]_vars => IInv'
    BY StepInv
  <1> QED BY <1>1, <1>2, PTL DEF Spec

(* The state is well typed: in particular a region too small never         *)
(* outlives the tell that contracted it (NeedsRestart in tell_turbo).      *)
THEOREM OptimizerTypeCorrect == Spec => []TypeOK
  <1>1. IInv => TypeOK
    BY DEF IInv
  <1> QED BY <1>1, OptimizerInvariance, PTL

(* Comparing two row counts is enough to know when the tracker must be     *)
(* rebuilt: when they agree the incumbent is the best row.                 *)
THEOREM IncumbentIsAlwaysBest == Spec => []IncumbentIsBest
  <1>1. IInv => IncumbentIsBest
    BY DEF IInv
  <1> QED BY <1>1, OptimizerInvariance, PTL

(* A region that has counted every row measures progress from the          *)
(* incumbent (update_batch).                                               *)
THEOREM RegionFollowsIncumbent == Spec => []BestIsIncumbent
  <1>1. IInv => BestIsIncumbent
    BY DEF IInv
  <1> QED BY <1>1, OptimizerInvariance, PTL

(* What a step does to the region and to the rows it has not counted.      *)
LEMMA StepEffect ==
  ASSUME IInv, [Next]_vars
  PROVE  /\ region.best # None /\ region'.best > region.best
              => region'.length >= region.length
         /\ Wedged => Wedged'
  <1> DEFINE Kept == region.best # None /\ region'.best > region.best
                       => region'.length >= region.length
             Lost == Wedged => Wedged'
  <1>1. region \in Region /\ region.best \in Values /\ region.length \in Int
    BY Numbers DEF IInv, TypeOK, Region
  <1>2. ASSUME region' = region PROVE Kept
    BY <1>1, <1>2, Numbers
  <1>3. ASSUME NEW n \in Batches, fresh' = fresh, unseen' = Lag(n) PROVE Lost
    BY <1>3, LagOfBatch, Numbers DEF Wedged
  <1>4. ASSUME fresh' = fresh, unseen' = unseen PROVE Lost
    BY <1>4 DEF Wedged
  <1>5. ASSUME NEW n \in Batches, NEW y \in Values, NEW flushed \in BOOLEAN,
               Added(n, y), Tracked(n, y), Picked, RegionTold(n, flushed)
        PROVE  Kept /\ Lost
    <2> DEFINE r      == Updated(region, n, incumbent')
               placed == fresh \/ Lag(n) = n
    <2>1. incumbent' \in Values
      BY <1>5, Committed
    <2>2. /\ r \in UpdatedRegion
          /\ r.best = IF region.best = None THEN incumbent' ELSE Greater(region.best, incumbent')
          /\ region.best # None /\ incumbent' > region.best => r.length >= region.length
      BY <1>1, <2>1, UpdateOfRegion
    <2>3. /\ fresh' = (fresh /\ ~placed)
          /\ unseen' = IF placed THEN 0 ELSE Lag(n)
          /\ region' = IF ~placed THEN region ELSE IF NeedsRestart(r) THEN NewRegion ELSE r
      BY <1>5 DEF RegionTold
    <2> HIDE DEF r
    <2>4. Kept
      <3>1. CASE ~placed
        BY <3>1, <2>3, <1>2
      <3>2. CASE placed /\ NeedsRestart(r)
        <4>1. region'.best = None
          BY <3>2, <2>3, NewRegionType
        <4> QED BY <4>1, <1>1, Numbers DEF None
      <3>3. CASE placed /\ ~NeedsRestart(r)
        <4>1. region' = r
          BY <3>3, <2>3
        <4> QED BY <4>1, <2>1, <2>2, <1>1, Numbers DEF Greater
      <3> QED BY <3>1, <3>2, <3>3
    <2>5. Lost
      <3>1. unseen \in Nat
        BY Numbers DEF IInv, TypeOK
      <3>2. Wedged => ~placed
        BY <3>1, LagOfBatch DEF Wedged
      <3>3. Wedged => ~fresh' /\ unseen' = Lag(n)
        BY <3>2, <2>3 DEF Wedged
      <3>4. Wedged => Lag(n) \in Nat /\ Lag(n) >= 1
        BY LagOfBatch, Numbers DEF Wedged
      <3> HIDE DEF placed
      <3> QED BY <3>3, <3>4 DEF Wedged
    <2> QED BY <2>4, <2>5
  <1> HIDE DEF Kept, Lost
  <1>6. Worths \subseteq Values
    BY Numbers
  <1>7. ASSUME NEW n \in Batches, NEW y \in Worths, NEW flushed \in BOOLEAN,
               Tell(n, y, flushed)
        PROVE  Kept /\ Lost
    <2>1. CASE inInit
      BY <1>7, <2>1, <1>2, <1>4 DEF Tell, InitTold
    <2>2. CASE ~inInit
      BY <1>7, <2>2, <1>5, <1>6 DEF Tell
    <2> QED BY <2>1, <2>2
  <1>8. ASSUME NEW n \in Batches, NEW y \in Values,
               TellNotReleased(n, y) \/ NotFitted(n, y)
        PROVE  Kept /\ Lost
    BY <1>8, <1>2, <1>3 DEF TellNotReleased, NotFitted
  <1>9. ASSUME UNCHANGED <<fresh, unseen, region>> PROVE Kept /\ Lost
    BY <1>9, <1>2, <1>4
  <1>10. Kept /\ Lost
    BY <1>6, <1>7, <1>8, <1>9
    DEF Next, TellNotFitted, TellNotFinite, TellNotCounted, TellRefused, vars
  <1> QED BY <1>10 DEF Kept, Lost

(* No tell that beats the best value contracts or restarts the region,     *)
(* whatever batches came before (compute_tolerance, update_batch).         *)
THEOREM ImprovementKeepsLength == Spec => ImprovementNeverContracts
  <1>1. IInv /\ [Next]_vars
          => [region.best # None /\ region'.best > region.best
                => region'.length >= region.length]_vars
    BY StepEffect
  <1> QED BY <1>1, OptimizerInvariance, PTL DEF Spec, ImprovementNeverContracts

(* A region behind its rows stays behind: every later tell is rejected.    *)
THEOREM LostRowsAreLost == Spec => LostRowsStayLost
  <1>1. IInv /\ [Next]_vars => [Wedged => Wedged']_vars
    BY StepEffect
  <1> QED BY <1>1, OptimizerInvariance, PTL DEF Spec, LostRowsStayLost
=============================================================================
