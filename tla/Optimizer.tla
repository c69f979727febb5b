------------------------------ MODULE Optimizer -------------------------------
(***************************************************************************)
(* Optimizer::tell with an ENN surrogate and one TuRBO trust region: the   *)
(* rows the surrogate holds, the incumbent picked from them, and the       *)
(* length of the region, through success, failure and restart              *)
(* (rust/crates/ennx/src: optimizer/mod.rs, optimizer/incumbent.rs,        *)
(* incumbent_tracker.rs, strategy/mod.rs, trust_region.rs, surrogate.rs).  *)
(*                                                                         *)
(* A batch is its number of rows and the greatest of its values.  The code *)
(* compares row counts and never uses one alone, so the model keeps their  *)
(* differences.  The length is the exponent of a power of two.  Asking     *)
(* changes none of this state: the arms of an ask are overwritten by the   *)
(* rows of the tell before they are used.                                  *)
(***************************************************************************)
EXTENDS Integers, FiniteSets

CONSTANTS
  NumInit,           \* rows of the initialization phase
  ToleranceRows,     \* rows without improvement that contract the region
  SuccessTolerance,  \* improvements in a row that expand it
  LengthInit,
  LengthMin,
  LengthMax,
  MaxWorth,          \* bound: finite values are 0 .. MaxWorth
  MaxBatch,          \* bound: rows of one batch
  MaxLag,            \* bound: rows that a count may lag behind
  CanFail            \* whether storage may return an error

ASSUME OptimizerAssumption ==
  /\ {NumInit, MaxWorth} \subseteq Nat
  /\ {ToleranceRows, SuccessTolerance, MaxBatch, MaxLag} \subseteq Nat \ {0}
  /\ {LengthInit, LengthMin, LengthMax} \subseteq Nat
  /\ LengthMin <= LengthInit /\ LengthInit <= LengthMax
  /\ MaxBatch < MaxLag
  /\ CanFail \in BOOLEAN

Infinite == MaxWorth + 1  \* a value that is not finite
None     == -1            \* below every value
Worths   == 0 .. MaxWorth

VARIABLES
  inInit,     \* in_init of Strategy::Hybrid
  completed,  \* rows of the initialization phase told so far
  top,        \* greatest value of the rows of the surrogate
  hidden,     \* rows of the backend that num_obs does not count yet
  hiddenTop,  \*   and their greatest value
  known,      \* greatest value in the incumbent tracker
  unknown,    \* rows the tracker has not been told
  incumbent,  \* y_scalar
  fresh,      \* prev_obs of the region is 0
  unseen,     \* if it is not, the rows the region has not counted
  region,     \* length, success and failure counters, best value
  last        \* the last tell: its value, its result, did it restart the region

vars == <<inInit, completed, top, hidden, hiddenTop, known, unknown,
          incumbent, fresh, unseen, region, last>>

Values == {None} \cup Worths \cup {Infinite}

Region == [length: LengthMin .. LengthMax,
           successes: 0 .. SuccessTolerance - 1,
           failures: 0 .. ToleranceRows - 1,
           best: Values]

TypeOK ==
  /\ inInit \in BOOLEAN
  /\ completed \in 0 .. NumInit
  /\ {top, hiddenTop, known, incumbent} \subseteq Values
  /\ {hidden, unknown, unseen} \subseteq 0 .. MaxLag
  /\ fresh \in BOOLEAN
  /\ region \in Region
  /\ last \in [worth: Values, ok: BOOLEAN, restarted: BOOLEAN]

-----------------------------------------------------------------------------
Greater(a, b) == IF a > b THEN a ELSE b
Capped(n)     == IF n > MaxLag THEN MaxLag ELSE n

NewRegion == [length |-> LengthInit, successes |-> 0, failures |-> 0, best |-> None]

Init ==
  /\ inInit = TRUE
  /\ completed = 0
  /\ top = None /\ hiddenTop = None /\ known = None /\ incumbent = None
  /\ hidden = 0 /\ unknown = 0 /\ unseen = 0
  /\ fresh = TRUE
  /\ region = NewRegion
  /\ last = [worth |-> None, ok |-> TRUE, restarted |-> FALSE]

(* compute_tolerance: the failures allowed when n rows are told at once.   *)
FailureTolerance(n) == (ToleranceRows + n - 1) \div n

-----------------------------------------------------------------------------
(* TurboTrustRegion::update_batch, its counters and its length.            *)

(* Mutant: the best value again is an improvement.                         *)
ImprovesAgain(r, y) == y >= r.best

Improves(r, y) == y > r.best

(* Mutant: an improvement leaves the failures counted.                     *)
CountedSticky(r, y) ==
  IF Improves(r, y) THEN [r EXCEPT !.successes = @ + 1]
  ELSE [r EXCEPT !.failures = @ + 1, !.successes = 0]

Counted(r, y) ==
  IF Improves(r, y) THEN [r EXCEPT !.successes = @ + 1, !.failures = 0]
  ELSE [r EXCEPT !.failures = @ + 1, !.successes = 0]

Adapted(r, n) ==
  IF r.successes >= SuccessTolerance
  THEN [r EXCEPT !.length = IF @ < LengthMax THEN @ + 1 ELSE @, !.successes = 0]
  ELSE IF r.failures >= FailureTolerance(n)
  THEN [r EXCEPT !.length = @ - 1, !.failures = 0]
  ELSE r

(* Mutant: the best value is only ever that of the first batch.            *)
UpdatedFirst(r, n, y) ==
  IF r.best = None THEN [r EXCEPT !.best = y] ELSE Adapted(Counted(r, y), n)

Updated(r, n, y) ==
  IF r.best = None THEN [r EXCEPT !.best = y]
  ELSE [Adapted(Counted(r, y), n) EXCEPT !.best = Greater(@, y)]

(* Mutant: the region restarts one contraction late.                       *)
NeedsRestartLate(r) == r.length < LengthMin - 1

NeedsRestart(r) == r.length < LengthMin

-----------------------------------------------------------------------------
(* The steps of a tell of n rows whose greatest value is y.                *)

(* ENN::add: the backend appends the rows, and num_obs becomes its length. *)
Added(n, y) ==
  /\ top' = Greater(Greater(top, hiddenTop), y)
  /\ hidden' = 0
  /\ hiddenTop' = None

(* Mutant: a tracker that has been told something is not rebuilt.          *)
TrackedOnly(n, y) ==
  /\ unknown' = 0
  /\ known' = Greater(known, y)

(* commit_observations and update_incumbent: the tracker is told the rows, *)
(* and is rebuilt from all rows if its count is not the surrogate's.       *)
Tracked(n, y) ==
  /\ unknown' = 0
  /\ known' = IF unknown + hidden = 0 THEN Greater(known, y) ELSE top'

Picked == incumbent' = known'

(* Rows the region has not counted, once n rows are added.                 *)
Lag(n) == IF fresh THEN 0 ELSE Capped(unseen + n + hidden)

(* Mutant: a batch that the region cannot place moves its count.           *)
RegionToldAnyway(n, flushed) ==
  LET r      == Updated(region, n, incumbent')
      placed == fresh \/ Lag(n) = n
  IN /\ fresh' = FALSE
     /\ unseen' = 0
     /\ region' = IF ~placed THEN region ELSE IF NeedsRestart(r) THEN NewRegion ELSE r
     /\ last' = [worth |-> incumbent', ok |-> placed /\ flushed,
                 restarted |-> placed /\ NeedsRestart(r)]
     /\ UNCHANGED <<inInit, completed>>

(* tell_turbo once tell_common is done: the first batch of the phase sets  *)
(* the watermark, a batch that does not start at it is an error, and a     *)
(* region that has become too small restarts.                              *)
RegionTold(n, flushed) ==
  LET r      == Updated(region, n, incumbent')
      placed == fresh \/ Lag(n) = n
  IN /\ fresh' = (fresh /\ ~placed)
     /\ unseen' = IF placed THEN 0 ELSE Lag(n)
     /\ region' = IF ~placed THEN region ELSE IF NeedsRestart(r) THEN NewRegion ELSE r
     /\ last' = [worth |-> incumbent', ok |-> placed /\ flushed,
                 restarted |-> placed /\ NeedsRestart(r)]
     /\ UNCHANGED <<inInit, completed>>

(* tell_init: the rows count towards the initialization phase.             *)
InitTold(n, flushed) ==
  /\ completed' = IF completed + n > NumInit THEN NumInit ELSE completed + n
  /\ inInit' = (completed + n < NumInit)
  /\ last' = [worth |-> incumbent', ok |-> flushed, restarted |-> FALSE]
  /\ UNCHANGED <<fresh, unseen, region>>

Rejected == last' = [worth |-> last.worth, ok |-> FALSE, restarted |-> FALSE]

-----------------------------------------------------------------------------
(* Actions: one tell each.                                                 *)

(* Every call but perhaps the last, schedule_flush, succeeds.              *)
Tell(n, y, flushed) ==
  /\ flushed \/ CanFail
  /\ Added(n, y)
  /\ Tracked(n, y)
  /\ Picked
  /\ IF inInit THEN InitTold(n, flushed) ELSE RegionTold(n, flushed)

(* release_pages fails: the rows are committed, and nothing else is told.  *)
TellNotReleased(n, y) ==
  /\ CanFail
  /\ Added(n, y)
  /\ Tracked(n, y)
  /\ Picked
  /\ unseen' = Lag(n)
  /\ Rejected
  /\ UNCHANGED <<inInit, completed, fresh, region>>

(* fit_append fails once the model has the rows.                           *)
NotFitted(n, y) ==
  /\ Added(n, y)
  /\ unknown' = Capped(unknown + n + hidden)
  /\ unseen' = Lag(n)
  /\ Rejected
  /\ UNCHANGED <<inInit, completed, known, incumbent, fresh, region>>

(* Indexing, the fit of the parameters or the release of pages fails.      *)
TellNotFitted(n, y) == CanFail /\ NotFitted(n, y)

(* The fitter refuses a batch with a value that is not finite, which a     *)
(* model that exists has added by then and a model to be made has not.     *)
TellNotFinite(n, y) ==
  IF top # None THEN NotFitted(n, y)
  ELSE Rejected /\ UNCHANGED <<inInit, completed, top, hidden, hiddenTop, known,
                               unknown, incumbent, fresh, unseen, region>>

(* append_rows fails once the backend has the rows: num_obs is not moved.  *)
TellNotCounted(n, y) ==
  /\ CanFail
  /\ top # None
  /\ hidden' = Capped(hidden + n)
  /\ hiddenTop' = Greater(hiddenTop, y)
  /\ Rejected
  /\ UNCHANGED <<inInit, completed, top, known, unknown, incumbent, fresh, unseen, region>>

(* An earlier flush failed, or the shapes are wrong: nothing is done.      *)
TellRefused ==
  /\ Rejected
  /\ UNCHANGED <<inInit, completed, top, hidden, hiddenTop, known, unknown,
                 incumbent, fresh, unseen, region>>

Batches == 1 .. MaxBatch

Next ==
  \/ \E n \in Batches, y \in Worths, flushed \in BOOLEAN : Tell(n, y, flushed)
  \/ \E n \in Batches, y \in Worths : TellNotReleased(n, y)
  \/ \E n \in Batches, y \in Worths : TellNotFitted(n, y)
  \/ \E n \in Batches, y \in Values : TellNotFinite(n, y)
  \/ \E n \in Batches, y \in Worths : TellNotCounted(n, y)
  \/ TellRefused

(* Whoever optimizes goes on telling results, and some tell meets no       *)
(* failure of the storage.                                                 *)
Fairness == WF_vars(\E n \in Batches, y \in Worths : Tell(n, y, TRUE))

Spec == Init /\ [][Next]_vars /\ Fairness

-----------------------------------------------------------------------------
(* Properties.                                                             *)

Wedged == ~fresh /\ unseen > 0

(* Whenever the tracker has been told as many rows as the surrogate holds, *)
(* the incumbent is the best of them all, rows of rejected tells included: *)
(* equal counts stand for equal rows, which is what decides whether the    *)
(* tracker is rebuilt.                                                     *)
IncumbentIsBest == unknown = 0 => known = top /\ incumbent = top

(* A region that has counted every row measures improvement against the    *)
(* incumbent, also after restarts and after tells that failed late.        *)
BestIsIncumbent ==
  region.best # None /\ unseen = 0 => region.best = incumbent

(* What both rest on: hidden rows are counted, the incumbent is no better  *)
(* than the rows, and the region has no best value before it is told any.  *)
CountsInv ==
  /\ hidden = 0 => hiddenTop = None
  /\ incumbent <= top
  /\ inInit => fresh
  /\ fresh => region.best = None

IInv == TypeOK /\ IncumbentIsBest /\ BestIsIncumbent /\ CountsInv

(* A tell that beats the region's best value neither contracts nor         *)
(* restarts the region, whatever batch sizes came before.                  *)
ImprovementNeverContracts ==
  [][region.best # None /\ region'.best > region.best
       => region'.length >= region.length]_vars

(* Rows that the region missed are missed for good: prev_obs only moves by *)
(* a batch that starts at it, and no later tell can.                       *)
LostRowsStayLost == [][Wedged => Wedged']_vars

(* As values are bounded, an optimizer that is told results for ever       *)
(* restarts its region again and again, unless a failed tell made every    *)
(* later one fail.                                                         *)
RestartsUnlessWedged == <>[]Wedged \/ []<>last.restarted
=============================================================================
