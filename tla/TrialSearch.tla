------------------------------ MODULE TrialSearch -----------------------------
(***************************************************************************)
(* The resident trial search: the pool of weight-row slots of              *)
(* trials::Search, shared by the base row, the history of told rows and    *)
(* the trials that are still out, and search::Optimizer, which drives such *)
(* a search with a trust region (rust/crates/ennx/src: trials.rs,          *)
(* trials/resident.rs, trials/stream.rs, search.rs, search/region.rs,      *)
(* trust_region.rs).                                                       *)
(*                                                                         *)
(* The content of a slot is the number of the row written to it.  A search *)
(* is driven either by its owner, who may ask lazily, tell with any        *)
(* verdict and replace the history, or by an Optimizer, which asks for     *)
(* batches and lets the region judge.  The engine is the CPU's, whose      *)
(* calls do not fail.                                                      *)
(***************************************************************************)
EXTENDS Integers, Sequences, FiniteSets, FiniteSetsExt, SequencesExt

CONSTANTS
  Capacity,          \* rows of the history
  PendingCapacity,   \* trials that may be out at once
  SuccessTolerance,  \* improvements in a row that expand the region
  FailureTolerance,  \* tells without improvement that contract it
  LengthInit,
  LengthMin,
  LengthMax,
  MaxWorth,          \* bound: told values are 0 .. MaxWorth
  MaxRows            \* bound: rows made after the first base

ASSUME TrialSearchAssumption ==
  /\ {Capacity, PendingCapacity, SuccessTolerance, FailureTolerance} \subseteq Nat \ {0}
  /\ {LengthInit, LengthMin, LengthMax, MaxWorth, MaxRows} \subseteq Nat
  /\ 0 < LengthMin /\ LengthMin <= LengthInit /\ LengthInit <= LengthMax

None   == -1  \* below every value; the content of a slot never written
Mixed  == -2  \* a lazy row made from another base than the one it was asked on
Worths == 0 .. MaxWorth
Rows   == 0 .. MaxRows

VARIABLES
  driver,   \* who drives the search
  rows,     \* the row in each slot of the engine
  base,     \* slot of the incumbent
  history,  \* told rows, oldest first: slot and value
  pending,  \* trials that are out: slot, row, the base row asked on, materialized
  made,     \* rows made so far
  worth,    \* what each row was told to be worth, None until then
  best,     \* TrustRegion.best
  region    \* the trust region: length, counters, best value

vars == <<driver, rows, base, history, pending, made, worth, best, region>>

Slots == 0 .. Capacity + PendingCapacity

Trial  == [slot: Slots, row: Rows, from: Rows, ready: BOOLEAN]
Record == [slot: Slots, value: Worths]
Region == [length: LengthMin - PendingCapacity .. LengthMax,
           successes: 0 .. SuccessTolerance - 1,
           failures: 0 .. FailureTolerance - 1,
           best: Worths \cup {None}]

TypeOK ==
  /\ driver \in {"owner", "optimizer"}
  /\ rows \in [Slots -> Rows \cup {None, Mixed}]
  /\ base \in Slots
  /\ history \in Seq(Record) /\ Len(history) <= Capacity
  /\ pending \subseteq Trial /\ Cardinality(pending) <= PendingCapacity
  /\ made \in Rows
  /\ worth \in [Rows -> Worths \cup {None}]
  /\ best \in Worths
  /\ region \in Region

NewRegion == [length |-> LengthInit, successes |-> 0, failures |-> 0, best |-> None]

(* new_batch: the base row is in slot 0, and is all the history.           *)
Init ==
  /\ driver \in {"owner", "optimizer"}
  /\ rows = [s \in Slots |-> IF s = 0 THEN 0 ELSE None]
  /\ base = 0
  /\ \E v \in Worths :
       /\ history = <<[slot |-> 0, value |-> v]>>
       /\ worth = [r \in Rows |-> IF r = 0 THEN v ELSE None]
       /\ best = v
  /\ pending = {}
  /\ made = 0
  /\ region = NewRegion

-----------------------------------------------------------------------------
SlotsOf(records) == {records[i].slot : i \in DOMAIN records}

(* Mutant: a base that has left the history is up for reuse.               *)
FreeUnheld(trials) ==
  Slots \ (SlotsOf(history) \cup {t.slot : t \in trials})

(* free_slot takes the first of these.                                     *)
Free(trials) ==
  Slots \ ({base} \cup SlotsOf(history) \cup {t.slot : t \in trials})

(* The trial asked for next, given those already out.                      *)
Asked(trials, row, ready) ==
  [slot |-> Min(Free(trials)), row |-> row, from |-> rows[base], ready |-> ready]

(* The batch of n trials, each in a slot free of those before it.          *)
Batch(n) ==
  LET Trials[i \in 0 .. n] ==
        IF i = 0 THEN {}
        ELSE Trials[i - 1] \cup {Asked(Trials[i - 1], made + i, TRUE)}
  IN  Trials[n]

Out(trials) ==
  /\ pending' = trials
  /\ made' = made + Cardinality(trials)
  /\ rows' = [s \in Slots |->
       IF \E t \in trials : t.ready /\ t.slot = s
       THEN (CHOOSE t \in trials : t.slot = s).row
       ELSE rows[s]]
  /\ UNCHANGED <<driver, base, history, worth, best, region>>

(* ask, ask_lazy, ask_sparse, ask_stream: the neighbor count must be       *)
(* between one and the rows of the history.                                *)
Ask(lazy) ==
  /\ pending = {} /\ history # <<>> /\ Free({}) # {}
  /\ made < MaxRows
  /\ driver = "optimizer" => ~lazy
  /\ Out({Asked({}, made + 1, ~lazy)})

(* ask_batch, batch_stream.                                                *)
AskBatch(arms) ==
  /\ driver = "optimizer"
  /\ pending = {} /\ history # <<>>
  /\ made + arms <= MaxRows
  /\ Out(Batch(arms))

(* materialize_pending: a lazy row is made from the base of now.           *)
Materialized(t) ==
  IF t.ready THEN rows
  ELSE [rows EXCEPT ![t.slot] = IF rows[base] = t.from THEN t.row ELSE Mixed]

Materialize(t) ==
  /\ driver = "owner"
  /\ ~t.ready
  /\ rows' = Materialized(t)
  /\ pending' = (pending \ {t}) \cup {[t EXCEPT !.ready = TRUE]}
  /\ UNCHANGED <<driver, base, history, made, worth, best, region>>

-----------------------------------------------------------------------------
(* Search::tell.                                                           *)

Recorded(record) ==
  IF Len(history) = Capacity THEN Append(Tail(history), record)
  ELSE Append(history, record)

(* Mutant: the accepted slot is the base its own lazy row is made from.    *)
ToldBaseFirst(t, value, accept) ==
  /\ base' = IF accept THEN t.slot ELSE base
  /\ rows' = IF t.ready THEN rows
             ELSE [rows EXCEPT ![t.slot] = IF rows[base'] = t.from THEN t.row ELSE Mixed]
  /\ pending' = pending \ {t}
  /\ worth' = [worth EXCEPT ![t.row] = value]

Told(t, value, accept) ==
  /\ rows' = Materialized(t)
  /\ base' = IF accept THEN t.slot ELSE base
  /\ pending' = pending \ {t}
  /\ worth' = [worth EXCEPT ![t.row] = value]

TellSearch(t, value, accept) ==
  /\ driver = "owner"
  /\ Told(t, value, accept)
  /\ history' = Recorded([slot |-> t.slot, value |-> value])
  /\ UNCHANGED <<driver, made, best, region>>

-----------------------------------------------------------------------------
(* TrustRegion::finish with TurboTrustRegion::update, one value at a time. *)
Counted(value) ==
  IF value > region.best
  THEN [region EXCEPT !.successes = @ + 1, !.failures = 0, !.best = value]
  ELSE [region EXCEPT !.failures = @ + 1, !.successes = 0]

Adapted(r) ==
  IF r.successes >= SuccessTolerance
  THEN [r EXCEPT !.length = IF @ < LengthMax THEN @ + 1 ELSE @, !.successes = 0]
  ELSE IF r.failures >= FailureTolerance
  THEN [r EXCEPT !.length = @ - 1, !.failures = 0]
  ELSE r

(* The first update after a restart takes the best of all that was told.   *)
Updated(value) ==
  IF region.best = None THEN [region EXCEPT !.best = Max({best, value})]
  ELSE Adapted(Counted(value))

Restarts(r, remaining) == r.length < LengthMin /\ remaining = {}

(* Mutant: a value is judged against the best since the last restart.      *)
AcceptsRegion(value) == value > region.best

Accepts(value) == value > best

(* Optimizer::tell; tell_batch checks its trials and then tells each.      *)
TellOptimizer(t, value) ==
  /\ driver = "optimizer"
  /\ Told(t, value, Accepts(value))
  /\ best' = Max({best, value})
  /\ IF Restarts(Updated(value), pending')
     THEN /\ region' = NewRegion
          /\ history' = <<[slot |-> base', value |-> best']>>
     ELSE /\ region' = Updated(value)
          /\ history' = Recorded([slot |-> t.slot, value |-> value])
  /\ UNCHANGED <<driver, made>>

-----------------------------------------------------------------------------
(* The slots that a replacement writes, in order: all but the base's.      *)
Replaced ==
  [i \in 1 .. Capacity + PendingCapacity |-> IF i <= base THEN i - 1 ELSE i]

(* The rows of a replacement, written to its first n slots.                *)
Loaded(values) ==
  /\ history' = [i \in DOMAIN values |-> [slot |-> Replaced[i], value |-> values[i]]]
  /\ rows' = [s \in Slots |->
       IF \E i \in DOMAIN values : Replaced[i] = s
       THEN made + (CHOOSE i \in DOMAIN values : Replaced[i] = s)
       ELSE rows[s]]
  /\ worth' = [r \in Rows |->
       IF r - made \in DOMAIN values THEN values[r - made] ELSE worth[r]]
  /\ made' = made + Len(values)
  /\ UNCHANGED <<driver, base, pending, best, region>>

Values(n) == [1 .. n -> Worths]

(* replace_history, indexed_history.                                       *)
Replace(values) ==
  /\ driver = "owner" /\ pending = {}
  /\ made + Len(values) <= MaxRows
  /\ Loaded(values)

(* indexed_history whose resolver fails after it gave these rows.          *)
ReplaceFailed(values) ==
  /\ driver = "owner" /\ pending = {}
  /\ Len(values) < Capacity
  /\ made + Len(values) <= MaxRows
  /\ Loaded(values)

(* The rows of the bound are used up.                                      *)
Spent == made = MaxRows /\ pending = {} /\ UNCHANGED vars

-----------------------------------------------------------------------------
Next ==
  \/ \E lazy \in BOOLEAN : Ask(lazy)
  \/ \E arms \in 1 .. PendingCapacity : AskBatch(arms)
  \/ \E t \in pending : Materialize(t)
  \/ \E t \in pending, v \in Worths, accept \in BOOLEAN : TellSearch(t, v, accept)
  \/ \E t \in pending, v \in Worths : TellOptimizer(t, v)
  \/ \E n \in 1 .. Capacity : \E values \in Values(n) : Replace(values)
  \/ \E n \in 0 .. Capacity - 1 : \E values \in Values(n) : ReplaceFailed(values)
  \/ Spent

Spec == Init /\ [][Next]_vars

-----------------------------------------------------------------------------
(* No trial is given a slot that holds the incumbent, a told row or        *)
(* another trial, and no two records share one, however the base moves     *)
(* through the history and out of it.                                      *)
SlotsAreDisjoint ==
  /\ \A i, j \in DOMAIN history : history[i].slot = history[j].slot => i = j
  /\ \A t \in pending : t.slot # base /\ t.slot \notin SlotsOf(history)
  /\ \A t, u \in pending : t.slot = u.slot => t = u

(* With the history full and the base outside it, a batch of the greatest  *)
(* size still finds its slots: the search never answers "no free slot".    *)
SlotsSuffice == pending = {} => Cardinality(Free({})) >= PendingCapacity

(* The state is well formed, and of the slots none is shared and enough are *)
(* free (trials.rs, free_slot).                                            *)
PoolOK == TypeOK /\ SlotsAreDisjoint /\ SlotsSuffice

(* Every record of the history holds, in its slot, a row that was told its *)
(* value: lazy rows are made from the base they were asked on, and no ask, *)
(* restart or replacement overwrites a row the history still scores.       *)
RowsAreWhatWasTold ==
  \A i \in DOMAIN history :
    /\ rows[history[i].slot] \in Rows
    /\ worth[rows[history[i].slot]] = history[i].value

(* The base an Optimizer perturbs is the row that earned the best value it *)
(* reports, in whatever order the trials of a batch are told and across    *)
(* restarts of the region.                                                 *)
BaseIsBest ==
  driver = "optimizer" => rows[base] \in Rows /\ worth[rows[base]] = best

(* What these rest on.  A trial that is out has a row of its own that was  *)
(* never told, and only a trial that is alone may be lazy; a row not made  *)
(* yet was never told; the base was told; and each tell of a batch         *)
(* contracts the region by one step at most.                               *)
TrialsInv ==
  \A t \in pending :
    /\ t.row <= made /\ worth[t.row] = None
    /\ t.ready => rows[t.slot] = t.row
    /\ ~t.ready => t.from = rows[base] /\ pending = {t}
    /\ \A u \in pending : t.row = u.row => t = u

BaseInv ==
  /\ rows[base] \in Rows /\ worth[rows[base]] # None
  /\ \A r \in Rows : r > made => worth[r] = None
  /\ driver = "optimizer" => \A t \in pending : t.ready

LengthInv ==
  /\ driver = "owner" \/ pending = {} => region.length >= LengthMin
  /\ region.length >= LengthMin - PendingCapacity + Cardinality(pending)

IInv == PoolOK /\ RowsAreWhatWasTold /\ BaseIsBest /\ TrialsInv /\ BaseInv /\ LengthInv
=============================================================================
