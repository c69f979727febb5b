---------------------------- MODULE RegionStrategy ----------------------------
(***************************************************************************)
(* The experimental strategy of the optimizer: candidates are asked from   *)
(* several trust regions, results are told back, and every region adapts,  *)
(* contracts and restarts (rust/crates/ennx/src: strategy/mod.rs,          *)
(* optimizer/multi_tr.rs).                                                 *)
(*                                                                         *)
(* The caller may ask again before telling, tell in any order, and tell    *)
(* only some of the rows it asked for.  Of the told rows the model keeps   *)
(* their number and, for every region, the greatest value among those its  *)
(* bounds contain.  Where the centers are, and the means that rank regions *)
(* already tried, are left open.  What a tell does to the surrogate and to *)
(* the incumbent is the subject of Optimizer.                              *)
(***************************************************************************)
EXTENDS Integers, Sequences, FiniteSets, FiniteSetsExt, SequencesExt

CONSTANTS
  NumRegions,
  NumInit,        \* rows of the initialization phase
  SuccTolerance,
  FailTolerance,
  LengthInit,     \* lengths are exponents of two
  LengthMax,      \*   and the least length is 0
  MaxWorth,       \* bound: values are 0 .. MaxWorth
  MaxArms,        \* bound: rows of one ask
  MaxAsks,        \* bound: asks not told yet
  MaxTrials,      \* bound: trials counted apart
  CanFail         \* whether the common part of a tell may fail

ASSUME RegionStrategyAssumption ==
  /\ {NumRegions, SuccTolerance, FailTolerance, MaxArms, MaxAsks, MaxTrials}
       \subseteq Nat \ {0}
  /\ {NumInit, LengthInit, LengthMax, MaxWorth} \subseteq Nat
  /\ LengthInit <= LengthMax
  /\ CanFail \in BOOLEAN

Regions == 1 .. NumRegions
Nobody  == 0   \* what generated the rows of the initialization phase
None    == -1  \* no value yet

VARIABLES
  inInit,     \* in_init
  completed,  \* init.completed
  pending,    \* pending_regions, <<>> for none
  regions,    \* lengths, succ_counts, fail_counts, incumbents_y, active_mask, trial_counts
  asked,      \* the asks not told yet: what generated each of their rows
  inTurn,     \* so far every ask was told, whole, before the next one
  generated,  \* of the rows told, those each region generated since it restarted
  last        \* the last operation: its result, the regions it restarted

vars == <<inInit, completed, pending, regions, asked, inTurn, generated, last>>

Region == [length: 0 .. LengthMax, succ: 0 .. SuccTolerance - 1,
           fail: 0 .. FailTolerance - 1, best: {None} \cup 0 .. MaxWorth,
           active: BOOLEAN, trials: 0 .. MaxTrials]

TypeOK ==
  /\ inInit \in BOOLEAN
  /\ completed \in 0 .. NumInit
  /\ pending \in Seq(Regions) /\ Len(pending) <= MaxArms
  /\ regions \in [Regions -> Region]
  /\ asked \in Seq(Seq(Regions \cup {Nobody})) /\ Len(asked) <= MaxAsks
  /\ inTurn \in BOOLEAN
  /\ generated \in [Regions -> 0 .. MaxTrials]
  /\ last \in [ok: BOOLEAN, restarted: SUBSET Regions]

-----------------------------------------------------------------------------
UpTo(most, n) == IF n > most THEN most ELSE n

(* restart_region, but for the center.                                     *)
NewRegion == [length |-> LengthInit, succ |-> 0, fail |-> 0, best |-> None,
              active |-> TRUE, trials |-> 0]

Init ==
  /\ inInit = (NumInit > 0)
  /\ completed = 0
  /\ pending = <<>>
  /\ regions = [r \in Regions |-> NewRegion]
  /\ asked = <<>>
  /\ inTurn = TRUE
  /\ generated = [r \in Regions |-> 0]
  /\ last = [ok |-> TRUE, restarted |-> {}]

-----------------------------------------------------------------------------
(* allocate and the arms of ask_experimental.                              *)

Untried == {r \in Regions : regions[r].trials = 0}

(* With fewer arms than regions: one arm each to the regions of highest    *)
(* priority, where that of a region never tried is infinite.               *)
FewArms(arms) ==
  {s \in [1 .. arms -> Regions] :
     /\ \A i, j \in 1 .. arms : i < j => s[i] # s[j]
     /\ \A i, j \in 1 .. arms :
          i < j /\ s[j] \in Untried => s[i] \in Untried /\ s[i] < s[j]
     /\ \A u \in Untried :
          (\E i \in 1 .. arms : s[i] \notin Untried \/ s[i] > u)
            => \E i \in 1 .. arms : s[i] = u}

(* Otherwise: every region has an arm, and those of a region are together. *)
ManyArms(arms) ==
  {s \in [1 .. arms -> Regions] :
     /\ Range(s) = Regions
     /\ \A i, j \in 1 .. arms : i < j => s[i] <= s[j]}

Allocations(arms) == IF arms < NumRegions THEN FewArms(arms) ELSE ManyArms(arms)

(* ask_experimental of arms rows.                                          *)
Ask(arms) ==
  /\ Len(asked) < MaxAsks
  /\ \E by \in IF inInit THEN {[i \in 1 .. arms |-> Nobody]} ELSE Allocations(arms) :
       /\ asked' = Append(asked, by)
       /\ pending' = IF inInit THEN <<>> ELSE by
  /\ inTurn' = (inTurn /\ asked = <<>>)
  /\ last' = [ok |-> TRUE, restarted |-> {}]
  /\ UNCHANGED <<inInit, completed, regions, generated>>

-----------------------------------------------------------------------------
(* MultiTrustRegionState::tell.                                            *)

(* What n rows may be to the regions: the greatest value inside each.      *)
Tops(n) ==
  {t \in [Regions -> {None} \cup 0 .. MaxWorth] :
     Cardinality(Range(t) \ {None}) <= n}

(* Mutant: enough improvements in a row shrink the region.                 *)
ImprovedShrinks(s, y) ==
  LET t == [s EXCEPT !.best = y, !.succ = @ + 1, !.fail = 0]
  IN IF t.succ < SuccTolerance THEN t
     ELSE [t EXCEPT !.length = @ - 1, !.succ = 0, !.active = t.length > 0]

Improved(s, y) ==
  LET t == [s EXCEPT !.best = y, !.succ = @ + 1, !.fail = 0]
  IN IF t.succ < SuccTolerance THEN t
     ELSE [t EXCEPT !.length = UpTo(LengthMax, @ + 1), !.succ = 0]

(* Mutant: the least length is kept.                                       *)
FailedAtLeast(s) ==
  IF s.fail + 1 < FailTolerance THEN [s EXCEPT !.fail = @ + 1, !.succ = 0]
  ELSE [s EXCEPT !.length = IF @ > 0 THEN @ - 1 ELSE @, !.fail = 0, !.succ = 0]

(* A region too small is no longer active, and waits to be restarted.      *)
Failed(s) ==
  IF s.fail + 1 < FailTolerance THEN [s EXCEPT !.fail = @ + 1, !.succ = 0]
  ELSE IF s.length > 0 THEN [s EXCEPT !.length = @ - 1, !.fail = 0, !.succ = 0]
  ELSE [s EXCEPT !.active = FALSE, !.fail = 0, !.succ = 0]

Recorded(s, n) == [s EXCEPT !.trials = UpTo(MaxTrials, @ + n)]

CountOf(by, r) == Cardinality({i \in DOMAIN by : by[i] = r})

(* by is the region that each row is taken to come from, or <<>>.          *)
MultiTell(tops, by) ==
  [r \in Regions |->
     IF ~regions[r].active THEN regions[r]
     ELSE LET s == Recorded(regions[r], CountOf(by, r))
          IN IF tops[r] > s.best THEN Improved(s, tops[r]) ELSE Failed(s)]

(* Mutant: only a tell that leaves no region active restarts any.          *)
RestartedAll(rs) ==
  IF \E r \in Regions : rs[r].active THEN rs
  ELSE [r \in Regions |-> NewRegion]

(* Mutant: a region restarts with the trials it had.                       *)
RestartedTried(rs) ==
  [r \in Regions |->
     IF rs[r].active THEN rs[r] ELSE [NewRegion EXCEPT !.trials = rs[r].trials]]

(* The end of tell_experimental: all regions if none is active, and        *)
(* otherwise those that are not.                                           *)
Restarted(rs) ==
  [r \in Regions |-> IF rs[r].active THEN rs[r] ELSE NewRegion]

-----------------------------------------------------------------------------
(* tell_experimental of the first n rows of ask k.                         *)

(* The asks without the n rows told of ask k.                              *)
Untold(k, n) ==
  IF n = Len(asked[k])
  THEN SubSeq(asked, 1, k - 1) \o SubSeq(asked, k + 1, Len(asked))
  ELSE [asked EXCEPT ![k] = SubSeq(@, n + 1, Len(@))]

CountedInit(n) ==
  /\ completed' = UpTo(NumInit, completed + n)
  /\ inInit' = (inInit /\ completed + n < NumInit)

(* Mutant: the rows are recorded before their number is looked at.         *)
TellUnchecked(k, n, tops) ==
  LET fits  == pending = <<>> \/ Len(pending) = n
      after == MultiTell(tops, pending)
  IN /\ CountedInit(n)
     /\ pending' = <<>>
     /\ asked' = Untold(k, n)
     /\ inTurn' = (inTurn /\ n = Len(asked[k]))
     /\ regions' = Restarted(after)
     /\ generated' = [r \in Regions |->
          IF ~after[r].active THEN 0
          ELSE UpTo(MaxTrials, generated[r] + CountOf(SubSeq(asked[k], 1, n), r))]
     /\ last' = [ok |-> fits, restarted |-> {r \in Regions : ~after[r].active}]

(* The regions of the latest ask are taken for those of the rows, whatever *)
(* ask the rows are of; if their number differs the tell is an error.      *)
Tell(k, n, tops) ==
  LET fits  == pending = <<>> \/ Len(pending) = n
      after == IF fits THEN MultiTell(tops, pending) ELSE regions
  IN /\ CountedInit(n)
     /\ pending' = <<>>
     /\ asked' = Untold(k, n)
     /\ inTurn' = (inTurn /\ n = Len(asked[k]))
     /\ regions' = Restarted(after)
     /\ generated' = [r \in Regions |->
          IF ~after[r].active THEN 0
          ELSE UpTo(MaxTrials, generated[r] + CountOf(SubSeq(asked[k], 1, n), r))]
     /\ last' = [ok |-> fits, restarted |-> {r \in Regions : ~after[r].active}]

(* tell_common fails: the strategy is as it was, and the caller may retry. *)
TellFailed ==
  /\ CanFail
  /\ asked # <<>>
  /\ last' = [ok |-> FALSE, restarted |-> {}]
  /\ UNCHANGED <<inInit, completed, pending, regions, asked, inTurn, generated>>

TellAny  == \E k \in DOMAIN asked : \E n \in 1 .. Len(asked[k]) :
              \E tops \in Tops(n) : Tell(k, n, tops)

TellLatest == asked # <<>> /\ \E tops \in Tops(Len(Last(asked))) :
                Tell(Len(asked), Len(Last(asked)), tops)

Next ==
  \/ \E arms \in 1 .. MaxArms : Ask(arms)
  \/ TellAny
  \/ TellFailed

(* The caller goes on asking, and again and again tells all of what it     *)
(* asked for last.                                                         *)
Fairness ==
  /\ WF_vars(\E arms \in 1 .. MaxArms : Ask(arms))
  /\ SF_vars(TellLatest)

Spec == Init /\ [][Next]_vars /\ Fairness

-----------------------------------------------------------------------------
(* Properties.                                                             *)

EveryRegionIsActive == \A r \in Regions : regions[r].active

(* The state is well formed, and between two operations every region is    *)
(* active, whichever of the two ways of restarting a tell took: allocate   *)
(* divides the budget among active regions alone, so one left inactive     *)
(* would never be asked again.                                             *)
RegionsOK == TypeOK /\ EveryRegionIsActive

(* While every ask is told, whole, before the next, the trials counted for *)
(* a region are the rows it generated since it restarted.                  *)
TrialsAreOfTheirRegion ==
  inTurn => \A r \in Regions : regions[r].trials = generated[r]

(* What that rests on: in turn, the pending regions are those of the one   *)
(* ask that is out, or its rows are of the initialization phase.           *)
TurnInv ==
  inTurn /\ asked # <<>> =>
    /\ Len(asked) = 1
    /\ \/ pending = asked[1]
       \/ pending = <<>> /\ \A i \in DOMAIN asked[1] : asked[1][i] = Nobody

IInv == RegionsOK /\ TrialsAreOfTheirRegion /\ TurnInv

(* A tell that returns an error has changed no region.                     *)
FailedTellMovesNoRegion == [][last' # last /\ ~last'.ok => regions' = regions]_vars

(* A region that the tell improved has neither contracted nor restarted.   *)
ImprovedRegionKeepsItsLength ==
  [][\A r \in Regions :
       regions'[r].best > regions[r].best => regions'[r].length >= regions[r].length]_vars

(* No region stays for ever where it is: as values are bounded, each one   *)
(* fails often enough to restart, again and again.                         *)
EveryRegionRestarts == \A r \in Regions : []<>(r \in last.restarted)
=============================================================================
