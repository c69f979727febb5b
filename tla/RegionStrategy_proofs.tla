------------------------- MODULE RegionStrategy_proofs -------------------------
(***************************************************************************)
(* The regions of RegionStrategy, for any number of regions, arms, asks    *)
(* and values.  IInv is inductive: a tell leaves every region active, and  *)
(* credits the trials of the one ask that is out.                          *)
(***************************************************************************)
EXTENDS RegionStrategy, FiniteSetTheorems, SequenceTheorems, TLAPS

(* The numbers behind the constants.                                       *)
LEMMA Numbers ==
  /\ NumRegions \in Nat /\ NumRegions >= 1
  /\ SuccTolerance \in Nat /\ SuccTolerance >= 1
  /\ FailTolerance \in Nat /\ FailTolerance >= 1
  /\ MaxArms \in Nat /\ MaxArms >= 1 /\ MaxAsks \in Nat /\ MaxAsks >= 1
  /\ MaxTrials \in Nat /\ MaxTrials >= 1
  /\ NumInit \in Nat /\ LengthInit \in Nat /\ LengthMax \in Nat /\ MaxWorth \in Nat
  /\ LengthInit <= LengthMax
  BY RegionStrategyAssumption

LEMMA UpToBound ==
  ASSUME NEW most \in Nat, NEW n \in Nat
  PROVE  UpTo(most, n) \in 0 .. most
  BY DEF UpTo

LEMMA NewRegionType == NewRegion \in Region
  BY Numbers DEF NewRegion, Region

(* The rows of one region are a number.                                    *)
LEMMA CountIsNat ==
  ASSUME NEW S, NEW by \in Seq(S), NEW r
  PROVE  CountOf(by, r) \in Nat
  <1>1. Len(by) \in Nat /\ DOMAIN by = 1 .. Len(by)
    OBVIOUS
  <1>2. IsFiniteSet(1 .. Len(by))
    BY <1>1, FS_Interval
  <1>3. IsFiniteSet({i \in DOMAIN by : by[i] = r})
    BY <1>1, <1>2, FS_Subset
  <1> QED BY <1>3, FS_CardinalityType DEF CountOf

LEMMA CountOfNone ==
  ASSUME NEW S, NEW by \in Seq(S), NEW r, \A i \in DOMAIN by : by[i] # r
  PROVE  CountOf(by, r) = 0
  <1>1. {i \in DOMAIN by : by[i] = r} = {}
    OBVIOUS
  <1> QED BY <1>1, FS_EmptySet DEF CountOf

-----------------------------------------------------------------------------
(* One region.                                                             *)

LEMMA RecordedType ==
  ASSUME NEW s \in Region, NEW n \in Nat
  PROVE  /\ Recorded(s, n) \in Region
         /\ Recorded(s, n).trials = UpTo(MaxTrials, s.trials + n)
         /\ Recorded(s, n).best = s.best /\ Recorded(s, n).length = s.length
         /\ Recorded(s, n).active = s.active
  <1>1. s.trials + n \in Nat
    BY Numbers DEF Region
  <1>2. UpTo(MaxTrials, s.trials + n) \in 0 .. MaxTrials
    BY <1>1, Numbers, UpToBound
  <1> QED BY <1>2 DEF Recorded, Region

(* An improvement never contracts a region and leaves it active.           *)
LEMMA ImprovedType ==
  ASSUME NEW s \in Region, NEW y \in 0 .. MaxWorth
  PROVE  /\ Improved(s, y) \in Region
         /\ Improved(s, y).best = y /\ Improved(s, y).length >= s.length
         /\ Improved(s, y).active = s.active /\ Improved(s, y).trials = s.trials
  <1> DEFINE t == [s EXCEPT !.best = y, !.succ = s.succ + 1, !.fail = 0]
  <1>1. /\ s.length \in 0 .. LengthMax /\ s.succ \in 0 .. SuccTolerance - 1
        /\ 0 \in 0 .. FailTolerance - 1 /\ 0 \in 0 .. SuccTolerance - 1
    BY Numbers DEF Region
  <1>2. /\ t.length = s.length /\ t.succ = s.succ + 1 /\ t.fail = 0 /\ t.best = y
        /\ t.active = s.active /\ t.trials = s.trials
    BY DEF Region
  <1>3. CASE t.succ < SuccTolerance
    <2>1. Improved(s, y) = t
      BY <1>3 DEF Improved
    <2>2. s.succ + 1 \in 0 .. SuccTolerance - 1
      BY <1>1, <1>2, <1>3, Numbers
    <2>3. t \in Region
      BY <1>1, <2>2 DEF Region
    <2> HIDE DEF t
    <2> QED BY <1>1, <1>2, <2>1, <2>3, Numbers
  <1>4. CASE ~(t.succ < SuccTolerance)
    <2>1. Improved(s, y) = [s EXCEPT !.best = y, !.succ = 0, !.fail = 0,
                                     !.length = UpTo(LengthMax, s.length + 1)]
      BY <1>4, <1>2 DEF Improved, Region
    <2>2. UpTo(LengthMax, s.length + 1) \in 0 .. LengthMax
          /\ UpTo(LengthMax, s.length + 1) >= s.length
      BY <1>1, Numbers DEF UpTo
    <2> QED BY <1>1, <2>1, <2>2 DEF Region
  <1> QED BY <1>3, <1>4

LEMMA FailedType ==
  ASSUME NEW s \in Region
  PROVE  /\ Failed(s) \in Region
         /\ Failed(s).best = s.best /\ Failed(s).trials = s.trials
  <1>1. /\ s.length \in 0 .. LengthMax /\ s.fail \in 0 .. FailTolerance - 1
        /\ 0 \in 0 .. FailTolerance - 1 /\ 0 \in 0 .. SuccTolerance - 1
    BY Numbers DEF Region
  <1>2. CASE s.fail + 1 < FailTolerance
    <2>1. s.fail + 1 \in 0 .. FailTolerance - 1
      BY <1>1, <1>2, Numbers
    <2> QED BY <1>1, <1>2, <2>1 DEF Failed, Region
  <1>3. CASE ~(s.fail + 1 < FailTolerance) /\ s.length > 0
    <2>1. s.length - 1 \in 0 .. LengthMax
      BY <1>1, <1>3, Numbers
    <2> QED BY <1>1, <1>3, <2>1 DEF Failed, Region
  <1>4. CASE ~(s.fail + 1 < FailTolerance) /\ ~(s.length > 0)
    BY <1>1, <1>4 DEF Failed, Region
  <1> QED BY <1>2, <1>3, <1>4

-----------------------------------------------------------------------------
(* All regions.                                                            *)

(* What a tell does to one region, before restarts: its trials are counted,*)
(* and only one that improved has a better value, and is not shorter.      *)
LEMMA MultiTellRegion ==
  ASSUME IInv, NEW n, NEW tops \in Tops(n), NEW by \in Seq(Regions), NEW r \in Regions
  PROVE  /\ MultiTell(tops, by)[r] \in Region
         /\ MultiTell(tops, by)[r].trials
              = UpTo(MaxTrials, regions[r].trials + CountOf(by, r))
         /\ MultiTell(tops, by)[r].best > regions[r].best
              => /\ MultiTell(tops, by)[r].active
                 /\ MultiTell(tops, by)[r].length >= regions[r].length
  <1> DEFINE s == Recorded(regions[r], CountOf(by, r))
             m == MultiTell(tops, by)[r]
  <1>1. regions[r] \in Region /\ regions[r].active
    BY DEF IInv, RegionsOK, TypeOK, EveryRegionIsActive
  <1>2. CountOf(by, r) \in Nat
    BY CountIsNat
  <1>3. /\ s \in Region
        /\ s.trials = UpTo(MaxTrials, regions[r].trials + CountOf(by, r))
        /\ s.best = regions[r].best /\ s.length = regions[r].length
        /\ s.active = regions[r].active
    BY <1>1, <1>2, RecordedType
  <1>4. m = IF tops[r] > s.best THEN Improved(s, tops[r]) ELSE Failed(s)
    BY <1>1 DEF MultiTell
  <1> HIDE DEF s, m
  <1>5. tops[r] \in {None} \cup 0 .. MaxWorth /\ s.best \in {None} \cup 0 .. MaxWorth
    BY <1>3 DEF Tops, Region
  <1>6. CASE tops[r] > s.best
    <2>1. tops[r] \in 0 .. MaxWorth
      BY <1>5, <1>6, Numbers DEF None
    <2>2. m = Improved(s, tops[r])
      BY <1>4, <1>6
    <2>3. /\ m \in Region /\ m.length >= s.length
          /\ m.active = s.active /\ m.trials = s.trials
      BY <1>3, <2>1, <2>2, ImprovedType
    <2> QED BY <1>1, <1>3, <2>3 DEF m
  <1>7. CASE ~(tops[r] > s.best)
    <2>1. m \in Region /\ m.best = s.best /\ m.trials = s.trials
      BY <1>3, <1>4, <1>7, FailedType
    <2>2. ~(s.best > s.best)
      BY <1>5, Numbers DEF None
    <2> QED BY <1>3, <2>1, <2>2 DEF m
  <1> QED BY <1>6, <1>7

LEMMA RestartedRegion ==
  ASSUME NEW rs \in [Regions -> Region]
  PROVE  /\ Restarted(rs) \in [Regions -> Region]
         /\ \A r \in Regions : Restarted(rs)[r].active
         /\ (\A r \in Regions : rs[r].active) => Restarted(rs) = rs
  <1>1. NewRegion.active = TRUE
    BY DEF NewRegion
  <1> QED BY <1>1, NewRegionType DEF Restarted

(* What a tell leaves, whether its number of rows fits or not.             *)
LEMMA ToldRegions ==
  ASSUME IInv, NEW k \in DOMAIN asked, NEW n \in 1 .. Len(asked[k]), NEW tops \in Tops(n),
         Tell(k, n, tops)
  PROVE  /\ regions' \in [Regions -> Region]
         /\ \A r \in Regions : regions'[r].active
         /\ \A r \in Regions : regions'[r].best > regions[r].best
                                 => regions'[r].length >= regions[r].length
         /\ ~last'.ok => regions' = regions
         /\ generated' \in [Regions -> 0 .. MaxTrials]
         /\ last' \in [ok: BOOLEAN, restarted: SUBSET Regions]
  <1> DEFINE fits  == pending = <<>> \/ Len(pending) = n
             after == IF fits THEN MultiTell(tops, pending) ELSE regions
             told  == SubSeq(asked[k], 1, n)
  <1>1. /\ pending \in Seq(Regions) /\ regions \in [Regions -> Region]
        /\ generated \in [Regions -> 0 .. MaxTrials]
        /\ \A r \in Regions : regions[r].active
        /\ asked[k] \in Seq(Regions \cup {Nobody})
    BY DEF IInv, RegionsOK, TypeOK, EveryRegionIsActive
  <1>2. /\ regions' = Restarted(after)
        /\ generated' = [r \in Regions |->
             IF ~after[r].active THEN 0 ELSE UpTo(MaxTrials, generated[r] + CountOf(told, r))]
        /\ last' = [ok |-> fits, restarted |-> {r \in Regions : ~after[r].active}]
    BY DEF Tell
  <1>3. after \in [Regions -> Region]
    <2>1. MultiTell(tops, pending) \in [Regions -> Region]
      BY <1>1, MultiTellRegion DEF MultiTell
    <2> QED BY <2>1, <1>1
  <1>4. \A r \in Regions : after[r].best > regions[r].best
          => after[r].active /\ after[r].length >= regions[r].length
    <2>1. ASSUME NEW r \in Regions
          PROVE  ~(regions[r].best > regions[r].best)
      <3>1. regions[r].best \in {None} \cup 0 .. MaxWorth
        BY <1>1 DEF Region
      <3> QED BY <3>1, Numbers DEF None
    <2> QED BY <1>1, <2>1, MultiTellRegion
  <1>5. ~fits => after = regions
    OBVIOUS
  <1> HIDE DEF after, fits, told
  <1>6. regions' \in [Regions -> Region] /\ \A r \in Regions : regions'[r].active
    BY <1>2, <1>3, RestartedRegion
  <1>7. ASSUME NEW r \in Regions, regions'[r].best > regions[r].best
        PROVE  regions'[r].length >= regions[r].length
    <2>1. regions'[r] = IF after[r].active THEN after[r] ELSE NewRegion
      BY <1>2 DEF Restarted
    <2>2. CASE after[r].active
      BY <2>1, <2>2, <1>4, <1>7
    <2>3. CASE ~after[r].active
      <3>1. regions'[r].best = None
        BY <2>1, <2>3 DEF NewRegion
      <3>2. regions[r].best \in {None} \cup 0 .. MaxWorth
        BY <1>1 DEF Region
      <3> QED BY <3>1, <3>2, <1>7, Numbers DEF None
    <2> QED BY <2>2, <2>3
  <1>8. ~last'.ok => regions' = regions
    <2>1. last'.ok = fits
      BY <1>2
    <2> QED BY <2>1, <1>1, <1>2, <1>5, RestartedRegion
  <1>9. generated' \in [Regions -> 0 .. MaxTrials]
    <2>1. n \in 1 .. Len(asked[k]) /\ told \in Seq(Regions \cup {Nobody})
      BY <1>1 DEF told
    <2>2. ASSUME NEW r \in Regions
          PROVE  UpTo(MaxTrials, generated[r] + CountOf(told, r)) \in 0 .. MaxTrials
      <3>1. CountOf(told, r) \in Nat
        BY <2>1, CountIsNat
      <3>2. generated[r] \in 0 .. MaxTrials
        BY <1>1
      <3>3. generated[r] + CountOf(told, r) \in Nat
        BY <3>1, <3>2, Numbers
      <3> QED BY <3>3, Numbers, UpToBound
    <2>3. 0 \in 0 .. MaxTrials
      BY Numbers
    <2> QED BY <1>2, <2>2, <2>3
  <1>10. last' \in [ok: BOOLEAN, restarted: SUBSET Regions]
    <2>1. fits \in BOOLEAN
      BY DEF fits
    <2> QED BY <2>1, <1>2
  <1> QED BY <1>6, <1>7, <1>8, <1>9, <1>10

-----------------------------------------------------------------------------
(* The asks that are out.                                                  *)

(* An ask is of regions, which are then pending, or of none, and then none *)
(* is.                                                                     *)
LEMMA AskedRows ==
  ASSUME NEW arms \in 1 .. MaxArms,
         NEW by \in IF inInit THEN {[i \in 1 .. arms |-> Nobody]} ELSE Allocations(arms)
  PROVE  /\ by \in Seq(Regions \cup {Nobody})
         /\ inInit => \A i \in DOMAIN by : by[i] = Nobody
         /\ ~inInit => by \in Seq(Regions) /\ Len(by) <= MaxArms
  <1>1. arms \in Nat /\ arms <= MaxArms
    BY Numbers
  <1>2. CASE inInit
    <2>1. by = [i \in 1 .. arms |-> Nobody]
      BY <1>2
    <2> QED BY <1>1, <1>2, <2>1
  <1>3. CASE ~inInit
    <2>1. by \in [1 .. arms -> Regions]
      BY <1>3 DEF Allocations, FewArms, ManyArms
    <2>2. by \in Seq(Regions) /\ Len(by) = arms
      BY <1>1, <2>1
    <2>3. by \in Seq(Regions \cup {Nobody})
      BY <1>1, <2>1
    <2> QED BY <1>1, <1>3, <2>2, <2>3
  <1> QED BY <1>2, <1>3

LEMMA UntoldType ==
  ASSUME NEW S, asked \in Seq(Seq(S)), Len(asked) <= MaxAsks,
         NEW k \in DOMAIN asked, NEW n \in 1 .. Len(asked[k])
  PROVE  /\ Untold(k, n) \in Seq(Seq(S)) /\ Len(Untold(k, n)) <= MaxAsks
         /\ Len(asked) = 1 /\ n = Len(asked[k]) => Untold(k, n) = <<>>
  <1>1. /\ Len(asked) \in Nat /\ DOMAIN asked = 1 .. Len(asked)
        /\ k \in 1 .. Len(asked) /\ asked[k] \in Seq(S)
        /\ Len(asked[k]) \in Nat
    OBVIOUS
  <1>2. CASE n = Len(asked[k])
    <2> DEFINE front == SubSeq(asked, 1, k - 1)
               back  == SubSeq(asked, k + 1, Len(asked))
    <2>1. front \in Seq(Seq(S)) /\ Len(front) = k - 1
      BY <1>1
    <2>2. back \in Seq(Seq(S)) /\ Len(back) = Len(asked) - k
      BY <1>1
    <2>3. Untold(k, n) = front \o back
      BY <1>2 DEF Untold
    <2> HIDE DEF front, back
    <2>4. Untold(k, n) \in Seq(Seq(S)) /\ Len(Untold(k, n)) = Len(asked) - 1
      <3>1. front \o back \in Seq(Seq(S)) /\ Len(front \o back) = Len(front) + Len(back)
        BY <2>1, <2>2, ConcatProperties
      <3> QED BY <1>1, <2>1, <2>2, <2>3, <3>1
    <2>5. Len(asked) = 1 => Untold(k, n) = <<>>
      BY <2>4
    <2> QED BY <1>1, <2>4, <2>5, Numbers
  <1>3. CASE n # Len(asked[k])
    <2>1. SubSeq(asked[k], n + 1, Len(asked[k])) \in Seq(S)
      BY <1>1
    <2>2. Untold(k, n) = [asked EXCEPT ![k] = SubSeq(asked[k], n + 1, Len(asked[k]))]
      BY <1>3 DEF Untold
    <2>3. Untold(k, n) \in Seq(Seq(S)) /\ Len(Untold(k, n)) = Len(asked)
      BY <1>1, <2>1, <2>2
    <2> QED BY <1>3, <2>3
  <1> QED BY <1>2, <1>3

-----------------------------------------------------------------------------
(* The operations.                                                         *)

LEMMA InitInv ==
  ASSUME Init
  PROVE  IInv
  <1>1. NewRegion.active = TRUE /\ NewRegion.trials = 0
    BY DEF NewRegion
  <1>2. TypeOK
    BY Numbers, NewRegionType DEF Init, TypeOK
  <1> QED BY <1>1, <1>2
     DEF Init, IInv, RegionsOK, EveryRegionIsActive, TrialsAreOfTheirRegion, TurnInv

LEMMA AskKeepsInv ==
  ASSUME IInv, NEW arms \in 1 .. MaxArms, Ask(arms)
  PROVE  IInv'
  <1>1. TypeOK /\ EveryRegionIsActive /\ TrialsAreOfTheirRegion
    BY DEF IInv, RegionsOK
  <1>2. PICK by \in IF inInit THEN {[i \in 1 .. arms |-> Nobody]} ELSE Allocations(arms) :
          /\ asked' = Append(asked, by)
          /\ pending' = IF inInit THEN <<>> ELSE by
    BY DEF Ask
  <1>3. /\ by \in Seq(Regions \cup {Nobody})
        /\ inInit => \A i \in DOMAIN by : by[i] = Nobody
        /\ ~inInit => by \in Seq(Regions) /\ Len(by) <= MaxArms
    BY AskedRows
  <1>4. pending' \in Seq(Regions) /\ Len(pending') <= MaxArms
    BY <1>2, <1>3, Numbers
  <1>5. asked' \in Seq(Seq(Regions \cup {Nobody})) /\ Len(asked') <= MaxAsks
    BY <1>1, <1>2, <1>3, Numbers DEF Ask, TypeOK
  <1>6. inTurn' \in BOOLEAN /\ last' \in [ok: BOOLEAN, restarted: SUBSET Regions]
    BY <1>1 DEF Ask, TypeOK
  <1>7. TypeOK'
    BY <1>1, <1>4, <1>5, <1>6 DEF Ask, TypeOK
  <1>8. EveryRegionIsActive' /\ TrialsAreOfTheirRegion'
    BY <1>1 DEF Ask, EveryRegionIsActive, TrialsAreOfTheirRegion
  <1>9. ASSUME inTurn'
        PROVE  /\ Len(asked') = 1 /\ asked'[1] = by
    <2>1. asked = <<>>
      BY <1>9 DEF Ask
    <2> QED BY <1>2, <2>1
  <1>10. TurnInv'
    BY <1>2, <1>3, <1>9 DEF TurnInv
  <1> QED BY <1>7, <1>8, <1>10 DEF IInv, RegionsOK

(* In turn, a tell is of the whole of the one ask that is out, and the     *)
(* regions credited are those of its rows.                                 *)
LEMMA InTurnTell ==
  ASSUME IInv, NEW k \in DOMAIN asked, NEW n \in 1 .. Len(asked[k]),
         inTurn, n = Len(asked[k])
  PROVE  /\ Len(asked) = 1
         /\ pending = <<>> \/ Len(pending) = n
         /\ \A r \in Regions : CountOf(pending, r) = CountOf(SubSeq(asked[k], 1, n), r)
  <1>1. /\ asked \in Seq(Seq(Regions \cup {Nobody})) /\ pending \in Seq(Regions)
        /\ TurnInv
    BY DEF IInv, RegionsOK, TypeOK
  <1>2. asked # <<>> /\ asked[k] \in Seq(Regions \cup {Nobody})
    BY <1>1
  <1>3. Len(asked) = 1
    BY <1>1, <1>2 DEF TurnInv
  <1>4. k = 1
    BY <1>1, <1>3
  <1>5. SubSeq(asked[k], 1, n) = asked[k]
    BY <1>2
  <1>6. CASE pending = asked[1]
    BY <1>3, <1>4, <1>5, <1>6
  <1>7. CASE pending = <<>> /\ \A i \in DOMAIN asked[1] : asked[1][i] = Nobody
    <2>1. ASSUME NEW r \in Regions
          PROVE  CountOf(pending, r) = 0 /\ CountOf(asked[k], r) = 0
      <3>1. r # Nobody
        BY Numbers DEF Regions, Nobody
      <3>2. \A i \in DOMAIN asked[k] : asked[k][i] # r
        BY <1>4, <1>7, <3>1
      <3>3. \A i \in DOMAIN pending : pending[i] # r
        BY <1>7
      <3> QED BY <1>1, <1>2, <3>2, <3>3, CountOfNone
    <2> QED BY <1>3, <1>5, <1>7, <2>1
  <1> QED BY <1>1, <1>2, <1>6, <1>7 DEF TurnInv

LEMMA TellKeepsInv ==
  ASSUME IInv, NEW k \in DOMAIN asked, NEW n \in 1 .. Len(asked[k]), NEW tops \in Tops(n),
         Tell(k, n, tops)
  PROVE  IInv'
  <1>1. TypeOK /\ TrialsAreOfTheirRegion
    BY DEF IInv, RegionsOK
  <1>2. n \in Nat
    OBVIOUS
  <1>3. inInit' \in BOOLEAN /\ completed' \in 0 .. NumInit
    <2>1. completed + n \in Nat
      BY <1>1, <1>2, Numbers DEF TypeOK
    <2>2. completed' = UpTo(NumInit, completed + n)
      BY DEF Tell, CountedInit
    <2>3. completed' \in 0 .. NumInit
      BY <2>1, <2>2, Numbers, UpToBound
    <2>4. inInit' \in BOOLEAN
      BY <1>1 DEF Tell, CountedInit, TypeOK
    <2> QED BY <2>3, <2>4
  <1>4. pending' \in Seq(Regions) /\ Len(pending') <= MaxArms
    BY Numbers DEF Tell
  <1>5. asked' \in Seq(Seq(Regions \cup {Nobody})) /\ Len(asked') <= MaxAsks
    BY <1>1, UntoldType DEF Tell, TypeOK
  <1>6. inTurn' \in BOOLEAN
    BY <1>1 DEF Tell, TypeOK
  <1>7. TypeOK' /\ EveryRegionIsActive'
    BY <1>3, <1>4, <1>5, <1>6, ToldRegions DEF TypeOK, EveryRegionIsActive
  <1>8. ASSUME inTurn'
        PROVE  asked' = <<>> /\ \A r \in Regions : regions'[r].trials = generated'[r]
    <2>1. inTurn /\ n = Len(asked[k])
      BY <1>8 DEF Tell
    <2>2. asked' = <<>>
      <3>1. Len(asked) = 1
        BY <2>1, InTurnTell
      <3> QED BY <1>1, <2>1, <3>1, UntoldType DEF Tell, TypeOK
    <2>3. ASSUME NEW r \in Regions
          PROVE  regions'[r].trials = generated'[r]
      <3> DEFINE after == MultiTell(tops, pending)
                 told  == CountOf(SubSeq(asked[k], 1, n), r)
      <3>1. (pending = <<>> \/ Len(pending) = n) /\ CountOf(pending, r) = told
        BY <2>1, InTurnTell
      <3>2. /\ regions' = Restarted(after)
            /\ generated'[r] = IF ~after[r].active THEN 0
                               ELSE UpTo(MaxTrials, generated[r] + told)
        BY <3>1 DEF Tell
      <3>3. after[r].trials = UpTo(MaxTrials, regions[r].trials + told)
        <4>1. pending \in Seq(Regions)
          BY <1>1 DEF TypeOK
        <4> QED BY <3>1, <4>1, MultiTellRegion
      <3>4. regions[r].trials = generated[r]
        BY <1>1, <2>1 DEF TrialsAreOfTheirRegion
      <3> HIDE DEF after, told
      <3>5. regions'[r] = IF after[r].active THEN after[r] ELSE NewRegion
        BY <3>2 DEF Restarted
      <3>6. NewRegion.trials = 0
        BY DEF NewRegion
      <3> QED BY <3>2, <3>3, <3>4, <3>5, <3>6
    <2> QED BY <2>2, <2>3
  <1>9. TrialsAreOfTheirRegion'
    BY <1>8 DEF TrialsAreOfTheirRegion
  <1>10. TurnInv'
    BY <1>8 DEF TurnInv
  <1> QED BY <1>7, <1>9, <1>10 DEF IInv, RegionsOK

LEMMA TellFailedKeepsInv ==
  ASSUME IInv, TellFailed
  PROVE  IInv'
  <1>1. last' \in [ok: BOOLEAN, restarted: SUBSET Regions]
    BY DEF TellFailed
  <1>2. TypeOK'
    BY <1>1 DEF IInv, RegionsOK, TypeOK, TellFailed
  <1> QED BY <1>2 DEF IInv, RegionsOK, EveryRegionIsActive, TrialsAreOfTheirRegion,
                      TurnInv, TellFailed

LEMMA StepInv ==
  ASSUME IInv, [Next]_vars
  PROVE  IInv'
  <1>1. ASSUME NEW arms \in 1 .. MaxArms, Ask(arms)
        PROVE  IInv'
    BY <1>1, AskKeepsInv
  <1>2. CASE TellAny
    BY <1>2, TellKeepsInv DEF TellAny
  <1>3. CASE TellFailed
    BY <1>3, TellFailedKeepsInv
  <1>4. CASE UNCHANGED vars
    BY <1>4 DEF vars, IInv, RegionsOK, TypeOK, EveryRegionIsActive,
                TrialsAreOfTheirRegion, TurnInv
  <1> QED BY <1>1, <1>2, <1>3, <1>4 DEF Next

-----------------------------------------------------------------------------
(* The theorems.                                                           *)

(* The invariant the others follow from.                                   *)
THEOREM RegionsInvariance == Spec => []IInv
  <1>1. Init => IInv
    BY InitInv
  <1>2. IInv /\ [Next]_vars => IInv'
    BY StepInv
  <1> QED BY <1>1, <1>2, PTL DEF Spec

(* Every region is active between two operations, whichever way the last   *)
(* tell restarted regions: allocate leaves none out.                       *)
THEOREM RegionsStayActive == Spec => []RegionsOK
  <1>1. IInv => RegionsOK
    BY DEF IInv
  <1> QED BY <1>1, RegionsInvariance, PTL

(* A caller that tells each ask, whole, before the next one has every      *)
(* trial counted for the region that generated the row.                    *)
THEOREM TrialsAreCredited == Spec => []TrialsAreOfTheirRegion
  <1>1. IInv => TrialsAreOfTheirRegion
    BY DEF IInv
  <1> QED BY <1>1, RegionsInvariance, PTL

(* tell_experimental leaves every region as it was when it returns an      *)
(* error.                                                                  *)
THEOREM ErrorsMoveNoRegion == Spec => FailedTellMovesNoRegion
  <1>1. ASSUME IInv, [Next]_vars
        PROVE  last' # last /\ ~last'.ok => regions' = regions
    <2>1. ASSUME NEW arms \in 1 .. MaxArms, Ask(arms)
          PROVE  regions' = regions
      BY <2>1 DEF Ask
    <2>2. CASE TellAny
      BY <1>1, <2>2, ToldRegions DEF TellAny
    <2>3. CASE TellFailed
      BY <2>3 DEF TellFailed
    <2>4. CASE UNCHANGED vars
      BY <2>4 DEF vars
    <2> QED BY <1>1, <2>1, <2>2, <2>3, <2>4 DEF Next
  <1>2. IInv /\ [Next]_vars => [last' # last /\ ~last'.ok => regions' = regions]_vars
    BY <1>1
  <1> QED BY <1>2, RegionsInvariance, PTL DEF Spec, FailedTellMovesNoRegion

(* A region whose value a tell improves keeps its length, or extends.      *)
THEOREM ImprovedRegionsKeep == Spec => ImprovedRegionKeepsItsLength
  <1>1. ASSUME IInv, [Next]_vars
        PROVE  \A r \in Regions :
                 regions'[r].best > regions[r].best => regions'[r].length >= regions[r].length
    <2>1. CASE regions' = regions
      <3>1. ASSUME NEW r \in Regions
            PROVE  regions[r].length >= regions[r].length
        <4>1. regions[r].length \in 0 .. LengthMax
          BY <1>1 DEF IInv, RegionsOK, TypeOK, Region
        <4> QED BY <4>1, Numbers
      <3> QED BY <2>1, <3>1
    <2>2. ASSUME NEW arms \in 1 .. MaxArms, Ask(arms)
          PROVE  regions' = regions
      BY <2>2 DEF Ask
    <2>3. CASE TellAny
      BY <1>1, <2>3, ToldRegions DEF TellAny
    <2>4. TellFailed \/ UNCHANGED vars => regions' = regions
      BY DEF TellFailed, vars
    <2> QED BY <1>1, <2>1, <2>2, <2>3, <2>4 DEF Next
  <1>2. IInv /\ [Next]_vars =>
          [\A r \in Regions :
             regions'[r].best > regions[r].best => regions'[r].length >= regions[r].length]_vars
    BY <1>1
  <1> QED BY <1>2, RegionsInvariance, PTL DEF Spec, ImprovedRegionKeepsItsLength
=============================================================================
