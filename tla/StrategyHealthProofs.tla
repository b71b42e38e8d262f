------------------------ MODULE StrategyHealthProofs ------------------------
(***************************************************************************)
(* What holds of a research report and of its assessment for series of any *)
(* length, any request, any result of a backtest and any number of trials. *)
(***************************************************************************)
EXTENDS StrategyHealth, FiniteSetTheorems, WellFoundedInduction, TLAPS

-----------------------------------------------------------------------------
Late == {"report", "recorded", "assessed"}
Walked == {"stability", "bootstrap", "gate"} \union Late
Walking == {"walk"} \union Walked
Begun == {"slices"} \union Walking

Types ==
    /\ stage \in Begun \union {"idle", "400", "422"}
    /\ stage \in Begun =>
        /\ n \in Nat
        /\ cfg \in [train: 0..100, val: 0..100, test: 0..100, windows: Nat]
    /\ slices \in [SliceNames -> [trades: Nat, net: -1..1]]
    /\ windows \in [total: Nat, profitable: Nat]
    /\ stability \in [variants: Nat, spread: Nat, stable: BOOLEAN]

\* The windows run so far are those the series allows.
WindowsInv ==
    /\ stage \in {"idle", "slices"} => windows.total = 0
    /\ stage \in Walking => CanWalk(n, cfg.windows)
    /\ stage = "walk" => windows.total < Usable(n, cfg.windows)
    /\ stage \in Walked => windows.total = Usable(n, cfg.windows)

\* A slice with a trade or a profit was long enough, and so were the parameters
\* perturbed when the validation slice was.
EvidenceInv ==
    /\ stage \in Walking =>
        \A name \in SliceNames :
            slices[name].trades > 0 \/ slices[name].net > 0 => Runs(Length(name))
    /\ stage \in {"bootstrap", "gate"} \union Late =>
        stability.variants > 0 \/ ~Runs(Length("val"))
    /\ stage = "report" => gate = Cardinality(GateChecks)

\* An assessment is one of the study it stands beside.
AssessmentInv ==
    assessment # None =>
        /\ stage = "assessed"
        /\ assessment.dd \in Drawdowns
        /\ \E cross \in CrossScores : assessment.status = StatusOf(Robustness(assessment.dd, cross))
        /\ assessment.verdict = Verdict(assessment.status, assessment.dd, Reverse(ledger))

HealthInv == Types /\ WindowsInv /\ EvidenceInv /\ AssessmentInv

-----------------------------------------------------------------------------
(***************************************************************************)
(* walk_forward's arithmetic: with as many windows as 60 bars each allow,  *)
(* every test slice has 60 bars or more and the last one ends the series.  *)
(***************************************************************************)
LEMMA WindowCount ==
    ASSUME NEW m \in Nat, NEW w \in Nat, CanWalk(m, w)
    PROVE  /\ MinTrain(m, w) \in Nat /\ MinTrain(m, w) >= 120
           /\ Usable(m, w) \in Nat /\ Usable(m, w) >= 2
           /\ TestStep(m, w) \in Nat /\ TestStep(m, w) >= 60
           /\ MinTrain(m, w) + Usable(m, w) * TestStep(m, w) <= m
<1> DEFINE t == MinTrain(m, w)
           room == (m - t) \div 60
           u == Usable(m, w)
<1>1. t \in Nat /\ t >= 120 /\ u >= 2 /\ m >= t + 120
  <2>1. m \div (w + 1) \in Nat
    OBVIOUS
  <2>. QED
    BY <2>1 DEF MinTrain, CanWalk
<1> HIDE DEF t
<1>2. m - t \in Nat /\ m - t >= 120
  BY <1>1
<1>3. room \in Nat /\ room >= 2
  BY <1>2
<1>4. u = IF w < room \/ w < 2 THEN w ELSE room
  <2>1. u = LET most == IF room > 2 THEN room ELSE 2 IN IF w < most THEN w ELSE most
    BY DEF Usable, t
  <2>. QED
    BY <2>1, <1>3
<1>5. u \in Nat /\ u <= room
  BY <1>1, <1>3, <1>4
<1> HIDE DEF u
<1>6. TestStep(m, w) = (m - t) \div u
  BY DEF TestStep, Step, t, u
<1>7. (m - t) \div u \in Nat /\ (m - t) \div u >= 60
  <2> DEFINE d == m - t
  <2>1. d \in Nat /\ u \in Nat /\ u >= 2 /\ u <= d \div 60
    BY <1>1, <1>2, <1>5
  <2> HIDE DEF d
  <2>2. d \div u \in Nat /\ d \div u >= 60
    BY <2>1
  <2>. QED
    BY <2>2 DEF d
<1>8. u * ((m - t) \div u) <= m - t
  <2> DEFINE d == m - t
  <2>1. d \in Nat /\ u \in Nat /\ u >= 2
    BY <1>1, <1>2, <1>5
  <2> HIDE DEF d
  <2>2. u * (d \div u) <= d
    BY <2>1
  <2>. QED
    BY <2>2 DEF d
<1>9. t + u * ((m - t) \div u) <= m
  <2> DEFINE x == u * ((m - t) \div u)
  <2>1. x \in Int /\ x <= m - t
    BY <1>5, <1>7, <1>8
  <2> HIDE DEF x
  <2>2. t + x <= m
    BY <1>1, <2>1
  <2>. QED
    BY <2>2 DEF x
<1>. QED
  BY <1>1, <1>5, <1>6, <1>7, <1>9 DEF t, u

\* The slices of the windows.
LEMMA WindowSlices ==
    ASSUME NEW m \in Nat, NEW w \in Nat, CanWalk(m, w),
           NEW k \in 0..(Usable(m, w) - 1)
    PROVE  /\ TestStart(m, w, k) \in Nat /\ TestStart(m, w, k) >= 120
           /\ TestEnd(m, w, k) - TestStart(m, w, k) >= 60
           /\ k = Usable(m, w) - 1 => TestEnd(m, w, k) = m
<1> DEFINE t == MinTrain(m, w)
           u == Usable(m, w)
           s == TestStep(m, w)
<1>1. /\ t \in Nat /\ t >= 120 /\ u \in Nat /\ u >= 2 /\ s \in Nat /\ s >= 60
      /\ t + u * s <= m /\ k \in 0..(u - 1)
  BY WindowCount
<1>2. /\ TestStart(m, w, k) = t + k * s
      /\ TestEnd(m, w, k) = IF k = u - 1 THEN m ELSE t + (k + 1) * s
  BY DEF TestStart, TestEnd
<1> HIDE DEF t, u, s
<1>3. k * s \in Nat /\ (k + 1) * s = k * s + s
  BY <1>1
<1>4. k = u - 1 => u * s = k * s + s
  BY <1>1
<1>5. TestStart(m, w, k) \in Nat /\ TestStart(m, w, k) >= 120
  BY <1>1, <1>2, <1>3
<1>6. CASE k = u - 1
  BY <1>1, <1>2, <1>3, <1>4, <1>5, <1>6 DEF u
<1>7. CASE k # u - 1
  BY <1>1, <1>2, <1>3, <1>5, <1>7 DEF u
<1>. QED
  BY <1>6, <1>7

-----------------------------------------------------------------------------
\* The invariant holds before a study is asked for.
LEMMA HealthInvInit == Init => HealthInv
BY DEF Init, ResearchInit, HealthInv, Types, WindowsInv, EvidenceInv, AssessmentInv,
       Begun, Walking, Walked, Late, NoSlice, NoStability, SliceNames

\* The request of a study keeps the invariant.
LEMMA AskKeeps ==
    ASSUME HealthInv, NEW m \in BarCounts, NEW c \in Percentages, NEW w \in WindowCounts,
           Ask(m, c, w), UNCHANGED <<earlier, ledger, assessment>>
    PROVE  HealthInv'
<1>1. m \in Nat /\ w \in Nat /\ c \in [train: 0..100, val: 0..100, test: 0..100]
  BY ResearchAssumption
<1>2. stage = "idle" /\ stage' \in {"400", "422", "slices"}
  BY DEF Ask
<1>3. Types'
  BY <1>1, <1>2 DEF HealthInv, Types, Ask, Begun
<1>4. WindowsInv' /\ EvidenceInv' /\ AssessmentInv'
  BY <1>2 DEF HealthInv, WindowsInv, EvidenceInv, AssessmentInv, Ask, Walking, Walked, Late
<1>. QED
  BY <1>3, <1>4 DEF HealthInv

\* What a backtest of a slice of some length finds.
LEMMA OutcomeTyped ==
    ASSUME NEW bars, NEW o \in Outcomes(bars)
    PROVE  /\ o \in [trades: Nat, net: -1..1]
           /\ o.trades > 0 \/ o.net > 0 => Runs(bars)
<1>1. CASE Runs(bars)
  BY <1>1, ResearchAssumption DEF Outcomes
<1>2. CASE ~Runs(bars)
  BY <1>2 DEF Outcomes, NoSlice
<1>. QED
  BY <1>1, <1>2

\* The backtests of the three slices keep the invariant.
LEMMA RunSlicesKeeps ==
    ASSUME HealthInv, RunSlices, UNCHANGED <<earlier, ledger, assessment>>
    PROVE  HealthInv'
<1>0. /\ stage = "slices" /\ stage' = (IF CanWalk(n, cfg.windows) THEN "walk" ELSE "422")
      /\ UNCHANGED <<n, cfg, windows, stability, bootstrap, gate>>
  BY DEF RunSlices
<1>1. PICK a \in Outcomes(Length("train")), b \in Outcomes(Length("val")), c \in Outcomes(Length("test")) :
        slices' = [train |-> a, val |-> b, test |-> c]
  BY DEF RunSlices
<1>2. /\ slices'["train"] = a /\ slices'["val"] = b /\ slices'["test"] = c
      /\ slices' \in [SliceNames -> [trades: Nat, net: -1..1]]
  BY <1>1, OutcomeTyped DEF SliceNames
<1>3. \A name \in SliceNames : Length(name)' = Length(name)
  BY <1>0 DEF Length, TrainEnd, ValEnd
<1>4. \A name \in SliceNames :
        slices'[name].trades > 0 \/ slices'[name].net > 0 => Runs(Length(name)')
  <2>1. \A name \in SliceNames :
          slices'[name].trades > 0 \/ slices'[name].net > 0 => Runs(Length(name))
    BY <1>1, <1>2, OutcomeTyped DEF SliceNames
  <2>. QED
    BY <1>3, <2>1 DEF Runs
<1>5. Types'
  BY <1>0, <1>2 DEF HealthInv, Types, Begun, Walking
<1>6. CASE ~CanWalk(n, cfg.windows)
  BY <1>0, <1>5, <1>6
     DEF HealthInv, WindowsInv, EvidenceInv, AssessmentInv, Walking, Walked, Late
<1>7. CASE CanWalk(n, cfg.windows)
  <2>1. n \in Nat /\ cfg.windows \in Nat /\ windows.total = 0
    BY <1>0 DEF HealthInv, Types, WindowsInv, Begun
  <2>2. Usable(n, cfg.windows) >= 2 /\ Usable(n, cfg.windows) \in Nat
    BY <1>7, <2>1, WindowCount
  <2>3. stage' = "walk" /\ Usable(n, cfg.windows)' = Usable(n, cfg.windows)
        /\ CanWalk(n, cfg.windows)' = CanWalk(n, cfg.windows)
    BY <1>0, <1>7 DEF Usable, MinTrain, CanWalk
  <2>4. WindowsInv'
    BY <1>0, <1>7, <2>1, <2>2, <2>3 DEF WindowsInv, Walked, Late
  <2>5. EvidenceInv' /\ AssessmentInv'
    BY <1>0, <1>4, <2>3 DEF HealthInv, EvidenceInv, AssessmentInv, Late
  <2>. QED
    BY <1>5, <2>4, <2>5 DEF HealthInv
<1>. QED
  BY <1>6, <1>7

\* Of a stage that keeps the series, the request and the slices.
LEMMA SameStudy ==
    ASSUME UNCHANGED <<n, cfg>>
    PROVE  /\ Usable(n, cfg.windows)' = Usable(n, cfg.windows)
           /\ CanWalk(n, cfg.windows)' = CanWalk(n, cfg.windows)
           /\ \A name \in SliceNames : Length(name)' = Length(name)
           /\ Length("val")' = Length("val")
BY DEF Usable, MinTrain, CanWalk, Length, TrainEnd, ValEnd

\* One more window of the walk keeps the invariant (research.walk_forward).
LEMMA WalkKeeps ==
    ASSUME HealthInv, NEW profitable \in {0, 1}, Walk(profitable),
           UNCHANGED <<earlier, ledger, assessment>>
    PROVE  HealthInv'
<1> DEFINE k == windows.total
           u == Usable(n, cfg.windows)
<1>0. /\ stage = "walk" /\ UNCHANGED <<n, cfg, slices, stability, bootstrap, gate>>
      /\ n \in Nat /\ cfg.windows \in Nat /\ CanWalk(n, cfg.windows)
      /\ windows \in [total: Nat, profitable: Nat] /\ k \in Nat /\ k < u
  BY DEF Walk, HealthInv, Types, WindowsInv, Begun, Walking
<1>1. u \in Nat /\ u >= 2
  BY <1>0, WindowCount
<1>2. k \in 0..(u - 1)
  BY <1>0, <1>1
<1>3. /\ TestStart(n, cfg.windows, k) \in Nat /\ TestStart(n, cfg.windows, k) >= 120
      /\ TestEnd(n, cfg.windows, k) - TestStart(n, cfg.windows, k) >= 60
  BY <1>0, <1>2, WindowSlices
<1>4. Runs(TestStart(n, cfg.windows, k))
      /\ Runs(TestEnd(n, cfg.windows, k) - TestStart(n, cfg.windows, k))
  BY <1>3 DEF Runs, MinBacktestBars
<1>5. /\ windows' = [total |-> k + 1, profitable |-> windows.profitable + profitable]
      /\ stage' = IF k + 1 < u THEN "walk" ELSE "stability"
  BY <1>4 DEF Walk
<1>6. Types'
  BY <1>0, <1>5 DEF HealthInv, Types, Begun, Walking, Walked
<1>7. WindowsInv'
  BY <1>0, <1>1, <1>5, SameStudy DEF WindowsInv, Walking, Walked, Late
<1>8. EvidenceInv' /\ AssessmentInv'
  <2>1. stage' \in {"walk", "stability"}
    BY <1>5
  <2>2. \A name \in SliceNames :
          slices[name].trades > 0 \/ slices[name].net > 0 => Runs(Length(name))
    BY <1>0 DEF HealthInv, EvidenceInv, Walking
  <2>. QED
    BY <1>0, <2>1, <2>2, SameStudy DEF HealthInv, EvidenceInv, AssessmentInv, Runs, Late
<1>. QED
  BY <1>6, <1>7, <1>8 DEF HealthInv

\* The perturbed parameters keep the invariant.
LEMMA PerturbKeeps ==
    ASSUME HealthInv, NEW variants \in 0..8, NEW spread \in Spreads, Perturb(variants, spread),
           UNCHANGED <<earlier, ledger, assessment>>
    PROVE  HealthInv'
<1>0. /\ stage = "stability" /\ UNCHANGED <<n, cfg, slices, windows, bootstrap, gate>>
      /\ variants \in Variants /\ stage' \in {"bootstrap", "422"}
      /\ stage' = "bootstrap" =>
            stability' = [variants |-> variants, spread |-> spread, stable |-> spread < 150]
      /\ stage' = "422" => UNCHANGED stability
  BY DEF Perturb
<1>1. Types'
  <2>1. stability' \in [variants: Nat, spread: Nat, stable: BOOLEAN]
    <3>1. CASE stage' = "bootstrap"
      <4> DEFINE s == spread < 150
      <4>1. variants \in Nat /\ spread \in Nat /\ s \in BOOLEAN
        BY ResearchAssumption
      <4>2. stability' = [variants |-> variants, spread |-> spread, stable |-> s]
        BY <1>0, <3>1
      <4> HIDE DEF s
      <4>. QED
        BY <4>1, <4>2
    <3>2. CASE stage' = "422"
      BY <1>0, <3>2 DEF HealthInv, Types
    <3>. QED
      BY <1>0, <3>1, <3>2
  <2>. QED
    BY <1>0, <2>1 DEF HealthInv, Types, Begun, Walking, Walked
<1>2. variants > 0 \/ ~Runs(Length("val"))
  BY <1>0 DEF Variants
<1>3. stage' = "bootstrap" => stability'.variants = variants
  BY <1>0
<1>4. WindowsInv'
  BY <1>0, SameStudy DEF HealthInv, WindowsInv, Walking, Walked, Late
<1>5. EvidenceInv'
  <2>1. \A name \in SliceNames :
          slices[name].trades > 0 \/ slices[name].net > 0 => Runs(Length(name))
    BY <1>0 DEF HealthInv, EvidenceInv, Walking, Walked
  <2>. QED
    BY <1>0, <1>2, <1>3, <2>1, SameStudy DEF EvidenceInv, Runs, Walking, Walked, Late
<1>6. AssessmentInv'
  BY <1>0 DEF HealthInv, AssessmentInv
<1>. QED
  BY <1>1, <1>4, <1>5, <1>6 DEF HealthInv

\* The resampled expectancy keeps the invariant.
LEMMA ResampleKeeps ==
    ASSUME HealthInv, NEW real \in BOOLEAN, Resample(real),
           UNCHANGED <<earlier, ledger, assessment>>
    PROVE  HealthInv'
<1>0. /\ stage = "bootstrap" /\ stage' = "gate"
      /\ UNCHANGED <<n, cfg, slices, windows, stability, gate>>
  BY DEF Resample
<1>1. Types'
  BY <1>0 DEF HealthInv, Types, Begun, Walking, Walked
<1>2. WindowsInv'
  BY <1>0, SameStudy DEF HealthInv, WindowsInv, Walking, Walked, Late
<1>3. EvidenceInv' /\ AssessmentInv'
  BY <1>0, SameStudy DEF HealthInv, EvidenceInv, AssessmentInv, Runs, Walking, Walked, Late
<1>. QED
  BY <1>1, <1>2, <1>3 DEF HealthInv

\* The quality gate keeps the invariant, and passes on its checks.
LEMMA JudgeGateKeeps ==
    ASSUME HealthInv, JudgeGate, UNCHANGED <<earlier, ledger, assessment>>
    PROVE  HealthInv'
<1>0. /\ stage = "gate" /\ stage' = "report" /\ gate' = Cardinality(GateChecks)
      /\ UNCHANGED <<n, cfg, slices, windows, stability, bootstrap>>
  BY DEF JudgeGate
<1>1. Types'
  BY <1>0 DEF HealthInv, Types, Begun, Walking, Walked, Late
<1>2. WindowsInv'
  BY <1>0, SameStudy DEF HealthInv, WindowsInv, Walking, Walked, Late
<1>3. GateChecks' = GateChecks
  BY <1>0 DEF GateChecks, Checks
<1>4. EvidenceInv'
  <2>1. /\ \A name \in SliceNames :
             slices[name].trades > 0 \/ slices[name].net > 0 => Runs(Length(name))
        /\ stability.variants > 0 \/ ~Runs(Length("val"))
    BY <1>0 DEF HealthInv, EvidenceInv, Walking, Walked
  <2>. QED
    BY <1>0, <1>3, <2>1, SameStudy DEF EvidenceInv, Runs
<1>5. AssessmentInv'
  BY <1>0 DEF HealthInv, AssessmentInv
<1>. QED
  BY <1>1, <1>2, <1>4, <1>5 DEF HealthInv

\* The trial that is recorded keeps the invariant.
LEMMA AppendTrialKeeps ==
    ASSUME HealthInv, AppendTrial
    PROVE  HealthInv'
<1>0. /\ stage = "report" /\ stage' = "recorded"
      /\ UNCHANGED <<n, cfg, slices, windows, stability, bootstrap, gate, assessment>>
  BY DEF AppendTrial
<1>1. Types'
  BY <1>0 DEF HealthInv, Types, Begun, Walking, Walked, Late
<1>2. WindowsInv'
  BY <1>0, SameStudy DEF HealthInv, WindowsInv, Walking, Walked, Late
<1>3. EvidenceInv' /\ AssessmentInv'
  BY <1>0, SameStudy DEF HealthInv, EvidenceInv, AssessmentInv, Runs, Walking, Walked, Late
<1>. QED
  BY <1>1, <1>2, <1>3 DEF HealthInv

\* The assessment keeps the invariant, and is of the study beside it.
LEMMA AssessKeeps ==
    ASSUME HealthInv, NEW dd \in Drawdowns, NEW cross \in CrossScores, Assess(dd, cross)
    PROVE  HealthInv'
<1> DEFINE status == StatusOf(Robustness(dd, cross))
<1>0. /\ stage = "recorded" /\ stage' = "assessed"
      /\ UNCHANGED <<n, cfg, slices, windows, stability, bootstrap, gate, earlier, ledger>>
      /\ assessment'.dd = dd /\ assessment'.status = status
      /\ assessment'.verdict = Verdict(status, dd, Reverse(ledger))
  BY DEF Assess
<1>1. Types'
  BY <1>0 DEF HealthInv, Types, Begun, Walking, Walked, Late
<1>2. WindowsInv'
  BY <1>0, SameStudy DEF HealthInv, WindowsInv, Walking, Walked, Late
<1>3. EvidenceInv'
  BY <1>0, SameStudy DEF HealthInv, EvidenceInv, Runs, Walking, Walked, Late
<1>4. /\ Robustness(dd, cross)' = Robustness(dd, cross)
      /\ Verdict(status, dd, Reverse(ledger))' = Verdict(status, dd, Reverse(ledger))
  <2>1. Scores(dd, cross)' = Scores(dd, cross) /\ Shortfall' = Shortfall
        /\ TestTrades' = TestTrades
    BY <1>0 DEF Scores, ScoreOos, ScoreWalk, ScoreRisk, ScoreDrawdown, ScoreStability,
                ScoreCosts, ScoreMarkets, Shortfall, TestTrades
  <2>2. Robustness(dd, cross)' = Robustness(dd, cross)
    BY <2>1 DEF Robustness, HundredthsOf
  <2>3. AllTrades' = AllTrades /\ OosPassed' = OosPassed /\ WalkPassed' = WalkPassed
    BY <1>0 DEF AllTrades, OosPassed, WalkPassed
  <2>4. ASSUME NEW st, NEW ts
        PROVE  Verdict(st, dd, ts)' = Verdict(st, dd, ts)
    BY <1>0, <2>1, <2>3 DEF Verdict
  <2>. QED
    BY <1>0, <2>2, <2>4
<1>5. AssessmentInv'
  BY <1>0, <1>4 DEF AssessmentInv
<1>. QED
  BY <1>1, <1>2, <1>3, <1>5 DEF HealthInv

\* The next study starts from the ledger of those before it.
LEMMA AgainKeeps ==
    ASSUME HealthInv, Again
    PROVE  HealthInv'
BY DEF Again, HealthInv, Types, WindowsInv, EvidenceInv, AssessmentInv,
       Begun, Walking, Walked, Late, NoSlice, NoStability, SliceNames

-----------------------------------------------------------------------------
\* Whatever the series, the request and the results of the backtests, a report
\* runs the windows its series allows, and an assessment is one of its study.
THEOREM HealthInvariant == Spec => []HealthInv
<1>1. Init => HealthInv
  BY HealthInvInit
<1>2. HealthInv /\ [Next]_vars => HealthInv'
  <2> SUFFICES ASSUME HealthInv, [Next]_vars PROVE HealthInv'
    OBVIOUS
  <2>1. CASE ResearchNext /\ UNCHANGED <<earlier, ledger, assessment>>
    <3>1. ASSUME NEW m \in BarCounts, NEW c \in Percentages, NEW w \in WindowCounts, Ask(m, c, w)
          PROVE  HealthInv'
      BY <2>1, <3>1, AskKeeps
    <3>2. CASE RunSlices
      BY <2>1, <3>2, RunSlicesKeeps
    <3>3. ASSUME NEW profitable \in {0, 1}, Walk(profitable) PROVE HealthInv'
      BY <2>1, <3>3, WalkKeeps
    <3>4. ASSUME NEW variants \in 0..8, NEW spread \in Spreads, Perturb(variants, spread)
          PROVE  HealthInv'
      BY <2>1, <3>4, PerturbKeeps
    <3>5. ASSUME NEW real \in BOOLEAN, Resample(real) PROVE HealthInv'
      BY <2>1, <3>5, ResampleKeeps
    <3>6. CASE JudgeGate
      BY <2>1, <3>6, JudgeGateKeeps
    <3>. QED
      BY <2>1, <3>1, <3>2, <3>3, <3>4, <3>5, <3>6 DEF ResearchNext
  <2>2. CASE AppendTrial
    BY <2>2, AppendTrialKeeps
  <2>3. ASSUME NEW dd \in Drawdowns, NEW cross \in CrossScores, Assess(dd, cross)
        PROVE  HealthInv'
    BY <2>3, AssessKeeps
  <2>4. CASE Again
    BY <2>4, AgainKeeps
  <2>5. CASE UNCHANGED vars
    <3>1. UNCHANGED <<stage, n, cfg, slices, windows, stability, bootstrap, gate,
                      earlier, ledger, assessment>>
      BY <2>5 DEF vars, researchVars
    <3>2. Types' /\ WindowsInv'
      BY <3>1, SameStudy DEF HealthInv, Types, WindowsInv
    <3>3. GateChecks' = GateChecks
      BY <3>1 DEF GateChecks, Checks
    <3>4. EvidenceInv'
      BY <3>1, <3>3, SameStudy DEF HealthInv, EvidenceInv, Runs
    <3>5. AssessmentInv'
      <4>1. CASE assessment = None
        BY <3>1, <4>1 DEF AssessmentInv
      <4>2. CASE assessment # None
        <5>1. ASSUME NEW dd, NEW cross PROVE Robustness(dd, cross)' = Robustness(dd, cross)
          <6>1. Scores(dd, cross)' = Scores(dd, cross) /\ Shortfall' = Shortfall
            BY <3>1 DEF Scores, ScoreOos, ScoreWalk, ScoreRisk, ScoreDrawdown, ScoreStability,
                        ScoreCosts, ScoreMarkets, Shortfall, TestTrades
          <6>. QED
            BY <6>1 DEF Robustness, HundredthsOf
        <5>2. ASSUME NEW st, NEW dd, NEW ts PROVE Verdict(st, dd, ts)' = Verdict(st, dd, ts)
          BY <3>1 DEF Verdict, TestTrades, AllTrades, OosPassed, WalkPassed
        <5>. QED
          BY <3>1, <4>2, <5>1, <5>2 DEF HealthInv, AssessmentInv
      <4>. QED
        BY <4>1, <4>2
    <3>. QED
      BY <3>2, <3>4, <3>5 DEF HealthInv
  <2>. QED
    BY <2>1, <2>2, <2>3, <2>4, <2>5 DEF Next
<1>. QED
  BY <1>1, <1>2, PTL DEF Spec

\* The walk-forward windows follow one another to the end of a series of any
\* length, each test slice long enough to be run and none passed over.
THEOREM WindowsCoverSeries == Spec => []WindowsCover
<1>1. HealthInv => WindowsCover
  <2> SUFFICES ASSUME HealthInv, stage \in {"walk", "stability", "bootstrap", "gate", "report"}
               PROVE  /\ \A k \in 0..(Usable(n, cfg.windows) - 1) :
                          /\ TestStart(n, cfg.windows, k) >= 120
                          /\ TestEnd(n, cfg.windows, k) - TestStart(n, cfg.windows, k) >= MinBacktestBars
                      /\ TestEnd(n, cfg.windows, Usable(n, cfg.windows) - 1) = n
                      /\ stage # "walk" => windows.total = Usable(n, cfg.windows)
    BY DEF WindowsCover
  <2>1. n \in Nat /\ cfg.windows \in Nat /\ CanWalk(n, cfg.windows)
    BY DEF HealthInv, Types, WindowsInv, Begun, Walking, Walked, Late
  <2>2. Usable(n, cfg.windows) \in Nat /\ Usable(n, cfg.windows) >= 2
    BY <2>1, WindowCount
  <2>3. Usable(n, cfg.windows) - 1 \in 0..(Usable(n, cfg.windows) - 1)
    BY <2>2
  <2>4. TestEnd(n, cfg.windows, Usable(n, cfg.windows) - 1) = n
    BY <2>1, <2>3, WindowSlices
  <2>5. stage # "walk" => windows.total = Usable(n, cfg.windows)
    BY DEF HealthInv, WindowsInv, Walked, Late
  <2>6. \A k \in 0..(Usable(n, cfg.windows) - 1) :
            /\ TestStart(n, cfg.windows, k) >= 120
            /\ TestEnd(n, cfg.windows, k) - TestStart(n, cfg.windows, k) >= MinBacktestBars
    BY <2>1, WindowSlices DEF MinBacktestBars
  <2>. QED
    BY <2>4, <2>5, <2>6
<1>. QED
  BY <1>1, HealthInvariant, PTL

\* A passed quality gate has seen a backtest of all three slices and perturbed
\* parameters, though it checks neither, whatever the slices and the results.
THEOREM PassedRests == Spec => []PassedOnEvidence
<1>1. HealthInv => PassedOnEvidence
  <2> SUFFICES ASSUME HealthInv, Passed
               PROVE  /\ \A name \in SliceNames : Runs(Length(name))
                      /\ stability.variants > 0
    BY DEF PassedOnEvidence
  <2>1. stage = "report" /\ Cardinality(Checks) = 7
    BY DEF Passed, HealthInv, EvidenceInv, GateChecks
  <2>2. Checks = 1..7
    <3> DEFINE lo == 1  hi == 7
    <3>0. lo \in Int /\ hi \in Int /\ lo <= hi /\ hi - lo + 1 = 7
      OBVIOUS
    <3> HIDE DEF lo, hi
    <3>a. IsFiniteSet(lo..hi) /\ Cardinality(lo..hi) = 7
      BY <3>0, FS_Interval
    <3>1. IsFiniteSet(1..7) /\ Cardinality(1..7) = 7
      BY <3>a DEF lo, hi
    <3>2. Checks \in SUBSET (1..7)
      BY DEF Checks
    <3>. QED
      BY <2>1, <3>1, <3>2, FS_Subset
  <2>3. 1 \in Checks /\ 2 \in Checks /\ 3 \in Checks /\ 4 \in Checks
    BY <2>2
  <2>4. slices.train.trades >= 10 /\ slices.val.net > 0 /\ slices.test.net > 0
    BY <2>3 DEF Checks, MinTradesPerSplit
  <2>5. slices["train"].trades > 0
    BY <2>4 DEF HealthInv, Types, SliceNames
  <2>6. \A name \in SliceNames : Runs(Length(name))
    BY <2>1, <2>4, <2>5 DEF HealthInv, EvidenceInv, Walking, Walked, Late, SliceNames
  <2>7. stability.variants > 0
    BY <2>1, <2>6 DEF HealthInv, EvidenceInv, Late, SliceNames
  <2>. QED
    BY <2>6, <2>7
<1>. QED
  BY <1>1, HealthInvariant, PTL

(***************************************************************************)
(* The weights: each score is at most 100, so that a total that rounds to  *)
(* 75 leaves less than a thousand hundredths to be missed.                 *)
(***************************************************************************)
LEMMA ScoreBounds ==
    ASSUME HealthInv, NEW dd \in Nat, NEW cross \in Nat \union {None}
    PROVE  /\ ScoreOos \in {0, 30, 60, 100} /\ ScoreWalk \in {20, 70, 100}
           /\ ScoreDrawdown(dd) \in 0..100 /\ ScoreStability \in 0..100
           /\ ScoreMarkets(cross) \in 0..100 /\ Shortfall \in 0..30
           /\ ScoreOos = 100 => OosPassed /\ TestTrades >= 30
           /\ ScoreWalk # 20 => WalkPassed
           /\ ScoreDrawdown(dd) > 30 => DrawdownPassed(dd)
<1>1. /\ slices["test"].trades \in Nat /\ slices["test"].net \in -1..1 /\ slices["val"].net \in -1..1
      /\ windows.total \in Nat /\ windows.profitable \in Nat
  BY DEF HealthInv, Types, SliceNames
<1>2. TestTrades \in Nat
  BY <1>1 DEF TestTrades
<1>3. /\ ScoreOos \in {0, 30, 60, 100} /\ Shortfall \in 0..30
      /\ ScoreOos = 100 => OosPassed /\ TestTrades >= 30
  BY <1>1, <1>2 DEF ScoreOos, OosPassed, Shortfall
<1>4. ScoreWalk \in {20, 70, 100} /\ (ScoreWalk # 20 => WalkPassed)
  BY <1>1 DEF ScoreWalk, WalkPassed
<1>5. ScoreDrawdown(dd) \in 0..100 /\ (ScoreDrawdown(dd) > 30 => DrawdownPassed(dd))
  BY DEF ScoreDrawdown, DrawdownPassed
<1>6. ScoreStability \in 0..100
  BY DEF ScoreStability
<1>7. ScoreMarkets(cross) \in 0..100
  BY DEF ScoreMarkets
<1>. QED
  BY <1>3, <1>4, <1>5, <1>6, <1>7

\* A score that rounds to 75 or more is one of at least 7450 hundredths.
LEMMA SeventyFive ==
    ASSUME NEW h \in Int, LET s == Rounded(h)
                              x == IF s < 0 THEN 0 ELSE IF s > 100 THEN 100 ELSE s
                          IN  x >= 75
    PROVE  h >= 7450
<1>1. Rounded(h) >= 75
  <2>1. Rounded(h) \in Int
    BY DEF Rounded
  <2>. QED
    BY <2>1
<1>2. h \div 100 \in Int /\ h % 100 \in 0..99 /\ h = 100 * (h \div 100) + (h % 100)
  <2>1. h \div 100 \in Int
    OBVIOUS
  <2>2. h % 100 \in 0..99
    OBVIOUS
  <2>3. h = 100 * (h \div 100) + (h % 100)
    OBVIOUS
  <2>. QED
    BY <2>1, <2>2, <2>3
<1> DEFINE q == h \div 100
           r == h % 100
<1>3. Rounded(h) = IF r > 50 \/ (r = 50 /\ q % 2 = 1) THEN q + 1 ELSE q
  BY DEF Rounded
<1> HIDE DEF q, r
<1>4. q \in Int /\ r \in 0..99 /\ h = 100 * q + r
  BY <1>2 DEF q, r
<1>5. q >= 75 \/ (q >= 74 /\ r >= 50)
  BY <1>1, <1>3, <1>4
<1>. QED
  BY <1>4, <1>5

\* A strategy shown as HEALTHY has passed out of sample, walk-forward and in
\* drawdown, on thirty test trades: no other scores make up for one of these,
\* however they fall.
THEOREM HealthySound == Spec => []HealthyIsSound
<1>1. HealthInv => HealthyIsSound
  <2> SUFFICES ASSUME HealthInv, assessment # None, assessment.status = "HEALTHY"
               PROVE  OosPassed /\ WalkPassed /\ DrawdownPassed(assessment.dd) /\ TestTrades >= 30
    BY DEF HealthyIsSound
  <2> DEFINE dd == assessment.dd
  <2>1. PICK cross \in CrossScores : assessment.status = StatusOf(Robustness(dd, cross))
    BY DEF HealthInv, AssessmentInv
  <2>2. dd \in Nat /\ cross \in Nat \union {None}
    BY HealthAssumption DEF HealthInv, AssessmentInv
  <2> DEFINE a == ScoreOos
             w == ScoreWalk
             d == ScoreDrawdown(dd)
             s == ScoreStability
             m == ScoreMarkets(cross)
             h == HundredthsOf(Scores(dd, cross)) - 100 * Shortfall
  <2>3. /\ a \in {0, 30, 60, 100} /\ w \in {20, 70, 100} /\ d \in 0..100 /\ s \in 0..100
        /\ m \in 0..100 /\ Shortfall \in 0..30
        /\ a = 100 => OosPassed /\ TestTrades >= 30
        /\ w # 20 => WalkPassed
        /\ d > 30 => DrawdownPassed(dd)
    BY <2>2, ScoreBounds
  <2>4. h = a * 25 + w * 20 + 15 * 15 + d * 15 + s * 10 + 50 * 10 + m * 5 - 100 * Shortfall
    <3>1. /\ ScoreWeights[1] = 25 /\ ScoreWeights[2] = 20 /\ ScoreWeights[3] = 15
          /\ ScoreWeights[4] = 15 /\ ScoreWeights[5] = 10 /\ ScoreWeights[6] = 10
          /\ ScoreWeights[7] = 5
      BY DEF ScoreWeights, Weight
    <3> DEFINE x == Scores(dd, cross)
    <3>2. /\ x[1] = a /\ x[2] = w /\ x[3] = 15 /\ x[4] = d /\ x[5] = s /\ x[6] = 50 /\ x[7] = m
      BY DEF Scores, ScoreRisk, ScoreCosts
    <3> HIDE DEF x, a, w, d, s, m
    <3>. QED
      BY <2>3, <3>1, <3>2 DEF HundredthsOf, x
  <2>5. Robustness(dd, cross) >= 75
    BY <2>1 DEF StatusOf
  <2>6. Robustness(dd, cross)
          = LET z == Rounded(h) IN IF z < 0 THEN 0 ELSE IF z > 100 THEN 100 ELSE z
    BY DEF Robustness
  <2> HIDE DEF a, w, d, s, m, h
  <2>7. h \in Int
    BY <2>3, <2>4
  <2>8. h >= 7450
    BY <2>5, <2>6, <2>7, SeventyFive
  <2>9. a = 100 /\ w # 20 /\ d > 30
    BY <2>3, <2>4, <2>8
  <2>. QED
    BY <2>3, <2>9
<1>. QED
  BY <1>1, HealthInvariant, PTL

\* A verdict above FAILED rests on profits in validation and test and in half
\* of four windows or more.
THEOREM VerdictRests == Spec => []VerdictNeedsEdge
<1>1. HealthInv => VerdictNeedsEdge
  BY DEF HealthInv, AssessmentInv, VerdictNeedsEdge, Verdict, OosPassed, WalkPassed
<1>. QED
  BY <1>1, HealthInvariant, PTL

-----------------------------------------------------------------------------
(***************************************************************************)
(* The study.  The slices are cut so that no bar is dropped or used twice, *)
(* and a percentage of bars that rounds to none is refused.                *)
(***************************************************************************)
SplitInv == stage \in Begun => SplitIsPartition

\* A request whose slices are not empty has its whole series in them.
LEMMA AskSplits ==
    ASSUME NEW m \in BarCounts, NEW c \in Percentages, NEW w \in WindowCounts, Ask(m, c, w),
           stage' \in Begun
    PROVE  SplitIsPartition'
<1> DEFINE a == (m * c.train) \div 100
           b == (m * c.val) \div 100
<1>1. /\ m \in Nat /\ c.train \in Nat /\ c.val \in Nat /\ c.test \in Nat
      /\ c.train + c.val + c.test = 100
      /\ 0 \notin {TrainEnd(m, c), ValEnd(m, c) - TrainEnd(m, c), m - ValEnd(m, c)}
      /\ n' = m /\ cfg'.train = c.train /\ cfg'.val = c.val
  <2>1. stage' \notin {"400", "422"}
    BY DEF Begun, Walking, Walked, Late
  <2> QED
    BY <2>1, ResearchAssumption DEF Ask, ValidConfig
<1>2. m * c.train \in Nat /\ m * c.val \in Nat /\ m * c.test \in Nat
      /\ m * c.train + m * c.val + m * c.test = 100 * m
  <2>1. \A i, j \in Nat : i * j \in Nat
    OBVIOUS
  <2>2. \A x, y, z \in Nat : m * x + m * y + m * z = m * (x + y + z)
    BY <1>1
  <2>3. m * (c.train + c.val + c.test) = m * 100
    BY <1>1
  <2> QED
    BY <1>1, <2>1, <2>2, <2>3
<1>3. a \in Nat /\ b \in Nat /\ 100 * a <= m * c.train /\ 100 * b <= m * c.val
  <2>1. \A x \in Nat : x \div 100 \in Nat /\ 100 * (x \div 100) <= x
    OBVIOUS
  <2> QED
    BY <1>2, <2>1
<1>4. a + b <= m
  BY <1>1, <1>2, <1>3
<1>5. TrainEnd(m, c) = a /\ ValEnd(m, c) = a + b
  BY DEF TrainEnd, ValEnd
<1>6. TrainEnd(n, cfg)' = a /\ ValEnd(n, cfg)' = a + b
  BY <1>1 DEF TrainEnd, ValEnd
<1>7. Length("train")' = a /\ Length("val")' = (a + b) - a /\ Length("test")' = m - (a + b)
  BY <1>1, <1>6 DEF Length
<1>8. a > 0 /\ (a + b) - a > 0 /\ m - (a + b) > 0
  <2> HIDE DEF a, b
  <2> QED
    BY <1>1, <1>3, <1>4, <1>5
<1> QED
  <2> HIDE DEF a, b
  <2>1. \A name \in SliceNames : Length(name)' > 0
    BY <1>7, <1>8 DEF SliceNames
  <2> QED
    BY <1>1, <1>3, <1>4, <1>6, <1>7, <2>1 DEF SplitIsPartition

\* Whatever the series and the request, a study that goes on has cut its series
\* into three slices that are not empty and together are the whole of it
\* (research.split_chronological).
THEOREM SplitWhole == Spec => []SplitIsPartition
<1>1. Init => SplitInv
  BY DEF Init, ResearchInit, SplitInv, Begun, Walking, Walked, Late
<1>2. HealthInv /\ SplitInv /\ [Next]_vars => SplitInv'
  <2> SUFFICES ASSUME HealthInv, SplitInv, [Next]_vars, stage' \in Begun
               PROVE  SplitIsPartition'
    BY DEF SplitInv
  <2>1. ASSUME stage \in Begun, UNCHANGED <<n, cfg>>
        PROVE  SplitIsPartition'
    <3>1. SplitIsPartition
      BY <2>1 DEF SplitInv
    <3>2. /\ \A name \in SliceNames : Length(name)' = Length(name)
          /\ ValEnd(n, cfg)' = ValEnd(n, cfg)
      BY <2>1 DEF Length, ValEnd, TrainEnd
    <3>3. stage \notin {"idle", "400", "422"}
      BY <2>1 DEF Begun, Walking, Walked, Late
    <3> QED
      BY <2>1, <3>1, <3>2, <3>3 DEF SplitIsPartition, SliceNames
  <2>2. ASSUME NEW m \in BarCounts, NEW c \in Percentages, NEW w \in WindowCounts, Ask(m, c, w)
        PROVE  SplitIsPartition'
    BY <2>2, AskSplits
  <2>3. CASE \/ RunSlices
             \/ \E profitable \in {0, 1} : Walk(profitable)
             \/ \E variants \in 0..8, spread \in Spreads : Perturb(variants, spread)
             \/ \E real \in BOOLEAN : Resample(real)
             \/ JudgeGate
             \/ AppendTrial
             \/ \E dd \in Drawdowns, cross \in CrossScores : Assess(dd, cross)
    <3>1. stage \in Begun /\ UNCHANGED <<n, cfg>>
      BY <2>3 DEF RunSlices, Walk, Perturb, Resample, JudgeGate, AppendTrial, Assess,
                  Begun, Walking, Walked, Late
    <3> QED
      BY <2>1, <3>1
  <2>4. CASE Again
    BY <2>4 DEF Again, Begun, Walking, Walked, Late
  <2>5. CASE UNCHANGED vars
    BY <2>1, <2>5 DEF vars, researchVars
  <2> QED
    BY <2>2, <2>3, <2>4, <2>5 DEF Next, ResearchNext
<1>3. HealthInv /\ SplitInv => SplitIsPartition
  BY DEF HealthInv, Types, SplitInv, SplitIsPartition
<1> QED
  BY <1>1, <1>2, <1>3, HealthInvariant, PTL DEF Spec

-----------------------------------------------------------------------------
(***************************************************************************)
(* The statistics over the trials.  max takes the first of the best, and   *)
(* the best of some trials is one of them: two halves of the trials have   *)
(* none in common, so that pbo counts every one of its combinations.       *)
(***************************************************************************)
\* A set of numbers that has members has a smallest one.
LEMMA LeastOf ==
    ASSUME NEW S \in SUBSET Nat, S # {}
    PROVE  \E x \in S : \A y \in S : x <= y
<1>1. PICK x \in S : \A y \in S : ~ (<<y, x>> \in OpToRel(<, Nat))
  BY NatLessThanWellFounded, WFMin
<1>2. ASSUME NEW y \in S PROVE x <= y
  <2>1. <<y, x>> \in Nat \X Nat /\ <<y, x>>[1] = y /\ <<y, x>>[2] = x
    OBVIOUS
  <2>2. y < x => <<y, x>> \in OpToRel(<, Nat)
    BY <2>1 DEF OpToRel
  <2>3. ~(y < x)
    BY <1>1, <2>2
  <2> QED
    BY <2>3
<1> QED
  BY <1>2

\* The best of a set of trials is one of them.
LEMMA BestIsOne ==
    ASSUME NEW m \in Nat, NEW hi \in Int, NEW sharpe, \A k \in 1..m : sharpe[k] \in Int /\ sharpe[k] <= hi,
           NEW S \in SUBSET (1..m), S # {}
    PROVE  Best(S, sharpe) \in S
<1> DEFINE gap(k) == hi - sharpe[k]
           gaps == {gap(k) : k \in S}
<1>1. \A k \in S : gap(k) \in Nat /\ sharpe[k] \in Int /\ k \in Nat
  OBVIOUS
<1>2. PICK g \in gaps : \A x \in gaps : g <= x
  <2>1. gaps \in SUBSET Nat
    BY <1>1
  <2>2. gaps # {}
    OBVIOUS
  <2> HIDE DEF gaps
  <2> QED
    BY <2>1, <2>2, LeastOf
<1> DEFINE first == {k \in S : gap(k) = g}
<1>3. PICK k \in first : \A j \in first : k <= j
  <2>1. first \in SUBSET Nat /\ first # {}
    BY <1>1, <1>2
  <2> QED
    BY <2>1, LeastOf
<1>4. \A j \in S : sharpe[j] < sharpe[k] \/ (sharpe[j] = sharpe[k] /\ k <= j)
  <2> SUFFICES ASSUME NEW j \in S
               PROVE  sharpe[j] < sharpe[k] \/ (sharpe[j] = sharpe[k] /\ k <= j)
    OBVIOUS
  <2>1. g <= gap(j) /\ gap(k) = g /\ k \in S
    BY <1>2, <1>3
  <2>2. gap(j) = g => k <= j
    BY <1>3
  <2> QED
    BY <1>1, <2>1, <2>2
<1>5. k \in S
  BY <1>3
<1> QED
  BY <1>4, <1>5 DEF Best

\* However the trials did, pbo finds every best of one half beaten in the other:
\* with ten trials or more, as with fewer, its probability is 1 (research.pbo).
THEOREM PboIsBlind ==
    ASSUME NEW m \in Nat, NEW hi \in Int, NEW train, NEW test,
           \A k \in 1..m : /\ train[k] \in Int /\ train[k] <= hi
                           /\ test[k] \in Int /\ test[k] <= hi
    PROVE  Pbo(m, train, test) = 100
<1>1. CASE m < 10
  BY <1>1 DEF Pbo
<1>2. CASE m >= 10
  <2>1. IsFiniteSet(1..m) /\ Cardinality(1..m) = m
    BY FS_Interval
  <2>2. m \div 2 \in Nat /\ m \div 2 > 0 /\ m \div 2 < m
    BY <1>2
  <2>3. ASSUME NEW S \in Halves(m)
        PROVE  Best(S, train) # Best((1..m) \ S, test)
    <3>1. S \in SUBSET (1..m) /\ Cardinality(S) = m \div 2
      BY DEF Halves
    <3>2. S # {} /\ S # 1..m
      <4>1. Cardinality({}) = 0
        BY FS_EmptySet
      <4>2. S # {}
        BY <2>2, <3>1, <4>1
      <4>3. S # 1..m
        BY <2>1, <2>2, <3>1
      <4> QED
        BY <4>2, <4>3
    <3>3. (1..m) \ S # {}
      BY <3>1, <3>2
    <3>4. Best(S, train) \in S
      BY <3>1, <3>2, BestIsOne
    <3>5. Best((1..m) \ S, test) \in (1..m) \ S
      BY <3>3, BestIsOne
    <3> QED
      BY <3>4, <3>5
  <2>4. Overfit(m, train, test) = Halves(m)
    BY <2>3 DEF Overfit
  <2>5. Cardinality(Halves(m)) \in Nat \ {0}
    <3>1. IsFiniteSet(SUBSET (1..m)) /\ Halves(m) \subseteq SUBSET (1..m)
      BY <2>1, FS_SUBSET DEF Halves
    <3>2. IsFiniteSet(Halves(m))
      BY <3>1, FS_Subset
    <3>3. Cardinality(1..(m \div 2)) = m \div 2
      BY <2>2, FS_Interval
    <3>4. 1..(m \div 2) \in Halves(m)
      BY <2>2, <3>3 DEF Halves
    <3> QED
      BY <3>2, <3>4, FS_EmptySet, FS_CardinalityType
  <2>6. \A c \in Nat \ {0} : (100 * c) \div c = 100
    OBVIOUS
  <2> QED
    BY <1>2, <2>4, <2>5, <2>6 DEF Pbo
<1> QED
  BY <1>1, <1>2

\* The trials recorded are those the ledger began with and at most MaxTrials more.
LedgerInv ==
    /\ earlier \in EarlierTrials
    /\ ledger \in Seq([bars: Nat, passed: BOOLEAN, hasKey: BOOLEAN, namesTest: BOOLEAN])
    /\ \E k \in 0..MaxTrials : Len(ledger) = earlier + k

\* Every step keeps the ledger within its bound.
LEMMA LedgerHolds == Spec => []LedgerInv
<1> DEFINE Record == [bars: Nat, passed: BOOLEAN, hasKey: BOOLEAN, namesTest: BOOLEAN]
<1>1. Init => LedgerInv
  <2> SUFFICES ASSUME Init PROVE LedgerInv
    OBVIOUS
  <2>1. earlier \in EarlierTrials /\ earlier \in Nat /\ ledger = [k \in 1..earlier |-> OldTrial]
    BY HealthAssumption DEF Init
  <2>2. OldTrial \in Record
    BY DEF OldTrial
  <2> HIDE DEF Record
  <2>3. ledger \in Seq(Record) /\ Len(ledger) = earlier
    BY <2>1, <2>2
  <2>4. 0 \in 0..MaxTrials /\ earlier = earlier + 0
    BY <2>1, HealthAssumption
  <2> QED
    BY <2>1, <2>3, <2>4 DEF LedgerInv, Record
<1>2. HealthInv /\ LedgerInv /\ [Next]_vars => LedgerInv'
  <2> SUFFICES ASSUME HealthInv, LedgerInv, [Next]_vars PROVE LedgerInv'
    OBVIOUS
  <2>1. CASE UNCHANGED <<earlier, ledger>>
    BY <2>1 DEF LedgerInv
  <2>2. CASE AppendTrial
    <3> DEFINE t == [bars |-> n, passed |-> Passed, hasKey |-> FALSE, namesTest |-> TRUE]
    <3>1. ledger' = Append(ledger, t) /\ UNCHANGED earlier /\ Len(ledger) < earlier + MaxTrials
      BY <2>2 DEF AppendTrial
    <3>2. n \in Nat
      BY <2>2 DEF AppendTrial, HealthInv, Types, Begun, Walking, Walked, Late
    <3>3. Passed \in BOOLEAN
      BY Zenon DEF Passed
    <3>4. t \in Record
      BY <3>2, <3>3, Zenon
    <3>5. ledger \in Seq(Record) /\ \E k \in 0..MaxTrials : Len(ledger) = earlier + k
      BY DEF LedgerInv
    <3> HIDE DEF t, Record
    <3>6. ledger' \in Seq(Record) /\ Len(ledger') = Len(ledger) + 1
      BY <3>1, <3>4, <3>5
    <3>7. earlier \in Nat /\ MaxTrials \in Nat
      BY HealthAssumption DEF LedgerInv
    <3>8. PICK k \in 0..MaxTrials : Len(ledger) = earlier + k
      BY <3>5
    <3>9. k + 1 \in 0..MaxTrials /\ Len(ledger') = earlier + (k + 1)
      BY <3>1, <3>6, <3>7, <3>8
    <3> QED
      BY <3>1, <3>6, <3>9 DEF LedgerInv, Record
  <2> QED
    BY <2>1, <2>2 DEF Next, Assess, Again, vars
<1> QED
  BY <1>1, <1>2, HealthInvariant, PTL DEF Spec

\* An assessment that names a probability of overfitting names 100 in a hundred,
\* for any series, any results and any number of trials (research.pbo).
THEOREM PboAlwaysNamesOne == Spec => []PboAlwaysOne
<1>1. Init => PboAlwaysOne
  BY DEF Init, PboAlwaysOne
<1>2. LedgerInv /\ PboAlwaysOne /\ [Next]_vars => PboAlwaysOne'
  <2> SUFFICES ASSUME LedgerInv, PboAlwaysOne, [Next]_vars PROVE PboAlwaysOne'
    OBVIOUS
  <2>1. ASSUME NEW dd \in Drawdowns, NEW cross \in CrossScores, Assess(dd, cross)
        PROVE  PboAlwaysOne'
    <3> DEFINE m == Len(ledger)
    <3>1. assessment'.pbo = IF m < 10 THEN None ELSE PboProb(m)
      BY <2>1 DEF Assess
    <3>2. m \in Nat /\ m \in {e + k : e \in EarlierTrials, k \in 0..MaxTrials}
      BY DEF LedgerInv
    <3>3. PboProb(m) = Pbo(m, Zeros(m), Zeros(m))
      BY <3>2 DEF PboProb, PboProbs
    <3>4. \A k \in 1..m : Zeros(m)[k] \in Int /\ Zeros(m)[k] <= 0
      BY DEF Zeros
    <3>5. Pbo(m, Zeros(m), Zeros(m)) = 100
      BY <3>2, <3>4, PboIsBlind
    <3> QED
      BY <3>1, <3>3, <3>5 DEF PboAlwaysOne
  <2>2. CASE assessment' = None \/ UNCHANGED assessment
    BY <2>2 DEF PboAlwaysOne
  <2> QED
    BY <2>1, <2>2 DEF Next, AppendTrial, Again, vars
<1> QED
  BY <1>1, <1>2, LedgerHolds, PTL DEF Spec

\* A trial once recorded stays where it is: every step leaves the ledger or adds
\* to its end (trial_ledger.append_trial).
THEOREM LedgerOnlyGrows == Spec => LedgerGrows
<1>1. LedgerInv /\ [Next]_vars => [IsPrefix(ledger, ledger')]_vars
  <2> SUFFICES ASSUME LedgerInv, [Next]_vars PROVE IsPrefix(ledger, ledger')
    OBVIOUS
  <2>1. ledger \in Seq([bars: Nat, passed: BOOLEAN, hasKey: BOOLEAN, namesTest: BOOLEAN])
    BY DEF LedgerInv
  <2>2. CASE UNCHANGED ledger
    BY <2>1, <2>2 DEF IsPrefix
  <2>3. CASE AppendTrial
    <3> DEFINE t == [bars |-> n, passed |-> Passed, hasKey |-> FALSE, namesTest |-> TRUE]
    <3>1. ledger' = Append(ledger, t)
      BY <2>3 DEF AppendTrial
    <3> HIDE DEF t
    <3> QED
      BY <2>1, <3>1 DEF IsPrefix
  <2> QED
    BY <2>2, <2>3 DEF Next, Assess, Again, vars
<1> QED
  BY <1>1, LedgerHolds, PTL DEF Spec, LedgerGrows
=============================================================================
