--------------------------- MODULE ResearchReport ---------------------------
(***************************************************************************)
(* research.research_report as POST /api/research runs it: chronological   *)
(* split, a backtest of each slice, walk-forward windows, perturbations of *)
(* the parameters, bootstrap, and the quality gate over all of it.         *)
(*                                                                         *)
(* A series is its number of bars and a slice an interval of it.  What a   *)
(* backtest finds on a slice it accepts is a free choice of trades and of  *)
(* the sign of their result; whether it accepts the slice is not.          *)
(***************************************************************************)
EXTENDS Integers, FiniteSets

CONSTANTS
    BarCounts,      \* lengths of the series a broker may return
    Percentages,    \* trainPct, valPct, testPct of a request, in hundredths
    WindowCounts,   \* walkForwardWindows of a request
    TradeCounts,    \* trades a backtest may find
    Spreads,        \* relative spreads of the perturbed results, in hundredths
    None

MinBacktestBars == 60       \* backtest.backtest refuses less
MinSplitBars == 100         \* split_chronological, and the endpoint
MinTradesPerSplit == 10     \* ResearchConfig.min_trades_per_split
SliceNames == {"train", "val", "test"}

ASSUME ResearchAssumption ==
    /\ BarCounts \subseteq Nat
    /\ Percentages \subseteq [train: 0..100, val: 0..100, test: 0..100]
    /\ WindowCounts \subseteq Nat
    /\ TradeCounts \subseteq Nat
    /\ Spreads \subseteq Nat
    /\ None \notin BarCounts

VARIABLES
    stage,      \* what research_report does next, or how the request ended
    n, cfg,     \* bars of the series; percentages and number of windows
    slices,     \* trades and sign of the result of each slice
    windows,    \* walk-forward windows run so far, and how many were profitable
    stability,  \* variants that ran, spread, and the verdict
    bootstrap,  \* "error", "weak" or "real"
    gate        \* qualityGate: the number of checks passed, of seven

researchVars == <<stage, n, cfg, slices, windows, stability, bootstrap, gate>>

NoSlice == [trades |-> 0, net |-> 0]
NoStability == [variants |-> 0, spread |-> 0, stable |-> FALSE]

-----------------------------------------------------------------------------
\* split_chronological: the first bar after each slice.
TrainEnd(m, c) == (m * c.train) \div 100
ValEnd(m, c) == TrainEnd(m, c) + (m * c.val) \div 100

Length(name) ==
    CASE name = "train" -> TrainEnd(n, cfg)
      [] name = "val" -> ValEnd(n, cfg) - TrainEnd(n, cfg)
      [] name = "test" -> n - ValEnd(n, cfg)

Runs(bars) == bars >= MinBacktestBars

\* walk_forward: the shortest train, how many windows the bars allow, and the
\* bars of the k-th test slice (counted from 0), which the last window extends.
MinTrain(m, w) == LET share == m \div (w + 1) IN IF share > 120 THEN share ELSE 120
Usable(m, w) ==
    LET room == (m - MinTrain(m, w)) \div 60
        most == IF room > 2 THEN room ELSE 2
    IN  IF w < most THEN w ELSE most
Step(m, w) == (m - MinTrain(m, w)) \div Usable(m, w)
\* Mutant: the windows are cut as if the whole series could be tested.
StepOfAll(m, w) == m \div Usable(m, w)
TestStep(m, w) == Step(m, w)

TestStart(m, w, k) == MinTrain(m, w) + k * TestStep(m, w)
TestEnd(m, w, k) == IF k = Usable(m, w) - 1 THEN m ELSE TestStart(m, w, k + 1)
CanWalk(m, w) == Usable(m, w) >= 2 /\ m >= MinTrain(m, w) + 120

ValidConfig(c, w) ==
    /\ c.train + c.val + c.test = 100
    /\ \A name \in SliceNames : c[name] \in 1..99
    /\ w >= 2

-----------------------------------------------------------------------------
ResearchInit ==
    /\ stage = "idle"
    /\ n = 0 /\ cfg = None
    /\ slices = [name \in SliceNames |-> NoSlice]
    /\ windows = [total |-> 0, profitable |-> 0]
    /\ stability = NoStability
    /\ bootstrap = "none"
    /\ gate = 0

\* run_research: the series and the request; 400 for too few bars, then 400 for
\* a configuration that makes no sense, 422 for a slice that would be empty.
Ask(m, c, w) ==
    /\ stage = "idle"
    /\ n' = m
    /\ cfg' = [train |-> c.train, val |-> c.val, test |-> c.test, windows |-> w]
    /\ stage' = IF m < MinSplitBars \/ ~ValidConfig(c, w) THEN "400"
                ELSE IF 0 \in {TrainEnd(m, c), ValEnd(m, c) - TrainEnd(m, c), m - ValEnd(m, c)}
                THEN "422" ELSE "slices"
    /\ UNCHANGED <<slices, windows, stability, bootstrap, gate>>

\* A backtest of the whole slice; one it refuses counts as a slice without trades.
Outcomes(bars) ==
    IF Runs(bars) THEN {[trades |-> t, net |-> x] : t \in TradeCounts, x \in {-1, 1}} ELSE {NoSlice}

RunSlices ==
    /\ stage = "slices"
    /\ \E a \in Outcomes(Length("train")), b \in Outcomes(Length("val")), c \in Outcomes(Length("test")) :
        slices' = [train |-> a, val |-> b, test |-> c]
    /\ \A name \in SliceNames : slices'[name].trades = 0 => slices'[name].net # 1
    /\ stage' = IF CanWalk(n, cfg.windows) THEN "walk" ELSE "422"
    /\ UNCHANGED <<n, cfg, windows, stability, bootstrap, gate>>

\* One window; one whose train or test slice is refused is passed over.
Walk(profitable) ==
    LET k == windows.total
        runs == Runs(TestStart(n, cfg.windows, k))
                /\ Runs(TestEnd(n, cfg.windows, k) - TestStart(n, cfg.windows, k))
    IN  /\ stage = "walk"
        /\ IF runs
           THEN windows' = [total |-> k + 1, profitable |-> windows.profitable + profitable]
           ELSE UNCHANGED windows
        /\ stage' = IF runs /\ k + 1 < Usable(n, cfg.windows) THEN "walk" ELSE "stability"
        /\ UNCHANGED <<n, cfg, slices, stability, bootstrap, gate>>

\* parameter_stability: the base on train and validation together, which must
\* run; each of up to eight variants on validation alone, passed over when it
\* does not. With no variant the spread is that of one number.
Variants == IF Runs(Length("val")) THEN {4, 6} ELSE {0}

Perturb(variants, spread) ==
    /\ stage = "stability"
    /\ variants \in Variants
    /\ variants = 0 => spread = 0
    /\ IF Runs(ValEnd(n, cfg))
       THEN /\ stability' = [variants |-> variants, spread |-> spread, stable |-> spread < 150]
            /\ stage' = "bootstrap"
       ELSE stage' = "422" /\ UNCHANGED stability
    /\ UNCHANGED <<n, cfg, slices, windows, bootstrap, gate>>

AllTrades == slices.train.trades + slices.val.trades + slices.test.trades

\* bootstrap_expectancy: at least five trades, and sixty in a hundred samples above zero.
Resample(real) ==
    /\ stage = "bootstrap"
    /\ bootstrap' = IF AllTrades < 5 THEN "error" ELSE IF real THEN "real" ELSE "weak"
    /\ stage' = "gate"
    /\ UNCHANGED <<n, cfg, slices, windows, stability, gate>>

\* quality_gate: the numbers of the checks that pass. walk_forward rounds the
\* consistency to hundredths, which moves no ratio of few windows over a half.
Checks ==
    {k \in 1..7 :
        CASE k = 1 -> slices.train.trades >= MinTradesPerSplit
          [] k = 2 -> slices.val.trades >= MinTradesPerSplit \div 2
          [] k = 3 -> slices.val.net > 0
          [] k = 4 -> slices.test.net > 0
          [] k = 5 -> 2 * windows.profitable >= windows.total
          [] k = 6 -> stability.stable
          [] k = 7 -> bootstrap = "real"}

\* Mutant: the checks of the validation slice are left out.
ChecksNoVal == Checks \union {2, 3}
GateChecks == Checks

JudgeGate ==
    /\ stage = "gate"
    /\ gate' = Cardinality(GateChecks)
    /\ stage' = "report"
    /\ UNCHANGED <<n, cfg, slices, windows, stability, bootstrap>>

ResearchNext ==
    \/ \E m \in BarCounts, c \in Percentages, w \in WindowCounts : Ask(m, c, w)
    \/ RunSlices
    \/ \E profitable \in {0, 1} : Walk(profitable)
    \/ \E variants \in 0..8, spread \in Spreads : Perturb(variants, spread)
    \/ \E real \in BOOLEAN : Resample(real)
    \/ JudgeGate

Passed == stage = "report" /\ gate = 7

-----------------------------------------------------------------------------
\* The slices of a report are the whole series in order, none of them empty:
\* rounding drops no bar and gives none to two slices.
SplitIsPartition ==
    stage \notin {"idle", "400", "422"} =>
        /\ \A name \in SliceNames : Length(name) > 0
        /\ Length("train") + Length("val") + Length("test") = n
        /\ ValEnd(n, cfg) <= n

\* "every test slice must hold at least 60 bars (the backtest minimum)": the
\* test slices follow one another to the end of the series, each after its
\* train slice and long enough to be run, so that no window is passed over.
WindowsCover ==
    stage \in {"walk", "stability", "bootstrap", "gate", "report"} =>
        /\ \A k \in 0..(Usable(n, cfg.windows) - 1) :
            /\ TestStart(n, cfg.windows, k) >= 120
            /\ TestEnd(n, cfg.windows, k) - TestStart(n, cfg.windows, k) >= MinBacktestBars
        /\ TestEnd(n, cfg.windows, Usable(n, cfg.windows) - 1) = n
        /\ stage # "walk" => windows.total = Usable(n, cfg.windows)

\* A gate that passes has been judged on evidence: each slice was long enough
\* to be backtested and the parameters were in fact perturbed, although
\* neither of the two is a check of the gate.
PassedOnEvidence ==
    Passed => /\ \A name \in SliceNames : Runs(Length(name))
              /\ stability.variants > 0

-----------------------------------------------------------------------------
\* "train+val slice (validation alone can be too small to backtest)"
\* (research.py:171): stable means that perturbed parameters were run.
StableIsProbed == stability.stable => stability.variants > 0
=============================================================================
