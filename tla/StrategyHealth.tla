--------------------------- MODULE StrategyHealth ---------------------------
(***************************************************************************)
(* What becomes of a research report: it is appended to the trial ledger   *)
(* (trial_ledger.append_trial), and strategy_health assesses the strategy  *)
(* from the report, the trials so far and the reports of other markets:    *)
(* seven scores, a status, and a verdict that must also survive the tests  *)
(* of research integrity (deflated_sharpe, pbo, final_test_lock).          *)
(*                                                                         *)
(* No endpoint calls these functions: they are composed as their arguments *)
(* say ("Output from research.research_report()", "List of trial records   *)
(* from trial_ledger"), so that reports have the keys they really have.    *)
(***************************************************************************)
EXTENDS ResearchReport, Sequences, SequencesExt

CONSTANTS
    Drawdowns,      \* max_drawdown_pct of the test slice
    CrossScores,    \* positive reports of other markets, in hundredths, or None
    EarlierTrials,  \* how many trials the table may hold at the start
    MaxTrials       \* bound of the model: trials recorded after that

VARIABLES
    earlier,        \* trials the table held at the start
    ledger,         \* trial_ledger: what each record says, oldest first
    assessment      \* the last HealthAssessment, or None

vars == <<researchVars, earlier, ledger, assessment>>

ASSUME HealthAssumption ==
    /\ Drawdowns \subseteq Nat
    /\ CrossScores \subseteq Nat \union {None}
    /\ EarlierTrials \subseteq Nat
    /\ MaxTrials \in Nat

Statuses == {"HEALTHY", "WATCH", "DEGRADED", "SUSPENDED"}
Verdicts == {"INSUFFICIENT", "FAILED", "DEGRADED", "PROMISING", "VALIDATED", "PAPER_ELIGIBLE"}

-----------------------------------------------------------------------------
\* research.pbo over trials 1..m, of which `train` and `test` are the Sharpe
\* ratios: the share of the halves of the trials whose best train performer is
\* not the best test performer of the other half. max takes the first best.
Halves(m) == {S \in SUBSET (1..m) : Cardinality(S) = m \div 2}
Best(S, sharpe) ==
    CHOOSE k \in S : \A j \in S : sharpe[j] < sharpe[k] \/ (sharpe[j] = sharpe[k] /\ k <= j)
\* Mutant: the best of all the trials is looked for, not that of the other half.
OverfitByAll(m, train, test) ==
    {S \in Halves(m) : Best(S, train) # Best(1..m, test)}
Overfit(m, train, test) ==
    {S \in Halves(m) : Best(S, train) # Best((1..m) \ S, test)}
Pbo(m, train, test) ==
    IF m < 10 THEN 100
    ELSE (100 * Cardinality(Overfit(m, train, test))) \div Cardinality(Halves(m))

\* A TrialRecord has no "sharpe", "train_sharpe" or "test_sharpe", so
\* deflated_sharpe finds none and pbo reads 0.0 for each.
Zeros(m) == [k \in 1..m |-> 0]
DsrProb == 0
PboProbs == [m \in {e + k : e \in EarlierTrials, k \in 0..MaxTrials} |-> Pbo(m, Zeros(m), Zeros(m))]
PboProb(m) == PboProbs[m]

\* final_test_lock: it looks for "qualityGate", which a record calls
\* "quality_gate", and for a check named after the test slice, which every
\* quality gate has. Either is enough for the test not to be locked.
Locked(trial) == trial.hasKey /\ ~trial.namesTest /\ trial.passed

-----------------------------------------------------------------------------
\* The scorers, in the order of their weights.
Weight == <<25, 20, 15, 15, 10, 10, 5>>
\* Mutant: the weights of the out-of-sample result and of stability are swapped.
WeightSwapped == <<10, 20, 15, 15, 25, 10, 5>>
ScoreWeights == Weight

TestTrades == slices.test.trades
OosPassed == slices.test.net > 0 /\ slices.val.net > 0
ScoreOos ==
    IF TestTrades < 30 THEN 30
    ELSE IF slices.test.net > 0 THEN (IF slices.val.net > 0 THEN 100 ELSE 60) ELSE 0

\* consistency, in hundredths of the windows, and at least four of them.
WalkPassed == windows.total >= 4 /\ 2 * windows.profitable >= windows.total
ScoreWalk ==
    IF windows.total < 4 THEN 20
    ELSE IF 4 * windows.profitable >= 3 * windows.total THEN 100
    ELSE IF 2 * windows.profitable >= windows.total THEN 70 ELSE 20

\* summary_stats returns no "sortino": the ratio read is 0, below every step.
RiskPassed == FALSE
ScoreRisk == 15

DrawdownPassed(dd) == dd <= 20
ScoreDrawdown(dd) ==
    IF dd <= 5 THEN 100 ELSE IF dd <= 10 THEN 85 ELSE IF dd <= 15 THEN 70
    ELSE IF dd <= 20 THEN 55 ELSE IF dd <= 30 THEN 30 ELSE 10

ScoreStability ==
    LET s == stability.spread
    IN  IF s < 50 THEN 100 ELSE IF s < 100 THEN 80 ELSE IF s < 150 THEN 60
        ELSE IF s < 250 THEN 35 ELSE 15

\* A report has no "costStress".
ScoreCosts == 50

ScoreMarkets(cross) ==
    IF cross = None THEN 50 ELSE IF cross >= 75 THEN 100 ELSE IF cross >= 50 THEN 70
    ELSE IF cross >= 33 THEN 40 ELSE 15

Scores(dd, cross) ==
    <<ScoreOos, ScoreWalk, ScoreRisk, ScoreDrawdown(dd), ScoreStability, ScoreCosts, ScoreMarkets(cross)>>

\* The weighted sum, in hundredths, less a point for each trade below thirty.
\* The penalty for more than a hundred trials is out of the model's reach.
HundredthsOf(s) ==
    s[1] * ScoreWeights[1] + s[2] * ScoreWeights[2] + s[3] * ScoreWeights[3] + s[4] * ScoreWeights[4]
        + s[5] * ScoreWeights[5] + s[6] * ScoreWeights[6] + s[7] * ScoreWeights[7]
Shortfall == IF TestTrades < 30 THEN 30 - TestTrades ELSE 0

\* round: halves go to the even neighbour.
Rounded(h) ==
    LET q == h \div 100  r == h % 100
    IN  IF r > 50 \/ (r = 50 /\ q % 2 = 1) THEN q + 1 ELSE q

Robustness(dd, cross) ==
    LET s == Rounded(HundredthsOf(Scores(dd, cross)) - 100 * Shortfall)
    IN  IF s < 0 THEN 0 ELSE IF s > 100 THEN 100 ELSE s

StatusOf(score) ==
    IF score >= 75 THEN "HEALTHY" ELSE IF score >= 60 THEN "WATCH"
    ELSE IF score >= 40 THEN "DEGRADED" ELSE "SUSPENDED"

\* _determine_verdict, with the trials the caller passes.
Verdict(status, dd, trials) ==
    LET m == Len(trials)
        locked == m > 0 /\ Locked(trials[m])
    IN  IF TestTrades < 10 \/ windows.total < 2 \/ AllTrades < 20 THEN "INSUFFICIENT"
        ELSE IF ~OosPassed \/ ~WalkPassed THEN "FAILED"
        ELSE IF ~RiskPassed \/ ~DrawdownPassed(dd) THEN "DEGRADED"
        ELSE IF m >= 5 /\ DsrProb < 50 THEN "DEGRADED"
        ELSE IF m >= 10 /\ PboProb(m) > 50 THEN "DEGRADED"
        ELSE IF ~locked THEN "PROMISING"
        ELSE IF status = "HEALTHY" THEN "PAPER_ELIGIBLE"
        ELSE IF status = "WATCH" THEN "VALIDATED" ELSE "DEGRADED"

-----------------------------------------------------------------------------
OldTrial == [bars |-> 0, passed |-> TRUE, hasKey |-> FALSE, namesTest |-> TRUE]

Init ==
    /\ ResearchInit
    /\ earlier \in EarlierTrials
    /\ ledger = [k \in 1..earlier |-> OldTrial]
    /\ assessment = None

\* append_trial: a row of its own for every call, and nothing else.
AppendTrial ==
    /\ stage = "report"
    /\ Len(ledger) < earlier + MaxTrials
    /\ ledger' = Append(ledger, [bars |-> n, passed |-> Passed, hasKey |-> FALSE, namesTest |-> TRUE])
    /\ stage' = "recorded"
    /\ UNCHANGED <<n, cfg, slices, windows, stability, bootstrap, gate, earlier, assessment>>

\* assess_strategy_health; list_trials returns the newest trial first.
Assess(dd, cross) ==
    LET score == Robustness(dd, cross)
        status == StatusOf(score)
        m == Len(ledger)
    IN  /\ stage = "recorded"
        /\ dd = 0 \/ TestTrades > 0
        /\ assessment' = [score |-> score, status |-> status, dd |-> dd,
                          dsr |-> IF m < 5 THEN None ELSE DsrProb,
                          pbo |-> IF m < 10 THEN None ELSE PboProb(m),
                          verdict |-> Verdict(status, dd, Reverse(ledger))]
        /\ stage' = "assessed"
        /\ UNCHANGED <<n, cfg, slices, windows, stability, bootstrap, gate, earlier, ledger>>

\* Another study, of other bars, parameters or requests.
Again ==
    /\ stage \in {"assessed", "400", "422"}
    /\ Len(ledger) < earlier + MaxTrials
    /\ stage' = "idle"
    /\ n' = 0 /\ cfg' = None
    /\ slices' = [name \in SliceNames |-> NoSlice]
    /\ windows' = [total |-> 0, profitable |-> 0]
    /\ stability' = NoStability
    /\ bootstrap' = "none"
    /\ gate' = 0
    /\ assessment' = None
    /\ UNCHANGED <<earlier, ledger>>

Next ==
    \/ ResearchNext /\ UNCHANGED <<earlier, ledger, assessment>>
    \/ AppendTrial
    \/ \E dd \in Drawdowns, cross \in CrossScores : Assess(dd, cross)
    \/ Again

Spec == Init /\ [][Next]_vars

-----------------------------------------------------------------------------
TypeOK ==
    /\ stage \in {"idle", "400", "422", "slices", "walk", "stability", "bootstrap", "gate",
                  "report", "recorded", "assessed"}
    /\ gate \in 0..7
    /\ windows.profitable <= windows.total
    /\ assessment # None => /\ assessment.score \in 0..100
                            /\ assessment.status \in Statuses
                            /\ assessment.verdict \in Verdicts
    /\ stage = "assessed" => assessment # None /\ Len(ledger) > 0

\* A strategy is called HEALTHY only when its out-of-sample results, its
\* walk-forward windows and its drawdown all passed, on thirty test trades or
\* more: the weights let no other score make up for one of the three, although
\* _determine_status looks at nothing but the sum.
HealthyIsSound ==
    assessment # None /\ assessment.status = "HEALTHY" =>
        OosPassed /\ WalkPassed /\ DrawdownPassed(assessment.dd) /\ TestTrades >= 30

\* A verdict other than INSUFFICIENT and FAILED means an edge in validation and
\* test and in half of four windows or more, whatever the score says.
VerdictNeedsEdge ==
    assessment # None /\ assessment.verdict \notin {"INSUFFICIENT", "FAILED"} =>
        /\ slices.val.net > 0 /\ slices.test.net > 0
        /\ windows.total >= 4 /\ 2 * windows.profitable >= windows.total

\* A trial once recorded stays where it is: studies are appended, also when
\* they repeat an earlier one.
LedgerGrows == [][ IsPrefix(ledger, ledger') ]_vars

\* "count how often the best train performer fails on test" (research.py:544):
\* whatever the trials, each best performer of one half is held against the best
\* of the other half, which it is not in, so that an assessment of ten trials or
\* more names the probability 1, as one of fewer trials would (research.pbo).
PboAlwaysOne == assessment # None => assessment.pbo \in {None, 100}

=============================================================================
