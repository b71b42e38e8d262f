------------------------ MODULE PortfolioStrategies ------------------------
(***************************************************************************)
(* The class-based strategies of app/strategies that allocate over a       *)
(* universe: what generate_signal of each returns, from the scores of the  *)
(* symbols that have one at this bar.                                      *)
(*                                                                         *)
(* A symbol is its place in the universe, defensive symbols last. A score  *)
(* is in tenths. An allocation is who is long and who is short: the weight *)
(* is the same for all of a side, and of both sides together one.          *)
(***************************************************************************)
EXTENDS Integers, FiniteSets

CONSTANTS
    Assets,         \* symbols, 1..Assets
    Defensive,      \* the defensive ones
    None

Symbols == 1..Assets
Nothing == [long |-> {}, short |-> {}]

\* The dict is filled with the longs, then with the shorts over them.
Allocation(longs, shorts) == [long |-> longs \ shorts, short |-> shorts]

\* A decision with an allocation is the rebalancing; FLAT alone is not one.
Rebalance(longs, shorts) ==
    [side |-> IF longs \cup shorts = {} THEN "FLAT" ELSE "LONG",
     allocation |-> Allocation(longs, shorts), rebalanced |-> TRUE]
StandAside == [side |-> "FLAT", allocation |-> Nothing, rebalanced |-> FALSE]

\* sorted(..., reverse=True) keeps the order of the universe among equals.
\* Mutant: in ascending order.
BeforeAscending(score, s, t) == score[s] < score[t] \/ (score[s] = score[t] /\ s < t)
Before(score, s, t) == score[s] > score[t] \/ (score[s] = score[t] /\ s < t)

Rank(score, S, s) == Cardinality({t \in S : Before(score, t, s)}) + 1
Top(score, S, n) == {s \in S : Rank(score, S, s) <= n}
Bottom(score, S, n) == {s \in S : Rank(score, S, s) > Cardinality(S) - n}

-----------------------------------------------------------------------------
\* CrossSectionalMomentum: nothing without two symbols and one score.
CrossSection(universe, score, top, bottom, min, short) ==
    LET ranked == DOMAIN score
        longs == {s \in Top(score, ranked, top) : score[s] >= min}
        shorts == IF short /\ bottom > 0
                  THEN {s \in Bottom(score, ranked, bottom) : score[s] <= -min} ELSE {}
    IN  IF Cardinality(universe) < 2 \/ ranked = {} THEN None ELSE Rebalance(longs, shorts)

\* The selection of carry and multi-factor: the first so many of those that
\* reach the minimum long, and all that reach its negative short.
Selection(score, positions, min, short) ==
    LET enough == {s \in DOMAIN score : score[s] >= min}
    IN  Rebalance(Top(score, enough, positions),
                  IF short THEN {s \in DOMAIN score : score[s] <= -min} ELSE {})

\* CarryFramework: "available" is some bar with a carry field, of any symbol.
Carry(universe, score, available, required, positions, min, short) ==
    IF universe = {} THEN None
    ELSE IF (~available /\ required) \/ DOMAIN score = {} THEN StandAside
    ELSE Selection(score, positions, min, short)

\* MultiFactorEquity: factor_weights is {} unless given, and every composite 0.
Weighted(score, weighted) == [s \in DOMAIN score |-> IF weighted THEN score[s] ELSE 0]

Multifactor(universe, score, available, required, weighted, positions, min, short) ==
    IF universe = {} \/ (~available /\ required) \/ DOMAIN score = {} THEN StandAside
    ELSE Selection(Weighted(score, weighted), positions, min, short)

-----------------------------------------------------------------------------
\* TacticalRotation: a defensive symbol scores 0.5. The symbols that rise count
\* for the regime whether they are risky or not, over the number of risky ones.
RotationScore(score) == [s \in DOMAIN score |-> IF s \in Defensive THEN 5 ELSE score[s]]

RotationRegime(S, rising) ==
    LET risky == Cardinality(S \ Defensive)
        n == Cardinality(rising)
    IN  IF risky = 0 THEN "NEUTRAL"
        ELSE IF 10 * n >= 6 * risky THEN "RISK_ON"
        ELSE IF 10 * n <= 3 * risky THEN "RISK_OFF"
        ELSE "NEUTRAL"

FirstOf(S) == {s \in S : \A t \in S : s <= t}

RotationPicks(score, regime, most) ==
    LET S == DOMAIN score
        half == IF most \div 2 > 1 THEN most \div 2 ELSE 1
    IN  CASE regime = "RISK_OFF" -> S \cap Defensive
          [] regime = "RISK_ON" -> Top(score, S \ Defensive, most) \cup FirstOf(S \cap Defensive)
          [] regime = "NEUTRAL" -> Top(score, S \ Defensive, half) \cup FirstOf(S \cap Defensive)

\* LONG unless the regime is RISK_OFF, whatever is left to hold.
Rotation(universe, score, rising, most, min) ==
    LET scored == RotationScore(score)
        regime == RotationRegime(DOMAIN score, rising)
        held == {s \in RotationPicks(scored, regime, most) : scored[s] >= min}
    IN  IF universe = {} \/ DOMAIN score = {} THEN None
        ELSE [side |-> IF regime = "RISK_OFF" THEN "FLAT" ELSE "LONG",
              allocation |-> Allocation(held, {}), rebalanced |-> TRUE]

-----------------------------------------------------------------------------
\* AdaptiveEnsemble: the families of the regime, all of whose strategies are
\* eligible: the assessment of each is None, and the checks of cost and of
\* correlation pass everything. A filter gives the families of a regime.
\* After the warm-up there is no "UNKNOWN".
Regimes == {"TRENDING", "RANGING", "HIGH_VOL", "LOW_VOL", "NEUTRAL"}
AllFamilies == {"trend", "rotation", "reversion", "breakout", "statarb", "carry",
                "cross_section", "multifactor"}

DefaultFamilies(regime) ==
    CASE regime = "TRENDING" -> {"trend", "breakout", "cross_section"}
      [] regime = "RANGING" -> {"reversion", "statarb", "carry"}
      [] regime = "HIGH_VOL" -> {"carry", "breakout"}
      [] regime = "LOW_VOL" -> {"reversion", "carry"}
      [] regime = "NEUTRAL" -> {"trend", "rotation", "carry"}
      [] OTHER -> AllFamilies

Families(regime, filters) ==
    IF regime \in DOMAIN filters THEN filters[regime] ELSE DefaultFamilies(regime)

StrategiesOf(family) ==
    CASE family = "trend" -> {"adaptive_trend"}
      [] family = "rotation" -> {"tactical_rotation"}
      [] family = "reversion" -> {"regime_reversion"}
      [] family = "breakout" -> {"volatility_breakout", "opening_range_breakout"}
      [] family = "statarb" -> {"pairs"}
      [] family = "carry" -> {"carry", "fx_carry", "crypto_funding_carry"}
      [] family = "cross_section" -> {"cross_section_momentum"}
      [] family = "multifactor" -> {"equity_multifactor"}
      [] OTHER -> {}

Eligible(families) == UNION {StrategiesOf(f) : f \in families}

Adaptive(regime, filters) ==
    LET eligible == Eligible(Families(regime, filters))
    IN  IF eligible = {} THEN StandAside ELSE Rebalance(eligible, {})
=============================================================================
