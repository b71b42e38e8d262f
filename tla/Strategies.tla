---------------------------- MODULE Strategies ----------------------------
(***************************************************************************)
(* One instance of a class-based strategy, asked for a signal at one bar   *)
(* after another. SignalStrategies and PortfolioStrategies say what it     *)
(* answers; here is what it keeps between two bars, and what it may not    *)
(* have answered after any series of them.                                 *)
(***************************************************************************)
EXTENDS SignalStrategies, FiniteSets

CONSTANTS
    Warmup,         \* warmup_bars
    Distances,      \* multiples of the ATR, in ticks
    Cooldown,       \* zscore_reentry_cooldown
    Frequency,      \* rebalance_frequency
    Assets, Defensive, Scores,
    Pairs,          \* periods of a pair: formation, trading, recent, holding
    MaxBars, MaxDays

Portfolio == INSTANCE PortfolioStrategies

ASSUME StrategiesAssumption ==
    /\ Warmup \in Nat
    /\ MaxBars \in Nat
    /\ Distances \subseteq Nat
    /\ Scores \subseteq Int
    /\ Assets \in Nat
    /\ Defensive \subseteq 1..Assets
    /\ Pairs \subseteq [formation: Nat, trading: 0..Warmup, recent: Nat \ {0}, holding: Nat]

Names == {"trend", "reversion", "breakout", "orb", "hurst", "trend_carry", "momentum", "flow",
          "alpha_ensemble", "pairs", "rotation", "cross_section", "carry", "multifactor", "adaptive"}

VARIABLES
    strategy,       \* which strategy it is
    params,         \* what it was constructed with
    idx,            \* current_idx, -1 before the first bar
    bars,           \* the last bars, as many as a channel needs
    clock,          \* date and session slot of the last bar
    self,           \* what the object keeps between two bars
    ranked,         \* the scores the last allocation was made from (history)
    out             \* what the last bar returned

vars == <<strategy, params, idx, bars, clock, self, ranked, out>>

-----------------------------------------------------------------------------
Universes == {{}, (1..Assets) \ Defensive}
ScoresOf(S) == UNION {[T -> Scores] : T \in SUBSET S}

\* The parameters of a strategy the model tells apart.
ParamsOf(s) ==
    CASE s = "trend" -> [short: BOOLEAN, threshold: {5, 10}]
      [] s = "alpha_ensemble" -> [members: SUBSET {1, 2, 3}, votes: 1..3]
      [] s = "pairs" -> [short: BOOLEAN, periods: Pairs, whole: BOOLEAN]
      [] s = "rotation" -> [universe: Universes, most: {1, 2}, min: Scores]
      [] s = "cross_section" -> [universe: Universes, top: {1, 2}, bottom: 0..1, min: Scores, short: BOOLEAN]
      [] s = "carry" -> [universe: Universes, required: BOOLEAN, positions: {1, 2},
                         min: {x \in Scores : x >= 0}, short: BOOLEAN]
      [] s = "multifactor" -> [universe: Universes, available: BOOLEAN, required: BOOLEAN,
                               weighted: BOOLEAN, positions: {1, 2}, min: Scores, short: BOOLEAN]
      [] s = "adaptive" -> [filters: {<<>>, [RANGING |-> {}]}]
      [] OTHER -> [short: BOOLEAN]

StartOf(s) ==
    CASE s = "reversion" -> ReversionStart
      [] s = "orb" -> OrbStart
      [] s = "pairs" -> PairsStart
      [] s \in {"rotation", "cross_section", "carry", "multifactor", "adaptive"} -> [last |-> -1]
      [] OTHER -> None

Init ==
    /\ strategy \in Names
    /\ params \in ParamsOf(strategy)
    /\ idx = -1
    /\ bars = <<>>
    /\ clock = [day |-> 1, slot |-> 1]
    /\ self = StartOf(strategy)
    /\ ranked = <<>>
    /\ out = None

\* The next bar is for this strategy.
Next1(s) == strategy = s /\ idx < MaxBars - 1 /\ idx' = idx + 1 /\ UNCHANGED <<strategy, params>>
Watch(b) == bars' = IF Len(bars) < Window THEN Append(bars, b) ELSE Append(Tail(bars), b)
Warm == idx' >= Warmup

\* A strategy of one instrument that keeps nothing, or one that is not warm.
Answer(s, b, S) ==
    /\ Next1(s)
    /\ Watch(b)
    /\ out' \in IF Warm THEN S ELSE {None}
    /\ UNCHANGED <<clock, self, ranked>>

-----------------------------------------------------------------------------
\* What each may say at a bar, whatever its indicators are.
Horizons == [short: -1..1, medium: -1..1, long: -1..1]
TrendSignals(w, short, threshold) ==
    {Trend(w, h, ok, d, short, threshold) : h \in Horizons, ok \in BOOLEAN, d \in Distances}
MomentumSignals(price, short) == {Momentum(price, l, d, short) : l \in Levels, d \in Distances}
FlowSignals(price, short) ==
    {Flow(price, l, v, d, short) : l \in Levels, v \in -1..1, d \in Distances}

TrendBar(b) == Answer("trend", b, TrendSignals(bars', params.short, params.threshold))
BreakoutBar(b) ==
    Answer("breakout", b, {Breakout(bars', ok, d, params.short) : ok \in BOOLEAN, d \in Distances})
MomentumBar(b) == Answer("momentum", b, MomentumSignals(b.close, params.short))
FlowBar(b) == Answer("flow", b, FlowSignals(b.close, params.short))
HurstBar(b) ==
    Answer("hurst", b, {Hurst(b.close, r, z, d, params.short) :
                           r \in BOOLEAN, z \in Levels, d \in Distances})
TrendCarryBar(b) ==
    Answer("trend_carry", b, {TrendCarry(b.close, t, f, d, params.short) :
                                 t \in {-30, -9, 0, 9, 30}, f \in {None, -100, 0, 100}, d \in Distances})

\* The members are constructed with their defaults.
AlphaEnsembleBar(b) ==
    Answer("alpha_ensemble", b,
           {Ensemble(b.close, <<x, y, z>>, params.members, params.votes) :
               x \in FlowSignals(b.close, TRUE), y \in MomentumSignals(b.close, TRUE),
               z \in TrendSignals(bars', FALSE, 5)})

\* Not warm it does not look, so nothing is kept.
ReversionBar(b) ==
    /\ Next1("reversion")
    /\ Watch(b)
    /\ \E o \in Observations, d \in Distances :
          LET move == ReversionMove(self, idx', o, Cooldown, params.short)
          IN  /\ out' = IF Warm THEN ReversionSignal(move, b.close, d) ELSE None
              /\ self' = IF Warm THEN ReversionAfter(self, idx', move) ELSE self
    /\ UNCHANGED <<clock, ranked>>

OrbBar(b) ==
    /\ Next1("orb")
    /\ Watch(b)
    /\ \E day \in clock.day..MaxDays, slot \in Slots, surge \in BOOLEAN, d \in Distances :
          /\ day = clock.day => slot >= clock.slot
          /\ clock' = [day |-> day, slot |-> slot]
          /\ out' = IF Warm THEN OrbSignal(self, day, slot, b, surge, d, params.short) ELSE None
          /\ self' = IF Warm THEN OrbAfter(self, day, slot, b) ELSE self
    /\ UNCHANGED ranked

\* A bar of one of the two symbols. The caller passes the bars so far, or whole
\* history with the index of a bar of it.
PairsBar ==
    /\ Next1("pairs")
    /\ \E leg \in {"a", "b"}, z \in PairsLevels, broken \in BOOLEAN :
          LET me == [self EXCEPT ![leg] = @ + 1]
              last == IF params.whole THEN MaxBars - 1 ELSE idx'
              move == PairsMove(me, idx', z, broken, params.short, params.periods)
          IN  /\ out' = IF Warm THEN PairsSignal(move) ELSE None
              /\ self' = IF Warm THEN PairsAfter(me, idx', last, move, params.periods) ELSE me
    /\ UNCHANGED <<bars, clock, ranked>>

-----------------------------------------------------------------------------
\* A portfolio strategy looks when it is due, and what it decided with an
\* allocation is its rebalancing.
Due == idx' - self.last >= Frequency

Allocate(decision, scored) ==
    /\ out' = IF Warm /\ Due THEN decision ELSE None
    /\ self' = IF out' # None /\ out'.rebalanced THEN [last |-> idx'] ELSE self
    /\ ranked' = IF out' # None THEN scored ELSE <<>>
    /\ UNCHANGED <<bars, clock>>

RotationBar ==
    /\ Next1("rotation")
    /\ \E score \in ScoresOf(params.universe \cup Defensive) : \E rising \in SUBSET (DOMAIN score) :
          Allocate(Portfolio!Rotation(params.universe, score, rising, params.most, params.min),
                   Portfolio!RotationScore(score))

CrossSectionBar ==
    /\ Next1("cross_section")
    /\ \E score \in ScoresOf(params.universe) :
          Allocate(Portfolio!CrossSection(params.universe, score, params.top, params.bottom,
                                          params.min, params.short), score)

CarryBar ==
    /\ Next1("carry")
    /\ \E score \in ScoresOf(params.universe), available \in BOOLEAN :
          /\ score # <<>> => available
          /\ Allocate(Portfolio!Carry(params.universe, score, available, params.required,
                                      params.positions, params.min, params.short), score)

MultifactorBar ==
    /\ Next1("multifactor")
    /\ \E score \in ScoresOf(params.universe) :
          Allocate(Portfolio!Multifactor(params.universe, score, params.available, params.required,
                                         params.weighted, params.positions, params.min, params.short),
                   Portfolio!Weighted(score, params.weighted))

AdaptiveBar ==
    /\ Next1("adaptive")
    /\ \E regime \in Portfolio!Regimes : Allocate(Portfolio!Adaptive(regime, params.filters), <<>>)

Next ==
    \/ \E b \in BarSet :
          \/ TrendBar(b) \/ BreakoutBar(b) \/ MomentumBar(b) \/ FlowBar(b) \/ HurstBar(b)
          \/ TrendCarryBar(b) \/ AlphaEnsembleBar(b) \/ ReversionBar(b) \/ OrbBar(b)
    \/ PairsBar
    \/ RotationBar \/ CrossSectionBar \/ CarryBar \/ MultifactorBar \/ AdaptiveBar

Spec == Init /\ [][Next]_vars

-----------------------------------------------------------------------------
\* Every bar is answered by nothing, a signal or an allocation, and what is
\* kept is of the strategy's own kind.
SelfSet ==
    {None} \cup [last: -1..(MaxBars - 1)]
    \cup [state: {"IDLE", "LONG", "SHORT"}, lastExit: -100..(MaxBars - 1)]
    \cup [day: 0..MaxDays, high: Prices \cup {None}, low: Prices \cup {None}]
    \cup [a: 0..MaxBars, b: 0..MaxBars, history: 0..MaxBars, side: {"LONG", "SHORT", None},
          entry: -1..(MaxBars - 1)]

TypeOK ==
    /\ strategy \in Names
    /\ idx \in -1..(MaxBars - 1)
    /\ Len(bars) <= Window /\ \A k \in 1..Len(bars) : bars[k] \in BarSet
    /\ clock \in [day: 1..MaxDays, slot: Slots]
    /\ self \in SelfSet
    /\ out = None \/ out.side \in Sides

\* A stop is on the losing side of the price of its signal: the stop of a long
\* entry is not above it, that of a short entry not below. It could be: the trend
\* takes the nearer of the ATR stop and the channel, the ensemble the mean of
\* stops that others computed, and the position would be closed as it opens.
HasStop == out # None /\ "parts" \in DOMAIN out
StopsProtect ==
    HasStop =>
        /\ out.side = "LONG" => out.stop <= out.price * out.parts
        /\ out.side = "SHORT" => out.price * out.parts <= out.stop

\* Two strategies are never heard of. The close of a bar does not leave a channel
\* the bar belongs to; and a pair whose formation is long against its trading
\* window, as it is by default, has run out of prices, indexed by the mixed list,
\* when it would begin: nothing is even added to its spreads.
NeverSignals ==
    /\ strategy = "breakout" => out = None
    /\ strategy = "pairs" /\ params.periods.formation > params.periods.trading - params.periods.recent + 1
       => out = None /\ self.history = 0

\* An allocation follows the ranking: no symbol outside of the longs (a risky one
\* where some are defensive) has a higher score than one of them, and there are
\* no more longs than there may be.
Risky(S) == IF strategy = "rotation" THEN S \ Defensive ELSE S
Most ==
    CASE strategy = "rotation" -> params.most
      [] strategy = "cross_section" -> params.top
      [] OTHER -> params.positions
AllocationFollowsRanking ==
    out # None /\ strategy \in {"rotation", "cross_section", "carry", "multifactor"} =>
        LET longs == Risky(out.allocation.long)
        IN  /\ \A s \in longs, t \in Risky(DOMAIN ranked) \ longs : ranked[t] <= ranked[s]
            /\ Cardinality(longs) <= Most

\* "Maximum holding period (bars)": a pair entered at the bar of its signal is
\* left within that many bars.
HoldingBounded ==
    strategy = "pairs" /\ self.side # None => idx - self.entry <= params.periods.holding
=============================================================================
