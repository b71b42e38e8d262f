-------------------------- MODULE StrategiesProofs --------------------------
(***************************************************************************)
(* What no strategy answers, for prices, channels, warm-ups, universes and *)
(* periods of any size, and series of any length.                          *)
(***************************************************************************)
EXTENDS Strategies, SequenceTheorems, FiniteSetTheorems, WellFoundedInduction, TLAPS

-----------------------------------------------------------------------------
\* A finite range has a highest and a lowest member among any of its members.
LEMMA LowestIs ==
    ASSUME NEW S \in SUBSET Nat, S # {}
    PROVE  Lowest(S) \in S /\ \A y \in S : Lowest(S) <= y
<1>1. \E x \in S : \A y \in S : ~ (<<y, x>> \in OpToRel(<, Nat))
  BY NatLessThanWellFounded, WFMin
<1>2. \E x \in S : \A y \in S : x <= y
  <2>1. PICK x \in S : \A y \in S : ~ (<<y, x>> \in OpToRel(<, Nat))
    BY <1>1
  <2>2. ASSUME NEW y \in S PROVE x <= y
    <3>1. <<y, x>> \in Nat \X Nat /\ <<y, x>>[1] = y /\ <<y, x>>[2] = x
      OBVIOUS
    <3>2. y < x => <<y, x>> \in OpToRel(<, Nat)
      BY <3>1 DEF OpToRel
    <3>3. ~(y < x)
      BY <2>1, <3>2
    <3>. QED
      BY <3>3
  <2>. QED
    BY <2>2
<1>. QED
  BY <1>2 DEF Lowest

\* The highest of a set of prices is in it and bounds it.
LEMMA HighestIs ==
    ASSUME NEW m \in Nat, NEW S \in SUBSET (0..m), S # {}
    PROVE  Highest(S) \in S /\ \A y \in S : y <= Highest(S)
<1> DEFINE T == {m - x : x \in S}
<1>1. T \in SUBSET Nat /\ T # {}
  <2>1. \A x \in S : x \in 0..m /\ m - x \in Nat
    OBVIOUS
  <2>. QED
    BY <2>1
<1>2. PICK t \in T : \A u \in T : t <= u
  BY <1>1, LowestIs
<1>3. PICK x \in S : t = m - x
  BY <1>2
<1>4. \A y \in S : y <= x
  <2> SUFFICES ASSUME NEW y \in S PROVE y <= x
    OBVIOUS
  <2>1. x \in 0..m /\ y \in 0..m
    OBVIOUS
  <2>2. t <= m - y
    BY <1>2
  <2>. QED
    BY <1>3, <2>1, <2>2
<1>5. \E z \in S : \A y \in S : y <= z
  BY <1>4
<1>. QED
  BY <1>5 DEF Highest

\* The close of a bar is within every channel the bar belongs to.
LEMMA ChannelHoldsClose ==
    ASSUME NEW w \in Seq(BarSet), w # <<>>
    PROVE  /\ DonchianLow(w) \in Prices /\ DonchianLow(w) <= Now(w).close
           /\ DonchianHigh(w) \in Prices /\ Now(w).close <= DonchianHigh(w)
           /\ Now(w).close \in Prices
<1>1. Len(w) \in 1..Len(w) /\ \A k \in 1..Len(w) : w[k] \in BarSet
  BY ElementOfSeq
<1> DEFINE lows == {w[k].low : k \in 1..Len(w)}
           highs == {w[k].high : k \in 1..Len(w)}
<1>2. /\ Now(w) \in BarSet /\ Now(w).low \in lows /\ Now(w).high \in highs
      /\ Now(w).low <= Now(w).close /\ Now(w).close <= Now(w).high /\ Now(w).close \in Prices
  BY <1>1 DEF Now, BarSet
<1>3. lows \in SUBSET Prices /\ highs \in SUBSET Prices
  BY <1>1 DEF BarSet
<1>4. MaxPrice \in Nat /\ Prices = 0..MaxPrice /\ Prices \subseteq Nat
  BY SignalAssumption DEF Prices
<1> HIDE DEF lows, highs
<1>5. Lowest(lows) \in lows /\ Lowest(lows) <= Now(w).low
  BY <1>2, <1>3, <1>4, LowestIs
<1>6. Highest(highs) \in highs /\ Now(w).high <= Highest(highs)
  BY <1>2, <1>3, <1>4, HighestIs
<1>7. Now(w).low \in Nat /\ Now(w).close \in Nat /\ Now(w).high \in Nat
  BY <1>2, <1>3, <1>4
<1>8. DonchianLow(w) = Lowest(lows) /\ DonchianHigh(w) = Highest(highs)
  BY DEF DonchianLow, DonchianHigh, lows, highs
<1>9. Lowest(lows) \in Prices /\ Highest(highs) \in Prices
  BY <1>3, <1>5, <1>6
<1>10. Lowest(lows) <= Now(w).close
  BY <1>2, <1>4, <1>5, <1>7, <1>9
<1>11. Now(w).close <= Highest(highs)
  BY <1>2, <1>4, <1>6, <1>7, <1>9
<1>. QED
  BY <1>2, <1>8, <1>9, <1>10, <1>11

-----------------------------------------------------------------------------
\* A signal of one stop, at this price: the stop is on the losing side.
OneStop(s, price) ==
    s # None =>
        /\ s.side \in Sides
        /\ s.side = "LONG" => s.stop \in Int /\ s.stop <= price
        /\ s.side = "SHORT" => s.stop \in Int /\ price <= s.stop

\* What StopsProtect says of a signal.
Protects(s) ==
    s # None /\ "parts" \in DOMAIN s =>
        /\ s.side = "LONG" => s.stop <= s.price * s.parts
        /\ s.side = "SHORT" => s.price * s.parts <= s.stop

\* An entry with its stop on the losing side is protected.
LEMMA EntryProtects ==
    ASSUME NEW price \in Int, NEW stop \in Int, NEW side \in {"LONG", "SHORT"},
           side = "LONG" => stop <= price, side = "SHORT" => price <= stop
    PROVE  OneStop(Entry(side, price, stop), price) /\ Protects(Entry(side, price, stop))
BY DEF OneStop, Protects, Entry, Sides

\* A stop a distance away from the price is on the losing side.
LEMMA EnterProtects ==
    ASSUME NEW price \in Int, NEW d \in Nat, NEW side \in {"LONG", "SHORT"}
    PROVE  OneStop(Enter(side, price, d), price) /\ Protects(Enter(side, price, d))
<1> DEFINE stop == IF side = "LONG" THEN price - d ELSE price + d
<1>1. stop \in Int /\ (side = "LONG" => stop <= price) /\ (side = "SHORT" => price <= stop)
  OBVIOUS
<1>2. Enter(side, price, d) = Entry(side, price, stop)
  BY DEF Enter
<1> HIDE DEF stop
<1>. QED
  BY <1>1, <1>2, EntryProtects

\* An answer to leave carries no stop.
LEMMA FlatProtects ==
    ASSUME NEW price
    PROVE  OneStop(Flat(price), price) /\ Protects(Flat(price))
BY DEF OneStop, Protects, Flat, Sides

\* No answer carries no stop.
LEMMA NoneProtects == \A price : OneStop(None, price) /\ Protects(None)
BY DEF OneStop, Protects

\* The strategies of one instrument that keep nothing.
LEMMA TrendProtects ==
    ASSUME NEW w \in Seq(BarSet), w # <<>>, NEW h, NEW ok, NEW d \in Nat, NEW short, NEW threshold
    PROVE  /\ OneStop(Trend(w, h, ok, d, short, threshold), Now(w).close)
           /\ Protects(Trend(w, h, ok, d, short, threshold))
<1> DEFINE price == Now(w).close
           long == TrendStop("LONG", w, d)
           high == TrendStop("SHORT", w, d)
<1>1. /\ DonchianLow(w) \in Int /\ DonchianLow(w) <= price
      /\ DonchianHigh(w) \in Int /\ price <= DonchianHigh(w) /\ price \in Int
  BY ChannelHoldsClose, SignalAssumption DEF Prices
<1>2. long \in Int /\ long <= price /\ high \in Int /\ price <= high
  BY <1>1 DEF TrendStop
<1>3. Trend(w, h, ok, d, short, threshold) \in {None, Entry("LONG", price, long), Entry("SHORT", price, high)}
  BY DEF Trend
<1> HIDE DEF price, long, high
<1>. QED
  BY <1>1, <1>2, <1>3, EntryProtects, NoneProtects DEF price

\* Volatility-managed momentum stops a distance away from its price.
LEMMA MomentumProtects ==
    ASSUME NEW price \in Int, NEW l, NEW d \in Nat, NEW short
    PROVE  OneStop(Momentum(price, l, d, short), price) /\ Protects(Momentum(price, l, d, short))
BY EnterProtects, NoneProtects DEF Momentum

\* Volume flow stops a distance away from its price.
LEMMA FlowProtects ==
    ASSUME NEW price \in Int, NEW l, NEW v, NEW d \in Nat, NEW short
    PROVE  OneStop(Flow(price, l, v, d, short), price) /\ Protects(Flow(price, l, v, d, short))
BY EnterProtects, FlatProtects, NoneProtects DEF Flow

\* Hurst reversion stops a distance away from its price.
LEMMA HurstProtects ==
    ASSUME NEW price \in Int, NEW r, NEW z, NEW d \in Nat, NEW short
    PROVE  Protects(Hurst(price, r, z, d, short))
BY EnterProtects, FlatProtects, NoneProtects DEF Hurst

\* Trend and carry stops a distance away from its price.
LEMMA TrendCarryProtects ==
    ASSUME NEW price \in Int, NEW t, NEW f, NEW d \in Nat, NEW short
    PROVE  Protects(TrendCarry(price, t, f, d, short))
<1>1. TrendCarry(price, t, f, d, short)
        \in {None, Flat(price), Enter("LONG", price, d), Enter("SHORT", price, d)}
  BY DEF TrendCarry
<1>. QED
  BY <1>1, EnterProtects, FlatProtects, NoneProtects

\* The close of a bar does not leave a channel that holds the bar.
LEMMA BreakoutIsNone ==
    ASSUME NEW w \in Seq(BarSet), w # <<>>, NEW ok, NEW d, NEW short
    PROVE  Breakout(w, ok, d, short) = None
<1>1. /\ DonchianLow(w) \in Int /\ DonchianLow(w) <= Now(w).close
      /\ DonchianHigh(w) \in Int /\ Now(w).close <= DonchianHigh(w) /\ Now(w).close \in Int
  BY ChannelHoldsClose, SignalAssumption DEF Prices
<1>2. ~(Now(w).close > DonchianHigh(w)) /\ ~(Now(w).close < DonchianLow(w))
  BY <1>1
<1>. QED
  BY <1>2 DEF Breakout, BreakoutLevels

\* The mean of the stops of members that agree is where theirs are.
LEMMA AgreedProtects ==
    ASSUME NEW price \in Int, NEW sigs, NEW S, NEW side \in {"LONG", "SHORT"},
           \A k \in {1, 2, 3} : k \in S => OneStop(sigs[k], price) /\ sigs[k] # None /\ sigs[k].side = side
    PROVE  Protects(Agreed(side, price, sigs, S))
<1> DEFINE c == [k \in {1, 2, 3} |-> Counted(S, k)]
           p == [k \in {1, 2, 3} |-> StopOf(sigs, S, k)]
<1>1. ASSUME NEW k \in {1, 2, 3}
      PROVE  /\ c[k] \in {0, 1} /\ p[k] \in Int
             /\ side = "LONG" => p[k] <= price * c[k]
             /\ side = "SHORT" => price * c[k] <= p[k]
  <2>1. CASE k \in S
    <3>1. c[k] = 1 /\ p[k] = sigs[k].stop
      BY <2>1 DEF Counted, StopOf
    <3>2. /\ side = "LONG" => sigs[k].stop \in Int /\ sigs[k].stop <= price
          /\ side = "SHORT" => sigs[k].stop \in Int /\ price <= sigs[k].stop
      BY <2>1 DEF OneStop
    <3> HIDE DEF c, p
    <3>. QED
      BY <3>1, <3>2
  <2>2. CASE k \notin S
    <3>1. c[k] = 0 /\ p[k] = 0
      BY <2>2 DEF Counted, StopOf
    <3> HIDE DEF c, p
    <3>. QED
      BY <3>1
  <2>. QED
    BY <2>1, <2>2
<1>2. Votes(S) = c[1] + c[2] + c[3]
  BY DEF Votes
<1>3. Agreed(side, price, sigs, S)
        = [side |-> side, price |-> price, parts |-> c[1] + c[2] + c[3], stop |-> p[1] + p[2] + p[3]]
  BY <1>2 DEF Agreed
<1> HIDE DEF c, p
<1>4. price * (c[1] + c[2] + c[3]) = price * c[1] + price * c[2] + price * c[3]
  BY <1>1
<1>5. /\ side = "LONG" => p[1] + p[2] + p[3] <= price * (c[1] + c[2] + c[3])
      /\ side = "SHORT" => price * (c[1] + c[2] + c[3]) <= p[1] + p[2] + p[3]
  <2> DEFINE x == [k \in {1, 2, 3} |-> price * c[k]]
  <2>1. \A k \in {1, 2, 3} : /\ x[k] \in Int /\ p[k] \in Int
                             /\ side = "LONG" => p[k] <= x[k]
                             /\ side = "SHORT" => x[k] <= p[k]
    BY <1>1
  <2>2. price * (c[1] + c[2] + c[3]) = x[1] + x[2] + x[3]
    BY <1>4
  <2> HIDE DEF x
  <2>3. /\ side = "LONG" => p[1] + p[2] + p[3] <= x[1] + x[2] + x[3]
        /\ side = "SHORT" => x[1] + x[2] + x[3] <= p[1] + p[2] + p[3]
    BY <2>1
  <2>. QED
    BY <2>2, <2>3
<1>. QED
  BY <1>3, <1>5 DEF Protects

\* The alpha ensemble takes the stop of a member of its own side.
LEMMA EnsembleProtects ==
    ASSUME NEW price \in Int, NEW x, NEW y, NEW z, NEW members, NEW votes,
           OneStop(x, price), OneStop(y, price), OneStop(z, price)
    PROVE  Protects(Ensemble(price, <<x, y, z>>, members, votes))
<1> DEFINE sigs == <<x, y, z>>
           longs == Voters(sigs, members, "LONG")
           shorts == Voters(sigs, members, "SHORT")
<1>1. \A k \in {1, 2, 3} : OneStop(sigs[k], price)
  BY DEF OneStop
<1>2. \A k \in {1, 2, 3} : k \in longs => sigs[k] # None /\ sigs[k].side = "LONG"
  BY DEF Voters
<1>3. \A k \in {1, 2, 3} : k \in shorts => sigs[k] # None /\ sigs[k].side = "SHORT"
  BY DEF Voters
<1>4. Ensemble(price, sigs, members, votes)
        \in {None, Agreed("LONG", price, sigs, longs), Agreed("SHORT", price, sigs, shorts)}
  BY DEF Ensemble
<1> HIDE DEF sigs, longs, shorts
<1>5. Protects(Agreed("LONG", price, sigs, longs))
  BY <1>1, <1>2, AgreedProtects
<1>6. Protects(Agreed("SHORT", price, sigs, shorts))
  BY <1>1, <1>3, AgreedProtects
<1>. QED
  BY <1>4, <1>5, <1>6, NoneProtects DEF sigs

\* Those that keep something.
LEMMA ReversionProtects ==
    ASSUME NEW price \in Int, NEW d \in Nat, NEW move
    PROVE  Protects(ReversionSignal(move, price, d))
<1>1. CASE move \in {None, "FLAT"}
  BY <1>1, SignalAssumption, FlatProtects, NoneProtects DEF ReversionSignal
<1>2. CASE move \notin {None, "FLAT"}
  <2>1. ReversionSignal(move, price, d) = Enter(move, price, d)
    BY <1>2 DEF ReversionSignal
  <2>2. Protects(Enter(move, price, d))
    BY DEF Enter, Entry, Protects
  <2>. QED
    BY <2>1, <2>2
<1>. QED
  BY <1>1, <1>2

\* The opening range's stop is on the losing side of its breakout.
LEMMA OrbProtects ==
    ASSUME NEW s, NEW day, NEW slot, NEW bar, bar.close \in Int, NEW surge, NEW d \in Nat, NEW short
    PROVE  Protects(OrbSignal(s, day, slot, bar, surge, d, short))
<1>1. OrbSignal(s, day, slot, bar, surge, d, short)
        \in {None, Enter("LONG", bar.close, d), Enter("SHORT", bar.close, d)}
  BY DEF OrbSignal
<1>. QED
  BY <1>1, EnterProtects, NoneProtects

\* A pair is traded without a stop.
LEMMA PairsProtects ==
    ASSUME NEW move
    PROVE  Protects(PairsSignal(move))
<1>1. CASE move = None
  BY <1>1, NoneProtects DEF PairsSignal
<1>2. CASE move # None
  <2>1. PairsSignal(move) = [side |-> move, price |-> 0, stop |-> 0, parts |-> 0]
    BY <1>2 DEF PairsSignal, Flat
  <2>. QED
    BY <2>1 DEF Protects
<1>. QED
  BY <1>1, <1>2

\* The decision of a portfolio strategy has no stop.
Decision(d) ==
    d = None \/ \E side, a, b : d = [side |-> side, allocation |-> a, rebalanced |-> b]

\* An allocation carries no stop.
LEMMA DecisionProtects ==
    ASSUME NEW d, Decision(d)
    PROVE  Protects(d)
<1>1. CASE d = None
  BY <1>1, NoneProtects
<1>2. ASSUME NEW side, NEW a, NEW b, d = [side |-> side, allocation |-> a, rebalanced |-> b]
      PROVE  Protects(d)
  <2>1. DOMAIN d = {"side", "allocation", "rebalanced"}
    BY <1>2
  <2>. QED
    BY <2>1 DEF Protects
<1>. QED
  BY <1>1, <1>2 DEF Decision

\* A rebalancing is an allocation.
LEMMA RebalanceDecides ==
    /\ \A longs, shorts : Decision(Portfolio!Rebalance(longs, shorts))
    /\ Decision(Portfolio!StandAside)
    /\ Decision(None)
BY DEF Decision, Portfolio!Rebalance, Portfolio!StandAside

\* What each allocating strategy answers is an allocation.
LEMMA PortfolioDecides ==
    ASSUME NEW u, NEW score, NEW a, NEW b, NEW c, NEW d, NEW e, NEW f
    PROVE  /\ Decision(Portfolio!Rotation(u, score, a, b, c))
           /\ Decision(Portfolio!CrossSection(u, score, a, b, c, d))
           /\ Decision(Portfolio!Carry(u, score, a, b, c, d, e))
           /\ Decision(Portfolio!Multifactor(u, score, a, b, c, d, e, f))
           /\ Decision(Portfolio!Adaptive(a, b))
<1>1. Decision(Portfolio!Rotation(u, score, a, b, c))
  BY DEF Decision, Portfolio!Rotation
<1>2. Decision(Portfolio!CrossSection(u, score, a, b, c, d))
  BY RebalanceDecides DEF Portfolio!CrossSection
<1>3. \A s : Decision(Portfolio!Selection(s, c, d, e)) /\ Decision(Portfolio!Selection(s, d, e, f))
  BY RebalanceDecides DEF Portfolio!Selection
<1>4. Decision(Portfolio!Carry(u, score, a, b, c, d, e))
  BY <1>3, RebalanceDecides DEF Portfolio!Carry
<1>5. Decision(Portfolio!Multifactor(u, score, a, b, c, d, e, f))
  BY <1>3, RebalanceDecides DEF Portfolio!Multifactor
<1>6. Decision(Portfolio!Adaptive(a, b))
  BY RebalanceDecides DEF Portfolio!Adaptive
<1>. QED
  BY <1>1, <1>2, <1>4, <1>5, <1>6

-----------------------------------------------------------------------------
PairsSelf ==
    [a: Nat, b: Nat, history: Nat, side: {"LONG", "SHORT", None}, entry: Int]

\* The inductive invariant: a pair has counted every bar for one of its symbols.
StrategiesInv ==
    /\ idx \in Int
    /\ bars \in Seq(BarSet)
    /\ strategy = "pairs" =>
        /\ params.periods \in [formation: Nat, trading: 0..Warmup, recent: Nat \ {0}, holding: Nat]
        /\ self \in PairsSelf
        /\ self.a + self.b = idx + 1
    /\ Protects(out)
    /\ NeverSignals

\* The invariant holds before the first bar.
LEMMA InitKeeps == Init => StrategiesInv
<1> SUFFICES ASSUME Init PROVE StrategiesInv
  OBVIOUS
<1>1. idx \in Int /\ bars \in Seq(BarSet) /\ out = None /\ Protects(out)
  BY NoneProtects DEF Init
<1>2. CASE strategy = "pairs"
  <2>1. ParamsOf("pairs") = [short: BOOLEAN, periods: Pairs, whole: BOOLEAN]
    BY DEF ParamsOf
  <2>2. params \in [short: BOOLEAN, periods: Pairs, whole: BOOLEAN]
    BY <1>2, <2>1 DEF Init
  <2>3. params.periods \in Pairs
    BY <2>2
  <2>4. StartOf("pairs") = PairsStart
    BY DEF StartOf
  <2>5. self = PairsStart
    BY <1>2, <2>4 DEF Init
  <2>6. self \in PairsSelf /\ self.a + self.b = idx + 1 /\ self.history = 0
    BY <2>5 DEF PairsStart, PairsSelf, Init
  <2>. QED
    BY <1>1, <1>2, <2>3, <2>6, StrategiesAssumption DEF StrategiesInv, NeverSignals
<1>3. CASE strategy # "pairs"
  BY <1>1, <1>3 DEF StrategiesInv, NeverSignals
<1>. QED
  BY <1>2, <1>3

\* A bar that is watched leaves a channel of bars.
LEMMA Watched ==
    ASSUME bars \in Seq(BarSet), NEW b \in BarSet, Watch(b)
    PROVE  bars' \in Seq(BarSet) /\ bars' # <<>> /\ Now(bars') = b
<1>1. CASE Len(bars) < Window
  <2>1. bars' = Append(bars, b)
    BY <1>1 DEF Watch
  <2>. QED
    BY <2>1, AppendProperties DEF Now
<1>2. CASE ~(Len(bars) < Window)
  <2>1. bars' = Append(Tail(bars), b)
    BY <1>2 DEF Watch
  <2>2. bars # <<>>
    BY <1>2, SignalAssumption
  <2>3. Tail(bars) \in Seq(BarSet)
    BY <2>2, HeadTailProperties
  <2>. QED
    BY <2>1, <2>3, AppendProperties DEF Now
<1>. QED
  BY <1>1, <1>2

\* A bar of a strategy of one instrument, whose answers all are protected.
LEMMA BarKeeps ==
    ASSUME StrategiesInv, NEW s \in Names \ {"pairs"}, Next1(s),
           bars' \in Seq(BarSet), Protects(out'), s = "breakout" => out' = None
    PROVE  StrategiesInv'
<1>1. idx' \in Int /\ strategy' = s /\ strategy' # "pairs"
  BY DEF StrategiesInv, Next1
<1>2. Protects(out)'
  BY DEF Protects
<1>. QED
  BY <1>1, <1>2 DEF StrategiesInv, NeverSignals

\* A protected answer keeps the invariant.
LEMMA AnswerKeeps ==
    ASSUME StrategiesInv, NEW s \in Names \ {"pairs"}, NEW b \in BarSet, NEW S,
           Answer(s, b, S),
           \A x \in S : Protects(x) /\ (s = "breakout" => x = None)
    PROVE  StrategiesInv'
<1>1. bars' \in Seq(BarSet)
  BY Watched DEF StrategiesInv, Answer
<1>2. out' \in S \/ out' = None
  BY DEF Answer
<1>3. Protects(out') /\ (s = "breakout" => out' = None)
  BY <1>2, NoneProtects
<1>. QED
  BY <1>1, <1>3, BarKeeps DEF Answer

\* A bar of any of these seven strategies keeps the invariant.
LEMMA SignalBarsKeep ==
    ASSUME StrategiesInv, NEW b \in BarSet
    PROVE  /\ TrendBar(b) => StrategiesInv'
           /\ BreakoutBar(b) => StrategiesInv'
           /\ MomentumBar(b) => StrategiesInv'
           /\ FlowBar(b) => StrategiesInv'
           /\ HurstBar(b) => StrategiesInv'
           /\ TrendCarryBar(b) => StrategiesInv'
           /\ AlphaEnsembleBar(b) => StrategiesInv'
<1>0. /\ b.close \in Int
      /\ bars \in Seq(BarSet)
      /\ Distances \subseteq Nat
  BY SignalAssumption, StrategiesAssumption DEF BarSet, Prices, StrategiesInv
<1>1. ASSUME Watch(b)
      PROVE  bars' \in Seq(BarSet) /\ bars' # <<>> /\ Now(bars') = b /\ Now(bars').close = b.close
  BY <1>0, <1>1, Watched
<1>2. ASSUME Watch(b), NEW short, NEW threshold, NEW x \in TrendSignals(bars', short, threshold)
      PROVE  OneStop(x, b.close) /\ Protects(x)
  BY <1>0, <1>1, <1>2, TrendProtects DEF TrendSignals
<1>3. ASSUME NEW short, NEW x \in MomentumSignals(b.close, short)
      PROVE  OneStop(x, b.close) /\ Protects(x)
  BY <1>0, MomentumProtects DEF MomentumSignals
<1>4. ASSUME NEW short, NEW x \in FlowSignals(b.close, short)
      PROVE  OneStop(x, b.close) /\ Protects(x)
  BY <1>0, FlowProtects DEF FlowSignals
<1>5. ASSUME TrendBar(b) PROVE StrategiesInv'
  <2>1. Watch(b) /\ Answer("trend", b, TrendSignals(bars', params.short, params.threshold))
    BY <1>5 DEF TrendBar, Answer
  <2>. QED
    BY <1>2, <2>1, AnswerKeeps DEF Names
<1>6. ASSUME BreakoutBar(b) PROVE StrategiesInv'
  <2> DEFINE S == {Breakout(bars', ok, d, params.short) : ok \in BOOLEAN, d \in Distances}
  <2>1. Watch(b) /\ Answer("breakout", b, S)
    BY <1>6 DEF BreakoutBar, Answer
  <2>2. \A x \in S : x = None
    BY <1>1, <2>1, BreakoutIsNone
  <2> HIDE DEF S
  <2>. QED
    BY <2>1, <2>2, NoneProtects, AnswerKeeps DEF Names
<1>7. ASSUME MomentumBar(b) PROVE StrategiesInv'
  BY <1>3, <1>7, AnswerKeeps DEF MomentumBar, Names
<1>8. ASSUME FlowBar(b) PROVE StrategiesInv'
  BY <1>4, <1>8, AnswerKeeps DEF FlowBar, Names
<1>9. ASSUME HurstBar(b) PROVE StrategiesInv'
  <2> DEFINE S == {Hurst(b.close, r, z, d, params.short) : r \in BOOLEAN, z \in Levels, d \in Distances}
  <2>1. Answer("hurst", b, S)
    BY <1>9 DEF HurstBar
  <2>2. \A x \in S : Protects(x)
    BY <1>0, HurstProtects
  <2> HIDE DEF S
  <2>. QED
    BY <2>1, <2>2, AnswerKeeps DEF Names
<1>10. ASSUME TrendCarryBar(b) PROVE StrategiesInv'
  <2> DEFINE S == {TrendCarry(b.close, t, f, d, params.short) :
                     t \in {-30, -9, 0, 9, 30}, f \in {None, -100, 0, 100}, d \in Distances}
  <2>1. Answer("trend_carry", b, S)
    BY <1>10 DEF TrendCarryBar
  <2>2. \A t, f : \A d \in Distances : Protects(TrendCarry(b.close, t, f, d, params.short))
    BY <1>0, TrendCarryProtects
  <2>3. \A x \in S : Protects(x)
    BY <2>2
  <2> HIDE DEF S
  <2>. QED
    BY <2>1, <2>3, AnswerKeeps DEF Names
<1>11. ASSUME AlphaEnsembleBar(b) PROVE StrategiesInv'
  <2> DEFINE E(x, y, z) == Ensemble(b.close, <<x, y, z>>, params.members, params.votes)
             F == FlowSignals(b.close, TRUE)
             M == MomentumSignals(b.close, TRUE)
             T == TrendSignals(bars', FALSE, 5)
             S == {E(x, y, z) : x \in F, y \in M, z \in T}
  <2>0. Answer("alpha_ensemble", b, S)
    BY <1>11 DEF AlphaEnsembleBar
  <2>1. Watch(b)
    BY <2>0 DEF Answer
  <2>2. \A x \in F : OneStop(x, b.close)
    BY <1>4
  <2>3. \A y \in M : OneStop(y, b.close)
    BY <1>3
  <2>4. \A z \in T : OneStop(z, b.close)
    BY <1>2, <2>1
  <2>5. ASSUME NEW x \in F, NEW y \in M, NEW z \in T PROVE Protects(E(x, y, z))
    BY <1>0, <2>2, <2>3, <2>4, EnsembleProtects
  <2> HIDE DEF E, F, M, T
  <2>6. \A e \in S : Protects(e)
    BY <2>5
  <2> HIDE DEF S
  <2>. QED
    BY <2>0, <2>6, AnswerKeeps DEF Names
<1>. QED
  BY <1>5, <1>6, <1>7, <1>8, <1>9, <1>10, <1>11

\* A bar of regime reversion or of the opening range keeps the invariant.
LEMMA KeepingBarsKeep ==
    ASSUME StrategiesInv, NEW b \in BarSet
    PROVE  /\ ReversionBar(b) => StrategiesInv'
           /\ OrbBar(b) => StrategiesInv'
<1>0. b.close \in Int /\ Distances \subseteq Nat /\ bars \in Seq(BarSet)
  BY SignalAssumption, StrategiesAssumption DEF BarSet, Prices, StrategiesInv
<1>1. ASSUME ReversionBar(b) PROVE StrategiesInv'
  <2>1. Watch(b) /\ Next1("reversion")
    BY <1>1 DEF ReversionBar
  <2>2. PICK o \in Observations, d \in Distances :
          out' = IF Warm THEN ReversionSignal(ReversionMove(self, idx', o, Cooldown, params.short), b.close, d)
                 ELSE None
    BY <1>1 DEF ReversionBar
  <2>3. Protects(out')
    BY <1>0, <2>2, ReversionProtects, NoneProtects
  <2>. QED
    BY <1>0, <2>1, <2>3, Watched, BarKeeps DEF Names
<1>2. ASSUME OrbBar(b) PROVE StrategiesInv'
  <2>1. Watch(b) /\ Next1("orb")
    BY <1>2 DEF OrbBar
  <2>2. PICK day \in clock.day..MaxDays, slot \in Slots, surge \in BOOLEAN, d \in Distances :
          out' = IF Warm THEN OrbSignal(self, day, slot, b, surge, d, params.short) ELSE None
    BY <1>2 DEF OrbBar
  <2>3. Protects(out')
    BY <1>0, <2>2, OrbProtects, NoneProtects
  <2>. QED
    BY <1>0, <2>1, <2>3, Watched, BarKeeps DEF Names
<1>. QED
  BY <1>1, <1>2

\* A portfolio strategy looks at no bars of its own.
LEMMA AllocateKeeps ==
    ASSUME StrategiesInv, NEW s \in Names \ {"pairs", "breakout"}, Next1(s),
           NEW decision, Decision(decision), NEW scored, Allocate(decision, scored)
    PROVE  StrategiesInv'
<1>1. bars' \in Seq(BarSet)
  BY DEF Allocate, StrategiesInv
<1>2. Protects(out')
  BY DecisionProtects, NoneProtects DEF Allocate
<1>. QED
  BY <1>1, <1>2, BarKeeps

\* A bar of an allocating strategy keeps the invariant.
LEMMA PortfolioBarsKeep ==
    ASSUME StrategiesInv
    PROVE  /\ RotationBar => StrategiesInv'
           /\ CrossSectionBar => StrategiesInv'
           /\ CarryBar => StrategiesInv'
           /\ MultifactorBar => StrategiesInv'
           /\ AdaptiveBar => StrategiesInv'
<1>1. ASSUME RotationBar PROVE StrategiesInv'
  BY <1>1, PortfolioDecides, AllocateKeeps DEF RotationBar, Names
<1>2. ASSUME CrossSectionBar PROVE StrategiesInv'
  BY <1>2, PortfolioDecides, AllocateKeeps DEF CrossSectionBar, Names
<1>3. ASSUME CarryBar PROVE StrategiesInv'
  BY <1>3, PortfolioDecides, AllocateKeeps DEF CarryBar, Names
<1>4. ASSUME MultifactorBar PROVE StrategiesInv'
  BY <1>4, PortfolioDecides, AllocateKeeps DEF MultifactorBar, Names
<1>5. ASSUME AdaptiveBar PROVE StrategiesInv'
  BY <1>5, PortfolioDecides, AllocateKeeps DEF AdaptiveBar, Names
<1>. QED
  BY <1>1, <1>2, <1>3, <1>4, <1>5

-----------------------------------------------------------------------------
(***************************************************************************)
(* A mixed list of bars gives the two symbols as many prices together as   *)
(* it has bars, while each needs prices at the end of a window that starts *)
(* `trading` bars back in the list: neither can have many more than half.  *)
(***************************************************************************)
LEMMA PairsBlind ==
    ASSUME NEW me \in PairsSelf, NEW i \in Int, me.a + me.b = i + 1,
           NEW p \in [formation: Nat, trading: Nat, recent: Nat \ {0}, holding: Nat],
           p.formation > p.trading - p.recent + 1
    PROVE  ~PairsSees(me, i, p)
<1> SUFFICES ASSUME PairsSees(me, i, p) PROVE FALSE
  OBVIOUS
<1>1. /\ me.a \in Nat /\ me.b \in Nat /\ p.formation \in Nat /\ p.trading \in Nat
      /\ p.recent \in Nat /\ p.recent >= 1
  BY DEF PairsSelf
<1>2. /\ me.a >= p.formation /\ me.b >= p.formation
      /\ Recent(me.a, i, p.trading) >= p.recent /\ Recent(me.b, i, p.trading) >= p.recent
  BY DEF PairsSees
<1>3. me.a - (i - p.trading) >= p.recent
  BY <1>1, <1>2 DEF Recent
<1>. QED
  BY <1>1, <1>2, <1>3

\* Taking a side, or none, counts no bar.
LEMMA PairsSideSet ==
    ASSUME NEW t \in PairsSelf, NEW side \in {"LONG", "SHORT", None}, NEW e \in Int
    PROVE  /\ [t EXCEPT !.side = side, !.entry = e] \in PairsSelf
           /\ [t EXCEPT !.side = side, !.entry = e].a = t.a
           /\ [t EXCEPT !.side = side, !.entry = e].b = t.b
BY DEF PairsSelf

\* A bar of a pair keeps the counts of its two symbols.
LEMMA PairsBarKeeps ==
    ASSUME StrategiesInv, PairsBar
    PROVE  StrategiesInv'
<1>0. /\ strategy = "pairs" /\ strategy' = "pairs" /\ params' = params /\ bars' = bars
      /\ idx \in Int /\ idx' = idx + 1
      /\ params.periods \in [formation: Nat, trading: 0..Warmup, recent: Nat \ {0}, holding: Nat]
      /\ self \in PairsSelf /\ self.a + self.b = idx + 1
  BY DEF PairsBar, Next1, StrategiesInv
<1> DEFINE p == params.periods
           hard == p.formation > p.trading - p.recent + 1
<1>1. PICK leg \in {"a", "b"}, z \in PairsLevels, broken \in BOOLEAN :
        LET me == [self EXCEPT ![leg] = @ + 1]
            last == IF params.whole THEN MaxBars - 1 ELSE idx'
            move == PairsMove(me, idx', z, broken, params.short, p)
        IN  /\ out' = IF Warm THEN PairsSignal(move) ELSE None
            /\ self' = IF Warm THEN PairsAfter(me, idx', last, move, p) ELSE me
  BY DEF PairsBar
<1> DEFINE me == [self EXCEPT ![leg] = @ + 1]
           last == IF params.whole THEN MaxBars - 1 ELSE idx'
           move == PairsMove(me, idx', z, broken, params.short, p)
<1>2. me \in PairsSelf /\ me.a + me.b = idx' + 1 /\ me.history = self.history
  <2>1. CASE leg = "a"
    BY <1>0, <2>1 DEF PairsSelf
  <2>2. CASE leg = "b"
    BY <1>0, <2>2 DEF PairsSelf
  <2>. QED
    BY <2>1, <2>2
<1>3. last \in Int
  BY <1>0, StrategiesAssumption
<1>4. move \in {None, "FLAT", "LONG", "SHORT"}
  BY DEF PairsMove
<1>5. p \in [formation: Nat, trading: Nat, recent: Nat \ {0}, holding: Nat]
  BY <1>0, StrategiesAssumption
<1>6. hard => move = None /\ PairsAfter(me, idx', last, move, p) = me
  <2> SUFFICES ASSUME hard PROVE move = None /\ PairsAfter(me, idx', last, move, p) = me
    OBVIOUS
  <2>1. ~PairsSees(me, idx', p)
    <3> HIDE DEF me, p
    <3>. QED
      BY <1>0, <1>2, <1>5, PairsBlind DEF p
  <2>2. move = None
    BY <2>1 DEF PairsMove
  <2> HIDE DEF me, p, move, last
  <2>. QED
    BY <2>1, <2>2, SignalAssumption DEF PairsAfter
<1>7. LET s == PairsAfter(me, idx', last, move, p)
      IN  s \in PairsSelf /\ s.a + s.b = idx' + 1
  <2> DEFINE t == IF PairsSees(me, idx', p) /\ me.history < p.recent
                  THEN [me EXCEPT !.history = @ + 1] ELSE me
  <2>1. t \in PairsSelf /\ t.a + t.b = idx' + 1
    <3> HIDE DEF me
    <3>. QED
      BY <1>2 DEF PairsSelf
  <2>2. PairsAfter(me, idx', last, move, p)
          \in {t, [t EXCEPT !.side = None, !.entry = -1], [t EXCEPT !.side = move, !.entry = last]}
    <3> HIDE DEF me, p, move, last
    <3>. QED
      BY SignalAssumption DEF PairsAfter, t
  <2> HIDE DEF t, me, last
  <2>3. [t EXCEPT !.side = None, !.entry = -1] \in PairsSelf
        /\ [t EXCEPT !.side = None, !.entry = -1].a = t.a
        /\ [t EXCEPT !.side = None, !.entry = -1].b = t.b
    <3>1. -1 \in Int
      OBVIOUS
    <3>. QED
      BY <2>1, <3>1, PairsSideSet
  <2>4. CASE move \in {"LONG", "SHORT", None}
    <3>1. [t EXCEPT !.side = move, !.entry = last] \in PairsSelf
          /\ [t EXCEPT !.side = move, !.entry = last].a = t.a
          /\ [t EXCEPT !.side = move, !.entry = last].b = t.b
      <4> HIDE DEF move
      <4>. QED
        BY <1>3, <2>1, <2>4, PairsSideSet
    <3>. QED
      BY <2>1, <2>2, <2>3, <3>1
  <2>5. CASE move = "FLAT"
    <3>1. PairsAfter(me, idx', last, move, p) = [t EXCEPT !.side = None, !.entry = -1]
      <4> HIDE DEF move, p
      <4>. QED
        BY <2>5, SignalAssumption DEF PairsAfter, t
    <3>. QED
      BY <2>1, <2>3, <3>1
  <2>. QED
    BY <1>4, <2>4, <2>5
<1>8. self' \in PairsSelf /\ self'.a + self'.b = idx' + 1
  <2> HIDE DEF me, last, move, p
  <2>. QED
    BY <1>1, <1>2, <1>7 DEF me, last, move, p
<1>9. hard /\ self.history = 0 => out' = None /\ self'.history = 0
  <2>1. hard => self' = me /\ out' = None
    BY <1>1, <1>6 DEF PairsSignal
  <2>. QED
    BY <1>2, <2>1
<1>10. Protects(out')
  BY <1>1, PairsProtects, NoneProtects
<1>11. NeverSignals'
  <2>1. hard => self.history = 0
    BY <1>0 DEF StrategiesInv, NeverSignals
  <2>. QED
    BY <1>0, <1>9, <2>1 DEF NeverSignals
<1>12. Protects(out)'
  BY <1>10 DEF Protects
<1>13. bars' \in Seq(BarSet)
  BY <1>0 DEF StrategiesInv
<1>. QED
  BY <1>0, <1>8, <1>11, <1>12, <1>13 DEF StrategiesInv

-----------------------------------------------------------------------------
\* What is kept and answered obeys the invariant at every bar of any series.
THEOREM StrategiesInvariant == Spec => []StrategiesInv
<1>1. StrategiesInv /\ [Next]_vars => StrategiesInv'
  <2> SUFFICES ASSUME StrategiesInv, [Next]_vars PROVE StrategiesInv'
    OBVIOUS
  <2>1. ASSUME NEW b \in BarSet,
               TrendBar(b) \/ BreakoutBar(b) \/ MomentumBar(b) \/ FlowBar(b) \/ HurstBar(b)
                 \/ TrendCarryBar(b) \/ AlphaEnsembleBar(b)
        PROVE  StrategiesInv'
    BY <2>1, SignalBarsKeep
  <2>2. ASSUME NEW b \in BarSet, ReversionBar(b) \/ OrbBar(b) PROVE StrategiesInv'
    BY <2>2, KeepingBarsKeep
  <2>3. CASE PairsBar
    BY <2>3, PairsBarKeeps
  <2>4. CASE RotationBar \/ CrossSectionBar \/ CarryBar \/ MultifactorBar \/ AdaptiveBar
    BY <2>4, PortfolioBarsKeep
  <2>5. CASE UNCHANGED vars
    BY <2>5 DEF StrategiesInv, NeverSignals, Protects, vars
  <2>. QED
    BY <2>1, <2>2, <2>3, <2>4, <2>5 DEF Next
<1>. QED
  BY <1>1, InitKeeps, PTL DEF Spec

\* No strategy places a stop on the winning side of the price of its signal,
\* whatever the bars, the channel, the distances and the votes.
THEOREM StopsAlwaysProtect == Spec => []StopsProtect
<1>1. StrategiesInv => StopsProtect
  BY DEF StrategiesInv, Protects, StopsProtect, HasStop
<1>. QED
  BY <1>1, StrategiesInvariant, PTL

\* The breakout and a pair of default proportions never signal, for prices,
\* channels and periods of any size and series of any length.
THEOREM TwoNeverSignal == Spec => []NeverSignals
<1>1. StrategiesInv => NeverSignals
  BY DEF StrategiesInv
<1>. QED
  BY <1>1, StrategiesInvariant, PTL

-----------------------------------------------------------------------------
(***************************************************************************)
(* What a portfolio strategy holds follows the scores it sorted.  Ranks    *)
(* are counts of who comes before, so a set cut at a rank holds no more    *)
(* than that many, and nobody outside of it comes before one inside.       *)
(***************************************************************************)
\* PortfolioStrategies counts as this module does.
LEMMA CountingAgrees == \A S : Portfolio!Cardinality(S) = Cardinality(S)
  BY Zenon DEF Portfolio!Cardinality, Cardinality

\* Who comes before another in the sorted scores has a lower rank, and there
\* are no ties: the order of the universe decides between equals.
LEMMA RanksFollow ==
    ASSUME NEW n \in Nat, NEW S \in SUBSET (1..n), NEW score, \A s \in S : score[s] \in Int
    PROVE  /\ IsFiniteSet(S)
           /\ \A s \in S : Portfolio!Rank(score, S, s) \in Nat \ {0}
           /\ \A s, t \in S : Portfolio!Before(score, t, s) =>
                 Portfolio!Rank(score, S, t) < Portfolio!Rank(score, S, s)
           /\ \A s, t \in S : s = t \/ Portfolio!Before(score, t, s) \/ Portfolio!Before(score, s, t)
<1> DEFINE above(s) == {t \in S : Portfolio!Before(score, t, s)}
<1>1. IsFiniteSet(S)
  <2>1. IsFiniteSet(1..n)
    BY FS_Interval
  <2> QED
    BY <2>1, FS_Subset
<1>2. ASSUME NEW s \in S
      PROVE  /\ IsFiniteSet(above(s)) /\ Cardinality(above(s)) \in Nat
             /\ Portfolio!Rank(score, S, s) = Cardinality(above(s)) + 1
  <2>1. IsFiniteSet(above(s))
    BY <1>1, FS_Subset
  <2> QED
    BY <2>1, CountingAgrees, FS_CardinalityType DEF Portfolio!Rank
<1>3. \A s \in S : s \in Int
  OBVIOUS
<1>4. ASSUME NEW s \in S, NEW t \in S, Portfolio!Before(score, t, s)
      PROVE  Cardinality(above(t)) < Cardinality(above(s))
  <2>1. \A x \in S : Portfolio!Before(score, x, t) => Portfolio!Before(score, x, s)
    BY <1>3, <1>4 DEF Portfolio!Before
  <2>2. ~Portfolio!Before(score, t, t)
    BY <1>3 DEF Portfolio!Before
  <2>3. above(t) \subseteq above(s) /\ t \in above(s) /\ t \notin above(t)
    BY <1>4, <2>1, <2>2
  <2>4. Cardinality(above(t)) <= Cardinality(above(s)) /\ Cardinality(above(t)) # Cardinality(above(s))
    BY <1>2, <2>3, FS_Subset
  <2> QED
    BY <1>2, <2>4
<1>5. \A s, t \in S : s = t \/ Portfolio!Before(score, t, s) \/ Portfolio!Before(score, s, t)
  BY <1>3 DEF Portfolio!Before
<1>6. \A s \in S : Portfolio!Rank(score, S, s) \in Nat \ {0}
  <2> HIDE DEF above
  <2> QED
    BY <1>2
<1>7. ASSUME NEW s \in S, NEW t \in S, Portfolio!Before(score, t, s)
      PROVE  Portfolio!Rank(score, S, t) < Portfolio!Rank(score, S, s)
  <2>1. Cardinality(above(t)) < Cardinality(above(s))
    BY <1>4, <1>7
  <2> HIDE DEF above
  <2> QED
    BY <1>2, <2>1
<1> QED
  BY <1>1, <1>5, <1>6, <1>7

\* The first so many of the sorted scores: no more than asked for, and nobody
\* outside has a higher score.
LEMMA TopIs ==
    ASSUME NEW n \in Nat, NEW S \in SUBSET (1..n), NEW score, \A s \in S : score[s] \in Int, NEW k \in Nat
    PROVE  /\ Portfolio!Top(score, S, k) \subseteq S
           /\ IsFiniteSet(Portfolio!Top(score, S, k)) /\ Cardinality(Portfolio!Top(score, S, k)) <= k
           /\ \A s \in Portfolio!Top(score, S, k), t \in S \ Portfolio!Top(score, S, k) : score[t] <= score[s]
<1> DEFINE top == Portfolio!Top(score, S, k)
           rank == [s \in top |-> Portfolio!Rank(score, S, s)]
<1>1. /\ IsFiniteSet(S)
      /\ \A s \in S : Portfolio!Rank(score, S, s) \in Nat \ {0}
      /\ \A s, t \in S : Portfolio!Before(score, t, s) =>
            Portfolio!Rank(score, S, t) < Portfolio!Rank(score, S, s)
      /\ \A s, t \in S : s = t \/ Portfolio!Before(score, t, s) \/ Portfolio!Before(score, s, t)
  BY RanksFollow
<1>2. top \subseteq S /\ \A s \in S : s \in top <=> Portfolio!Rank(score, S, s) <= k
  BY DEF Portfolio!Top
<1>3. IsFiniteSet(top)
  BY <1>1, <1>2, FS_Subset
<1>4. rank \in Injection(top, 1..k)
  <2>1. \A s \in top : Portfolio!Rank(score, S, s) \in 1..k
    <3> HIDE DEF top
    <3>1. \A s \in top : s \in S /\ Portfolio!Rank(score, S, s) <= k /\ Portfolio!Rank(score, S, s) \in Nat \ {0}
      BY <1>1, <1>2
    <3> QED
      BY <3>1
  <2>2. \A s, t \in top : rank[s] = rank[t] => s = t
    <3> SUFFICES ASSUME NEW s \in top, NEW t \in top, s # t PROVE rank[s] # rank[t]
      OBVIOUS
    <3>1. rank[s] = Portfolio!Rank(score, S, s) /\ rank[t] = Portfolio!Rank(score, S, t)
      OBVIOUS
    <3>2. s \in S /\ t \in S
      BY <1>2
    <3> HIDE DEF top, rank
    <3> QED
      BY <1>1, <3>1, <3>2
  <2>3. rank \in [top -> 1..k]
    BY <2>1
  <2> QED
    BY <2>2, <2>3 DEF Injection, IsInjective
<1>5. Cardinality(top) <= k
  <2>1. IsFiniteSet(1..k) /\ Cardinality(1..k) = k
    BY FS_Interval
  <2> QED
    BY <1>3, <1>4, <2>1, FS_Injection
<1>6. ASSUME NEW s \in top, NEW t \in S \ top PROVE score[t] <= score[s]
  <2>1. s \in S /\ Portfolio!Rank(score, S, s) <= k /\ ~(Portfolio!Rank(score, S, t) <= k)
    BY <1>2
  <2>2. ~Portfolio!Before(score, t, s)
    BY <1>1, <2>1
  <2>3. score[s] \in Int /\ score[t] \in Int
    BY <2>1
  <2> QED
    BY <2>2, <2>3 DEF Portfolio!Before
<1> QED
  BY <1>2, <1>3, <1>5, <1>6

\* A decision follows a ranking.
Follows(longs, score, S, most) ==
    /\ \A s \in longs, t \in S \ longs : score[t] <= score[s]
    /\ Cardinality(longs) <= most

\* No longs follow any ranking.
LEMMA EmptyFollows ==
    ASSUME NEW score, NEW S, NEW most \in Nat
    PROVE  Follows({}, score, S, most)
  BY FS_EmptySet DEF Follows

\* The longs that reach a minimum and are not short as well.
LEMMA LongsFollow ==
    ASSUME NEW n \in Nat, NEW S \in SUBSET (1..n), NEW score, \A s \in S : score[s] \in Int, NEW k \in Nat,
           NEW longs \in SUBSET Portfolio!Top(score, S, k),
           \A s \in longs, t \in Portfolio!Top(score, S, k) \ longs : score[t] <= score[s]
    PROVE  Follows(longs, score, S, k)
<1> DEFINE top == Portfolio!Top(score, S, k)
<1>1. /\ top \subseteq S /\ IsFiniteSet(top) /\ Cardinality(top) <= k /\ Cardinality(top) \in Nat
      /\ \A s \in top, t \in S \ top : score[t] <= score[s]
  BY TopIs, FS_CardinalityType
<1>2. Cardinality(longs) <= Cardinality(top) /\ Cardinality(longs) \in Nat
  BY <1>1, FS_Subset, FS_CardinalityType
<1>3. Cardinality(longs) <= k
  <2> HIDE DEF top
  <2> QED
    BY <1>1, <1>2
<1> QED
  BY <1>1, <1>3 DEF Follows

\* What carry and multi-factor select follows the scores.
LEMMA SelectionFollows ==
    ASSUME NEW n \in Nat, NEW score, DOMAIN score \subseteq 1..n, \A s \in DOMAIN score : score[s] \in Int,
           NEW k \in Nat, NEW min \in Int, NEW short
    PROVE  Follows(Portfolio!Selection(score, k, min, short).allocation.long, score, DOMAIN score, k)
<1> DEFINE S == DOMAIN score
           enough == {s \in S : score[s] >= min}
           top == Portfolio!Top(score, enough, k)
           shorts == IF short THEN {s \in S : score[s] <= -min} ELSE {}
           longs == top \ shorts
<1>1. Portfolio!Selection(score, k, min, short).allocation.long = longs
  BY DEF Portfolio!Selection, Portfolio!Rebalance, Portfolio!Allocation
<1>2. /\ top \subseteq enough /\ IsFiniteSet(top) /\ Cardinality(top) <= k /\ Cardinality(top) \in Nat
      /\ \A s \in top, t \in enough \ top : score[t] <= score[s]
  <2>1. enough \in SUBSET (1..n) /\ \A s \in enough : score[s] \in Int
    OBVIOUS
  <2> HIDE DEF enough
  <2> QED
    BY <2>1, TopIs, FS_CardinalityType
<1>3. ASSUME NEW s \in longs, NEW t \in S \ longs PROVE score[t] <= score[s]
  <2> HIDE DEF top
  <2>1. s \in S /\ score[s] \in Int /\ score[t] \in Int /\ score[s] >= min
    BY <1>2
  <2>2. CASE t \in top
    <3>1. short /\ score[t] <= -min /\ ~(score[s] <= -min)
      BY <1>3, <2>1, <2>2
    <3> QED
      BY <2>1, <3>1
  <2>3. CASE t \in enough \ top
    BY <1>2, <1>3, <2>3
  <2>4. CASE t \notin enough
    BY <2>1, <2>4
  <2> QED
    BY <2>2, <2>3, <2>4
<1>4. Cardinality(longs) <= Cardinality(top) /\ Cardinality(longs) \in Nat
  BY <1>2, FS_Subset, FS_CardinalityType
<1>5. Cardinality(longs) <= k
  <2> HIDE DEF top, longs
  <2> QED
    BY <1>2, <1>4
<1> HIDE DEF longs
<1> QED
  BY <1>1, <1>3, <1>5 DEF Follows

\* Cross-sectional momentum takes the first and the last of one ranking.
LEMMA CrossSectionFollows ==
    ASSUME NEW n \in Nat, NEW score, DOMAIN score \subseteq 1..n, \A s \in DOMAIN score : score[s] \in Int,
           NEW k \in Nat, NEW bottom \in Nat, NEW min \in Int, NEW short, NEW universe,
           Portfolio!CrossSection(universe, score, k, bottom, min, short) # None
    PROVE  Follows(Portfolio!CrossSection(universe, score, k, bottom, min, short).allocation.long,
                   score, DOMAIN score, k)
<1> DEFINE S == DOMAIN score
           top == Portfolio!Top(score, S, k)
           reached == {s \in top : score[s] >= min}
           shorts == IF short /\ bottom > 0
                     THEN {s \in Portfolio!Bottom(score, S, bottom) : score[s] <= -min} ELSE {}
           longs == reached \ shorts
<1>1. Portfolio!CrossSection(universe, score, k, bottom, min, short).allocation.long = longs
  BY DEF Portfolio!CrossSection, Portfolio!Rebalance, Portfolio!Allocation
<1>2. /\ IsFiniteSet(S)
      /\ \A s \in S : Portfolio!Rank(score, S, s) \in Nat \ {0}
      /\ \A s, t \in S : Portfolio!Before(score, t, s) =>
            Portfolio!Rank(score, S, t) < Portfolio!Rank(score, S, s)
  BY RanksFollow
<1>3. top \subseteq S
  BY DEF Portfolio!Top
<1>4. Cardinality(S) \in Int /\ Portfolio!Cardinality(S) = Cardinality(S)
  BY <1>2, CountingAgrees, FS_CardinalityType
<1>5. ASSUME NEW s \in longs, NEW t \in top \ longs PROVE score[t] <= score[s]
  <2>1. s \in S /\ t \in S /\ score[s] \in Int /\ score[t] \in Int /\ score[s] >= min
    BY <1>3
  <2>2. CASE t \notin reached
    BY <2>1, <2>2
  <2>3. CASE t \in reached
    <3>1. short /\ bottom > 0 /\ t \in Portfolio!Bottom(score, S, bottom) /\ score[t] <= -min
      BY <1>5, <2>3
    <3>2. CASE s \in Portfolio!Bottom(score, S, bottom)
      <4>1. ~(score[s] <= -min)
        BY <1>5, <3>1, <3>2
      <4> QED
        BY <2>1, <3>1, <4>1
    <3>3. CASE s \notin Portfolio!Bottom(score, S, bottom)
      <4>1. /\ Portfolio!Rank(score, S, t) > Cardinality(S) - bottom
            /\ ~(Portfolio!Rank(score, S, s) > Cardinality(S) - bottom)
        BY <1>4, <2>1, <3>1, <3>3 DEF Portfolio!Bottom
      <4>2. Portfolio!Rank(score, S, t) \in Int /\ Portfolio!Rank(score, S, s) \in Int
        BY <1>2, <2>1
      <4>3. ~(Portfolio!Rank(score, S, t) < Portfolio!Rank(score, S, s))
        BY <1>4, <4>1, <4>2
      <4>4. ~Portfolio!Before(score, t, s)
        BY <1>2, <2>1, <4>3
      <4> QED
        BY <2>1, <4>4 DEF Portfolio!Before
    <3> QED
      BY <3>2, <3>3
  <2> QED
    BY <2>2, <2>3
<1>6. longs \in SUBSET top
  OBVIOUS
<1>7. Follows(longs, score, S, k)
  <2> HIDE DEF longs
  <2> QED
    BY <1>5, <1>6, LongsFollow
<1> QED
  BY <1>1, <1>7

\* The risky part of a rotation is the first of the risky symbols.
LEMMA RotationFollows ==
    ASSUME NEW n \in Nat, NEW score, DOMAIN score \subseteq 1..n, \A s \in DOMAIN score : score[s] \in Int,
           NEW most \in {1, 2}, NEW min \in Int, NEW universe, NEW rising,
           Portfolio!Rotation(universe, score, rising, most, min) # None
    PROVE  Follows(Portfolio!Rotation(universe, score, rising, most, min).allocation.long \ Defensive,
                   Portfolio!RotationScore(score), DOMAIN score \ Defensive, most)
<1> DEFINE S == DOMAIN score
           scored == Portfolio!RotationScore(score)
           regime == Portfolio!RotationRegime(S, rising)
           risky == S \ Defensive
           held == {s \in Portfolio!RotationPicks(scored, regime, most) : scored[s] >= min}
           longs == held \ Defensive
           half == IF most \div 2 > 1 THEN most \div 2 ELSE 1
<1>1. Portfolio!Rotation(universe, score, rising, most, min).allocation.long = held
  BY DEF Portfolio!Rotation, Portfolio!Allocation
<1>2. DOMAIN scored = S /\ \A s \in S : scored[s] \in Int
  BY DEF Portfolio!RotationScore
<1>3. regime \in {"RISK_OFF", "RISK_ON", "NEUTRAL"}
  BY DEF Portfolio!RotationRegime
<1>4. half \in Nat /\ half <= most /\ most \in Nat
  <2>1. CASE most = 1
    BY <2>1
  <2>2. CASE most = 2
    BY <2>2
  <2> QED
    BY <2>1, <2>2
<1> HIDE DEF scored, regime, half
<1>5. CASE regime = "RISK_OFF"
  <2>1. Portfolio!RotationPicks(scored, regime, most) = S \cap Defensive
    BY <1>2, <1>5 DEF Portfolio!RotationPicks
  <2>2. longs = {}
    BY <2>1
  <2> HIDE DEF longs
  <2>3. Follows({}, scored, risky, most)
    BY <1>4, EmptyFollows
  <2> QED
    BY <1>1, <2>2, <2>3 DEF scored, longs
<1>6. ASSUME NEW k \in Nat, k <= most,
             Portfolio!RotationPicks(scored, regime, most)
               = Portfolio!Top(scored, risky, k) \cup Portfolio!FirstOf(S \cap Defensive)
      PROVE  Follows(longs, scored, risky, most)
  <2> DEFINE top == Portfolio!Top(scored, risky, k)
  <2>1. top \subseteq risky /\ Portfolio!FirstOf(S \cap Defensive) \subseteq Defensive
    BY DEF Portfolio!Top, Portfolio!FirstOf
  <2>2. longs = {s \in top : scored[s] >= min}
    BY <1>6, <2>1
  <2>3. risky \in SUBSET (1..n) /\ \A s \in risky : scored[s] \in Int
    BY <1>2
  <2>4. longs \in SUBSET top /\ \A s \in longs, t \in top \ longs : scored[t] <= scored[s]
    <3> HIDE DEF top, longs
    <3>1. \A s \in top : scored[s] \in Int
      BY <2>1, <2>3
    <3> QED
      BY <2>2, <3>1
  <2> HIDE DEF longs, risky
  <2>5. Follows(longs, scored, risky, k)
    BY <2>3, <2>4, LongsFollow
  <2>6. top \subseteq risky /\ IsFiniteSet(top)
    BY <2>1, <2>3, TopIs
  <2>7. Cardinality(longs) \in Nat
    BY <2>4, <2>6, FS_Subset, FS_CardinalityType
  <2> QED
    BY <1>4, <1>6, <2>5, <2>7 DEF Follows
<1>7. CASE regime = "RISK_ON"
  <2>1. Portfolio!RotationPicks(scored, regime, most)
           = Portfolio!Top(scored, risky, most) \cup Portfolio!FirstOf(S \cap Defensive)
    BY <1>2, <1>7 DEF Portfolio!RotationPicks
  <2>2. most <= most
    BY <1>4
  <2> HIDE DEF longs, risky
  <2>3. Follows(longs, scored, risky, most)
    BY <1>4, <1>6, <2>1, <2>2
  <2> QED
    BY <1>1, <2>3 DEF longs, risky, scored
<1>8. CASE regime = "NEUTRAL"
  <2>1. Portfolio!RotationPicks(scored, regime, most)
           = Portfolio!Top(scored, risky, half) \cup Portfolio!FirstOf(S \cap Defensive)
    BY <1>2, <1>8 DEF Portfolio!RotationPicks, half
  <2> HIDE DEF longs, risky
  <2>2. Follows(longs, scored, risky, most)
    BY <1>4, <1>6, <2>1
  <2> QED
    BY <1>1, <2>2 DEF longs, risky, scored
<1> QED
  BY <1>3, <1>5, <1>7, <1>8

\* An answer of a strategy is for a bar of its own.
LEMMA AnswerIs ==
    ASSUME NEW s, NEW b, NEW S, Answer(s, b, S)
    PROVE  Next1(s)
  BY Zenon DEF Answer

\* Whose bar it is.
LEMMA BarIsOf ==
    ASSUME NEW b
    PROVE  /\ TrendBar(b) => Next1("trend")
           /\ BreakoutBar(b) => Next1("breakout")
           /\ MomentumBar(b) => Next1("momentum")
           /\ FlowBar(b) => Next1("flow")
           /\ HurstBar(b) => Next1("hurst")
           /\ TrendCarryBar(b) => Next1("trend_carry")
           /\ AlphaEnsembleBar(b) => Next1("alpha_ensemble")
           /\ ReversionBar(b) => Next1("reversion")
           /\ OrbBar(b) => Next1("orb")
<1>1. TrendBar(b) => Next1("trend")
  BY AnswerIs DEF TrendBar
<1>2. BreakoutBar(b) => Next1("breakout")
  BY AnswerIs DEF BreakoutBar
<1>3. MomentumBar(b) => Next1("momentum")
  BY AnswerIs DEF MomentumBar
<1>4. FlowBar(b) => Next1("flow")
  BY AnswerIs DEF FlowBar
<1>5. HurstBar(b) => Next1("hurst")
  BY AnswerIs DEF HurstBar
<1>6. TrendCarryBar(b) => Next1("trend_carry")
  BY AnswerIs DEF TrendCarryBar
<1>7. AlphaEnsembleBar(b) => Next1("alpha_ensemble")
  BY AnswerIs DEF AlphaEnsembleBar
<1>8. ReversionBar(b) => Next1("reversion")
  BY DEF ReversionBar
<1>9. OrbBar(b) => Next1("orb")
  BY DEF OrbBar
<1> QED
  BY <1>1, <1>2, <1>3, <1>4, <1>5, <1>6, <1>7, <1>8, <1>9

\* Scores are numbers, of symbols that are places of the universe.
LEMMA ScoresAreNumbers == Scores \subseteq Int /\ Assets \in Nat
  BY StrategiesAssumption, Zenon

\* A strategy keeps what it was constructed with.
LEMMA ParamsKept == Spec => [](params \in ParamsOf(strategy))
<1>1. Init => params \in ParamsOf(strategy)
  BY DEF Init
<1>2. [Next]_vars => UNCHANGED <<strategy, params>>
  <2>1. ASSUME NEW b \in BarSet,
               TrendBar(b) \/ BreakoutBar(b) \/ MomentumBar(b) \/ FlowBar(b) \/ HurstBar(b)
                 \/ TrendCarryBar(b) \/ AlphaEnsembleBar(b) \/ ReversionBar(b) \/ OrbBar(b)
        PROVE  UNCHANGED <<strategy, params>>
    BY <2>1, BarIsOf DEF Next1
  <2>2. CASE PairsBar
    BY <2>2, Zenon DEF PairsBar, Next1
  <2>3. CASE RotationBar \/ CrossSectionBar \/ CarryBar \/ MultifactorBar \/ AdaptiveBar
    BY <2>3, Zenon DEF RotationBar, CrossSectionBar, CarryBar, MultifactorBar, AdaptiveBar, Next1
  <2>4. CASE UNCHANGED vars
    BY <2>4 DEF vars
  <2> QED
    BY <2>1, <2>2, <2>3, <2>4, Zenon DEF Next
<1>3. params \in ParamsOf(strategy) /\ [Next]_vars => (params \in ParamsOf(strategy))'
  <2> SUFFICES ASSUME params \in ParamsOf(strategy), UNCHANGED <<strategy, params>>
               PROVE  (params \in ParamsOf(strategy))'
    BY <1>2
  <2> QED
    BY DEF ParamsOf
<1> QED
  BY <1>1, <1>3, PTL DEF Spec

\* The scores a portfolio strategy may see.
LEMMA ScoresAre ==
    ASSUME NEW U \in SUBSET (1..Assets), NEW score \in ScoresOf(U)
    PROVE  /\ DOMAIN score \subseteq 1..Assets
           /\ \A s \in DOMAIN score : score[s] \in Int
<1>1. PICK T \in SUBSET U : score \in [T -> Scores]
  BY DEF ScoresOf
<1> QED
  BY <1>1, StrategiesAssumption

\* Symbols are numbered from one to Assets.
LEMMA UniversesAre == \A u \in Universes : u \subseteq 1..Assets /\ u \cup Defensive \subseteq 1..Assets
  BY StrategiesAssumption DEF Universes

\* What was decided this bar, if anything was, is what is returned with the
\* scores it was made from.
LEMMA AllocateIs ==
    ASSUME NEW decision, NEW scored, Allocate(decision, scored), out' # None
    PROVE  out' = decision /\ decision # None /\ ranked' = scored
  BY DEF Allocate

\* A bar of the rotation answers by the scores of that bar.
LEMMA RotationBarFollows ==
    ASSUME params \in ParamsOf(strategy), RotationBar
    PROVE  AllocationFollowsRanking'
<1> SUFFICES ASSUME out' # None PROVE AllocationFollowsRanking'
  BY DEF AllocationFollowsRanking
<1>1. strategy = "rotation" /\ UNCHANGED <<strategy, params>>
  BY Zenon DEF RotationBar, Next1
<1>2. ParamsOf("rotation") = [universe: Universes, most: {1, 2}, min: Scores]
  BY DEF ParamsOf
<1>3. params.universe \in Universes /\ params.most \in {1, 2} /\ params.min \in Int
  <2>1. params \in [universe: Universes, most: {1, 2}, min: Scores]
    BY <1>1, <1>2
  <2> QED
    BY <2>1, ScoresAreNumbers
<1>4. PICK score \in ScoresOf(params.universe \cup Defensive) :
         \E rising \in SUBSET (DOMAIN score) :
            Allocate(Portfolio!Rotation(params.universe, score, rising, params.most, params.min),
                     Portfolio!RotationScore(score))
  BY Zenon DEF RotationBar
<1>5. PICK rising \in SUBSET (DOMAIN score) :
         Allocate(Portfolio!Rotation(params.universe, score, rising, params.most, params.min),
                  Portfolio!RotationScore(score))
  BY <1>4, Zenon
<1> DEFINE decision == Portfolio!Rotation(params.universe, score, rising, params.most, params.min)
           scored == Portfolio!RotationScore(score)
<1>6. out' = decision /\ decision # None /\ ranked' = scored
  BY <1>5, AllocateIs
<1>7. DOMAIN score \subseteq 1..Assets /\ \A s \in DOMAIN score : score[s] \in Int
  BY <1>3, UniversesAre, ScoresAre
<1>8. Follows(decision.allocation.long \ Defensive, scored, DOMAIN score \ Defensive, params.most)
  BY <1>3, <1>6, <1>7, RotationFollows, StrategiesAssumption
<1>9. DOMAIN scored = DOMAIN score
  BY DEF Portfolio!RotationScore
<1> HIDE DEF decision, scored
<1> QED
  BY <1>1, <1>6, <1>8, <1>9 DEF AllocationFollowsRanking, Risky, Most, Follows

\* A bar of cross-sectional momentum answers by the scores of that bar.
LEMMA CrossSectionBarFollows ==
    ASSUME params \in ParamsOf(strategy), CrossSectionBar
    PROVE  AllocationFollowsRanking'
<1> SUFFICES ASSUME out' # None PROVE AllocationFollowsRanking'
  BY DEF AllocationFollowsRanking
<1>1. strategy = "cross_section" /\ UNCHANGED <<strategy, params>>
  BY Zenon DEF CrossSectionBar, Next1
<1>2. ParamsOf("cross_section")
         = [universe: Universes, top: {1, 2}, bottom: 0..1, min: Scores, short: BOOLEAN]
  BY DEF ParamsOf
<1>3. params.universe \in Universes /\ params.top \in Nat /\ params.bottom \in Nat /\ params.min \in Int
  <2>1. params \in [universe: Universes, top: {1, 2}, bottom: 0..1, min: Scores, short: BOOLEAN]
    BY <1>1, <1>2
  <2>2. params.universe \in Universes /\ params.top \in {1, 2} /\ params.bottom \in 0..1 /\ params.min \in Scores
    BY <2>1
  <2>3. params.top \in Nat /\ params.bottom \in Nat
    BY <2>2
  <2>4. params.min \in Int
    BY <2>2, ScoresAreNumbers, Zenon
  <2> QED
    BY <2>2, <2>3, <2>4
<1>4. PICK score \in ScoresOf(params.universe) :
         Allocate(Portfolio!CrossSection(params.universe, score, params.top, params.bottom,
                                         params.min, params.short), score)
  BY Zenon DEF CrossSectionBar
<1> DEFINE decision == Portfolio!CrossSection(params.universe, score, params.top, params.bottom,
                                              params.min, params.short)
<1>5. out' = decision /\ decision # None /\ ranked' = score
  BY <1>4, AllocateIs
<1>6. DOMAIN score \subseteq 1..Assets /\ \A s \in DOMAIN score : score[s] \in Int
  BY <1>3, UniversesAre, ScoresAre
<1>7. Follows(decision.allocation.long, score, DOMAIN score, params.top)
  BY <1>3, <1>5, <1>6, CrossSectionFollows, StrategiesAssumption
<1> HIDE DEF decision
<1> QED
  BY <1>1, <1>5, <1>7 DEF AllocationFollowsRanking, Risky, Most, Follows

\* A bar of the carry answers by the scores of that bar.
LEMMA CarryBarFollows ==
    ASSUME params \in ParamsOf(strategy), CarryBar
    PROVE  AllocationFollowsRanking'
<1> SUFFICES ASSUME out' # None PROVE AllocationFollowsRanking'
  BY DEF AllocationFollowsRanking
<1>1. strategy = "carry" /\ UNCHANGED <<strategy, params>>
  BY Zenon DEF CarryBar, Next1
<1>2. ParamsOf("carry") = [universe: Universes, required: BOOLEAN, positions: {1, 2},
                           min: {x \in Scores : x >= 0}, short: BOOLEAN]
  BY DEF ParamsOf
<1>3. params.universe \in Universes /\ params.positions \in Nat /\ params.min \in Int
  <2>1. params \in [universe: Universes, required: BOOLEAN, positions: {1, 2},
                    min: {x \in Scores : x >= 0}, short: BOOLEAN]
    BY <1>1, <1>2
  <2>2. params.universe \in Universes /\ params.positions \in {1, 2} /\ params.min \in Scores
    BY <2>1
  <2>3. params.positions \in Nat
    BY <2>2
  <2>4. params.min \in Int
    BY <2>2, ScoresAreNumbers, Zenon
  <2> QED
    BY <2>2, <2>3, <2>4
<1>4. PICK score \in ScoresOf(params.universe), available \in BOOLEAN :
         Allocate(Portfolio!Carry(params.universe, score, available, params.required,
                                  params.positions, params.min, params.short), score)
  BY Zenon DEF CarryBar
<1> DEFINE decision == Portfolio!Carry(params.universe, score, available, params.required,
                                       params.positions, params.min, params.short)
<1>5. out' = decision /\ decision # None /\ ranked' = score
  BY <1>4, AllocateIs
<1>6. DOMAIN score \subseteq 1..Assets /\ \A s \in DOMAIN score : score[s] \in Int
  BY <1>3, UniversesAre, ScoresAre
<1>7. Follows(decision.allocation.long, score, DOMAIN score, params.positions)
  <2>1. \/ decision = Portfolio!Selection(score, params.positions, params.min, params.short)
        \/ decision.allocation.long = {}
    BY <1>5 DEF Portfolio!Carry, Portfolio!StandAside, Portfolio!Nothing
  <2>2. Follows(Portfolio!Selection(score, params.positions, params.min, params.short).allocation.long,
                score, DOMAIN score, params.positions)
    BY <1>3, <1>6, SelectionFollows, StrategiesAssumption
  <2> HIDE DEF decision
  <2> QED
    BY <1>3, <2>1, <2>2, EmptyFollows
<1> HIDE DEF decision
<1> QED
  BY <1>1, <1>5, <1>7 DEF AllocationFollowsRanking, Risky, Most, Follows

\* A bar of the multifactor strategy answers by the scores of that bar.
LEMMA MultifactorBarFollows ==
    ASSUME params \in ParamsOf(strategy), MultifactorBar
    PROVE  AllocationFollowsRanking'
<1> SUFFICES ASSUME out' # None PROVE AllocationFollowsRanking'
  BY DEF AllocationFollowsRanking
<1>1. strategy = "multifactor" /\ UNCHANGED <<strategy, params>>
  BY Zenon DEF MultifactorBar, Next1
<1>2. ParamsOf("multifactor") = [universe: Universes, available: BOOLEAN, required: BOOLEAN,
                                 weighted: BOOLEAN, positions: {1, 2}, min: Scores, short: BOOLEAN]
  BY DEF ParamsOf
<1>3. params.universe \in Universes /\ params.positions \in Nat /\ params.min \in Int
  <2>1. params \in [universe: Universes, available: BOOLEAN, required: BOOLEAN,
                    weighted: BOOLEAN, positions: {1, 2}, min: Scores, short: BOOLEAN]
    BY <1>1, <1>2
  <2>2. params.universe \in Universes /\ params.positions \in {1, 2} /\ params.min \in Scores
    BY <2>1
  <2>3. params.positions \in Nat
    BY <2>2
  <2>4. params.min \in Int
    BY <2>2, ScoresAreNumbers, Zenon
  <2> QED
    BY <2>2, <2>3, <2>4
<1>4. PICK score \in ScoresOf(params.universe) :
         Allocate(Portfolio!Multifactor(params.universe, score, params.available, params.required,
                                        params.weighted, params.positions, params.min, params.short),
                  Portfolio!Weighted(score, params.weighted))
  BY Zenon DEF MultifactorBar
<1> DEFINE scored == Portfolio!Weighted(score, params.weighted)
           decision == Portfolio!Multifactor(params.universe, score, params.available, params.required,
                                             params.weighted, params.positions, params.min, params.short)
<1>5. out' = decision /\ ranked' = scored
  BY <1>4, AllocateIs
<1>6. DOMAIN scored \subseteq 1..Assets /\ \A s \in DOMAIN scored : scored[s] \in Int
  <2>1. DOMAIN score \subseteq 1..Assets /\ \A s \in DOMAIN score : score[s] \in Int
    BY <1>3, UniversesAre, ScoresAre
  <2> QED
    BY <2>1 DEF Portfolio!Weighted
<1>7. Follows(decision.allocation.long, scored, DOMAIN scored, params.positions)
  <2>1. \/ decision = Portfolio!Selection(scored, params.positions, params.min, params.short)
        \/ decision.allocation.long = {}
    BY DEF Portfolio!Multifactor, Portfolio!StandAside, Portfolio!Nothing
  <2> HIDE DEF decision, scored
  <2>2. Follows(Portfolio!Selection(scored, params.positions, params.min, params.short).allocation.long,
                scored, DOMAIN scored, params.positions)
    BY <1>3, <1>6, SelectionFollows, StrategiesAssumption
  <2> QED
    BY <1>3, <2>1, <2>2, EmptyFollows
<1> HIDE DEF decision, scored
<1> QED
  BY <1>1, <1>5, <1>7 DEF AllocationFollowsRanking, Risky, Most, Follows

\* No symbol outside of the longs (a risky one where some are defensive) has a
\* higher score than one of them, and there are no more longs than there may
\* be, for universes of any size and scores of any value, ties included.
THEOREM LongsFollowRanking == Spec => []AllocationFollowsRanking
<1>1. Init => AllocationFollowsRanking
  BY DEF Init, AllocationFollowsRanking
<1>2. ASSUME params \in ParamsOf(strategy), AllocationFollowsRanking, [Next]_vars
      PROVE  AllocationFollowsRanking'
  <2>1. ASSUME NEW b \in BarSet,
               TrendBar(b) \/ BreakoutBar(b) \/ MomentumBar(b) \/ FlowBar(b) \/ HurstBar(b)
                 \/ TrendCarryBar(b) \/ AlphaEnsembleBar(b) \/ ReversionBar(b) \/ OrbBar(b)
        PROVE  AllocationFollowsRanking'
    <3>1. strategy' \in {"trend", "breakout", "momentum", "flow", "hurst", "trend_carry",
                         "alpha_ensemble", "reversion", "orb"}
      BY <2>1, BarIsOf DEF Next1
    <3> QED
      BY <3>1 DEF AllocationFollowsRanking
  <2>2. CASE PairsBar \/ AdaptiveBar
    <3>1. strategy' \in {"pairs", "adaptive"}
      BY <2>2 DEF PairsBar, AdaptiveBar, Next1
    <3> QED
      BY <3>1 DEF AllocationFollowsRanking
  <2>3. CASE RotationBar \/ CrossSectionBar \/ CarryBar \/ MultifactorBar
    BY <1>2, <2>3, RotationBarFollows, CrossSectionBarFollows, CarryBarFollows, MultifactorBarFollows
  <2>4. CASE UNCHANGED vars
    BY <1>2, <2>4 DEF vars, AllocationFollowsRanking, Risky, Most
  <2> QED
    BY <1>2, <2>1, <2>2, <2>3, <2>4, Zenon DEF Next
<1> QED
  BY <1>1, <1>2, ParamsKept, PTL DEF Spec
=============================================================================
