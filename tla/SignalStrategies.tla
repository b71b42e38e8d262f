-------------------------- MODULE SignalStrategies --------------------------
(***************************************************************************)
(* The class-based strategies of app/strategies that watch one instrument: *)
(* generate_signal(bars, current_idx) of each, as an operator of the last  *)
(* bars, of what the other indicators say at this bar, and of the private  *)
(* state of the strategy where it keeps one.                               *)
(*                                                                         *)
(* Prices are ticks, and the Donchian channel is computed from the bars.   *)
(* Every other indicator is the side of its thresholds it is on.           *)
(***************************************************************************)
EXTENDS Integers, Sequences

CONSTANTS
    MaxPrice,       \* prices are 0..MaxPrice
    Window,         \* bars of a Donchian channel
    None

ASSUME SignalAssumption ==
    /\ MaxPrice \in Nat
    /\ Window \in Nat \ {0}
    /\ None \notin {"LONG", "SHORT", "FLAT"}

Prices == 0..MaxPrice
BarSet == {b \in [low: Prices, close: Prices, high: Prices] :
              b.low <= b.close /\ b.close <= b.high}
Sides == {"LONG", "SHORT", "FLAT"}

Now(w) == w[Len(w)]
SignOf(x) == IF x > 0 THEN 1 ELSE IF x < 0 THEN -1 ELSE 0

\* donchian_high, donchian_low: over the last bars, this one included.
Highest(S) == CHOOSE x \in S : \A y \in S : y <= x
Lowest(S) == CHOOSE x \in S : \A y \in S : x <= y
DonchianHigh(w) == Highest({w[k].high : k \in 1..Len(w)})
DonchianLow(w) == Lowest({w[k].low : k \in 1..Len(w)})

\* A stop is stop/parts: the mean of so many stops.
Entry(side, price, stop) == [side |-> side, price |-> price, stop |-> stop, parts |-> 1]
Flat(price) == [side |-> "FLAT", price |-> price, stop |-> 0, parts |-> 0]

\* A multiple of the ATR, or of two in a hundred of the price, away from it.
Enter(side, price, distance) ==
    Entry(side, price, IF side = "LONG" THEN price - distance ELSE price + distance)

-----------------------------------------------------------------------------
\* AdaptiveMultiHorizonTrend: the signs of three horizons with weights in
\* tenths. It is the sign of their sum, not the sum, that has to exceed the
\* threshold. A reversal is FLAT and returned as nothing.
Breadth(h) == 2 * h.short + 3 * h.medium + 5 * h.long

\* Mutant: the channel of the highs bounds the stop of a long entry.
TrendStopAcross(side, w, distance) ==
    IF side = "LONG" THEN LET s == Now(w).close - distance  d == DonchianHigh(w) IN IF d > s THEN d ELSE s
    ELSE LET s == Now(w).close + distance  d == DonchianLow(w) IN IF d < s THEN d ELSE s

TrendStop(side, w, distance) ==
    IF side = "LONG" THEN LET s == Now(w).close - distance  d == DonchianLow(w) IN IF d > s THEN d ELSE s
    ELSE LET s == Now(w).close + distance  d == DonchianHigh(w) IN IF d < s THEN d ELSE s

Trend(w, h, filtersOk, distance, short, threshold) ==
    LET sign == SignOf(Breadth(h))
        price == Now(w).close
    IN  IF filtersOk /\ 10 * sign > threshold THEN Entry("LONG", price, TrendStop("LONG", w, distance))
        ELSE IF filtersOk /\ 10 * sign < -threshold /\ short
        THEN Entry("SHORT", price, TrendStop("SHORT", w, distance))
        ELSE None

\* VolatilityBreakout: the close has to leave the channel it belongs to.
\* Mutant: the channel is that of the bars before this one.
BreakoutLevelsBefore(w) ==
    LET v == SubSeq(w, 1, Len(w) - 1)
    IN  IF v = <<>> THEN [high |-> MaxPrice, low |-> 0]
        ELSE [high |-> DonchianHigh(v), low |-> DonchianLow(v)]

BreakoutLevels(w) == [high |-> DonchianHigh(w), low |-> DonchianLow(w)]

Breakout(w, confirmed, distance, short) ==
    LET price == Now(w).close
        level == BreakoutLevels(w)
    IN  IF confirmed /\ price > level.high THEN Enter("LONG", price, distance)
        ELSE IF confirmed /\ short /\ price < level.low THEN Enter("SHORT", price, distance)
        ELSE None

-----------------------------------------------------------------------------
\* An indicator with an entry threshold on either side (2, -2) and an exit band (0).
Levels == -2..2

\* VolManagedMomentum: there is no exit band, a small momentum is nothing.
Momentum(price, level, distance, short) ==
    IF level = 2 THEN Enter("LONG", price, distance)
    ELSE IF level = -2 /\ short THEN Enter("SHORT", price, distance)
    ELSE None

\* VolumeFlowImbalance: the flow, confirmed by the side of VWAP the price is on.
Flow(price, level, deviation, distance, short) ==
    IF level = 2 /\ deviation > 0 THEN Enter("LONG", price, distance)
    ELSE IF level = -2 /\ deviation < 0 /\ short THEN Enter("SHORT", price, distance)
    ELSE IF level = 0 THEN Flat(price)
    ELSE None

\* HurstGatedReversion: against the z-score, and only in a series that reverts.
Hurst(price, reverting, z, distance, short) ==
    IF reverting /\ z = -2 THEN Enter("LONG", price, distance)
    ELSE IF reverting /\ z = 2 /\ short THEN Enter("SHORT", price, distance)
    ELSE IF ~reverting \/ z = 0 THEN Flat(price)
    ELSE None

\* TrendCarryComposite, in hundredths: weights 0.6 and 0.4, funding clamped to
\* one; without funding the trend alone, and a higher threshold.
Composite(trend, funding) == IF funding = None THEN trend ELSE (6 * trend + 4 * funding) \div 10

TrendCarry(price, trend, funding, distance, short) ==
    LET c == Composite(trend, funding)
        entry == IF funding = None THEN 15 ELSE 8
    IN  IF c > entry THEN Enter("LONG", price, distance)
        ELSE IF c < -entry /\ short THEN Enter("SHORT", price, distance)
        ELSE IF -3 < c /\ c < 3 THEN Flat(price)
        ELSE None

\* AlphaEnsemble: members 1, 2 and 3 (flow, momentum, trend) vote, and the stop
\* is the mean of the stops of those that agree.
Voters(sigs, members, side) == {k \in members : sigs[k] # None /\ sigs[k].side = side}
Counted(S, k) == IF k \in S THEN 1 ELSE 0
Votes(S) == Counted(S, 1) + Counted(S, 2) + Counted(S, 3)
StopOf(sigs, S, k) == IF k \in S THEN sigs[k].stop ELSE 0

Agreed(side, price, sigs, S) ==
    [side |-> side, price |-> price, parts |-> Votes(S),
     stop |-> StopOf(sigs, S, 1) + StopOf(sigs, S, 2) + StopOf(sigs, S, 3)]

Ensemble(price, sigs, members, votes) ==
    LET longs == Voters(sigs, members, "LONG")
        shorts == Voters(sigs, members, "SHORT")
    IN  IF Votes(longs) >= votes /\ Votes(longs) > Votes(shorts)
        THEN Agreed("LONG", price, sigs, longs)
        ELSE IF Votes(shorts) >= votes /\ Votes(shorts) > Votes(longs)
        THEN Agreed("SHORT", price, sigs, shorts)
        ELSE None

-----------------------------------------------------------------------------
\* RegimeConditionedMeanReversion: what it keeps, and what it sees of a bar.
\* z-score and VWAP deviation are in quarters. The deviation is a fraction of
\* VWAP, above -1, and is compared with thresholds of 2.0 and 0.5 all the same.
ReversionStart == [state |-> "IDLE", lastExit |-> -100]
Observations == [regime: BOOLEAN, z: {None, -8, -4, 0, 4, 8},
                 rsi: {None, "oversold", "middle", "overbought"}, dev: {None, -3, 0, 3, 9}]

AtMost(x, bound) == x # None /\ x <= bound
AtLeast(x, bound) == x # None /\ x >= bound

LongEntry(o) == o.regime /\ o.rsi = "oversold" /\ (AtMost(o.z, -8) \/ AtMost(o.dev, -8))
ShortEntry(o) == o.regime /\ o.rsi = "overbought" /\ (AtLeast(o.z, 8) \/ AtLeast(o.dev, 8))
LongExit(o) == AtLeast(o.z, -2) \/ AtLeast(o.dev, -2) \/ ~o.regime
ShortExit(o) == AtMost(o.z, 2) \/ AtMost(o.dev, 2) \/ ~o.regime

\* What it does at a bar: "LONG" and "SHORT" enter, "FLAT" leaves a position.
ReversionMove(self, idx, o, cooldown, short) ==
    LET cooled == idx - self.lastExit >= cooldown
    IN  CASE self.state = "IDLE" -> IF LongEntry(o) /\ cooled THEN "LONG"
                                    ELSE IF short /\ ShortEntry(o) /\ cooled THEN "SHORT" ELSE None
          [] self.state = "LONG" -> IF LongExit(o) THEN "FLAT" ELSE None
          [] self.state = "SHORT" -> IF ShortExit(o) THEN "FLAT" ELSE None

ReversionAfter(self, idx, move) ==
    CASE move = None -> self
      [] move = "FLAT" -> [state |-> "IDLE", lastExit |-> idx]
      [] OTHER -> [self EXCEPT !.state = move]

ReversionSignal(move, price, distance) ==
    CASE move = None -> None
      [] move = "FLAT" -> Flat(price)
      [] OTHER -> Enter(move, price, distance)

-----------------------------------------------------------------------------
\* OpeningRangeBreakout: slots of a day are before the session, its opening
\* minutes, the rest of it, and after it. The range is of one date.
Slots == 1..4
OrbStart == [day |-> 0, high |-> None, low |-> None]

OrbDay(self, day) == IF self.day = day THEN self ELSE [day |-> day, high |-> None, low |-> None]

OrbAfter(self, day, slot, bar) ==
    LET s == OrbDay(self, day)
    IN  IF slot # 2 THEN s
        ELSE [s EXCEPT !.high = IF @ = None \/ bar.high > @ THEN bar.high ELSE @,
                       !.low = IF @ = None \/ bar.low < @ THEN bar.low ELSE @]

\* After the range is known, at every bar that closes outside of it.
OrbSignal(self, day, slot, bar, surge, distance, short) ==
    LET s == OrbDay(self, day)
    IN  IF slot # 3 \/ s.high = None \/ ~surge THEN None
        ELSE IF bar.close > s.high THEN Enter("LONG", bar.close, distance)
        ELSE IF short /\ bar.close < s.low THEN Enter("SHORT", bar.close, distance)
        ELSE None

-----------------------------------------------------------------------------
\* StatisticalPairs: bars of both symbols come in one list, and the prices of a
\* symbol are indexed with the index of that list.
PairsStart == [a |-> 0, b |-> 0, history |-> 0, side |-> None, entry |-> -1]

\* len(prices[idx - trading : idx + 1]) of a symbol with so many prices.
Recent(count, idx, trading) ==
    LET start == idx - trading IN IF count > start THEN count - start ELSE 0

\* Enough prices of both symbols for a spread, at this bar.
PairsSees(self, idx, p) ==
    /\ self.a >= p.formation /\ self.b >= p.formation
    /\ idx >= p.formation
    /\ Recent(self.a, idx, p.trading) >= p.recent
    /\ Recent(self.b, idx, p.trading) >= p.recent

\* The spread's z-score, between the thresholds -stop, -entry, -exit, exit, entry, stop.
PairsLevels == -3..3

PairsReverted(side, z) == (side = "LONG" /\ z >= 0) \/ (side = "SHORT" /\ z <= 0)

PairsMove(self, idx, z, broken, short, p) ==
    IF ~PairsSees(self, idx, p) \/ self.history + 1 < p.recent THEN None
    ELSE IF broken THEN "FLAT"
    ELSE IF self.side # None
    THEN IF idx - self.entry >= p.holding \/ PairsReverted(self.side, z) \/ z \in {-3, 3}
         THEN "FLAT" ELSE None
    ELSE IF z <= -2 THEN "LONG" ELSE IF z >= 2 /\ short THEN "SHORT" ELSE None

PairsSignal(move) == IF move = None THEN None ELSE [Flat(0) EXCEPT !.side = move]

\* The bar of an entry is the last of the list the caller passed.
PairsAfter(self, idx, last, move, p) ==
    LET s == IF PairsSees(self, idx, p) /\ self.history < p.recent
             THEN [self EXCEPT !.history = @ + 1] ELSE self
    IN  CASE move = None -> s
          [] move = "FLAT" -> [s EXCEPT !.side = None, !.entry = -1]
          [] OTHER -> [s EXCEPT !.side = move, !.entry = last]
=============================================================================
