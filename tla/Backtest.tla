------------------------------ MODULE Backtest ------------------------------
(***************************************************************************)
(* backtest.backtest, bar by bar: the StrategyRunner that signals, the     *)
(* entry at the next open, the stop and the targets of the one position,   *)
(* the trade each position becomes (trades.CompletedTrade), and the cash   *)
(* that sizes the next one.                                                *)
(*                                                                         *)
(* Prices, and costs per unit, are small whole numbers; a stop and the     *)
(* targets lie at fixed distances from the entry where the code takes a    *)
(* percentage of it.  A position leaves in N equal parts, one for each     *)
(* target, so money is counted in Nths of the code's.  What the indicators *)
(* say of a bar is a free choice: the runner's state is what matters here. *)
(***************************************************************************)
EXTENDS Integers, Sequences, SequencesExt

CONSTANTS
    BarSet,         \* the candles a series may hold
    StopDist,       \* entry - stop (sl_pct)
    Levels,         \* target - entry of each level (target_levels)
    StartingCapital, PositionPct,
    Commission, Slippage, Spread,   \* cost of one unit, per side
    ExitTimeout,    \* config.EXIT_TIMEOUT_BARS
    MinBars,        \* bars without which there is no backtest: 60
    MaxBars,        \* bound of the model: the longest series
    None

N == Len(Levels)

\* A fill is one way out of a position; a trade, open or closed, has them all.
FillSet == [reason: {"TP", "STOP", "END_OF_TEST"}, price: Int, parts: Nat, bar: Nat]
TradeSet == [signalBar: Nat, entryBar: Nat, exitBar: Nat \union {None}, qty: Nat,
             entry: Int, fills: Seq(FillSet), fees: Int, gross: Int]

ASSUME BacktestAssumption ==
    /\ BarSet \subseteq [open: Nat, low: Nat, high: Nat, close: Nat]
    /\ \A b \in BarSet : b.low <= b.open /\ b.low <= b.close
                          /\ b.open <= b.high /\ b.close <= b.high /\ b.open > 0
    /\ Levels \in Seq(Nat \ {0})
    /\ N > 0
    /\ \A k \in 1..(N - 1) : Levels[k] < Levels[k + 1]
    /\ {StopDist, StartingCapital, PositionPct, Commission, Slippage, Spread} \subseteq Nat
    /\ {ExitTimeout, MaxBars} \subseteq Nat
    /\ MinBars \in 2..MaxBars
    /\ None \notin Nat \union TradeSet

VARIABLES
    policy,     \* ExecutionCostConfig: intrabar_policy and gap_policy
    i, bar,     \* index of the current bar and the bar
    runner,     \* StrategyRunner: "idle" or "active", and since which bar
    pending,    \* entry_pending: the bar of the signal that waits, or None
    position,   \* the open CompletedTrade, or None
    cash,
    trades,     \* the closed ones
    done        \* the series has ended

vars == <<policy, i, bar, runner, pending, position, cash, trades, done>>

-----------------------------------------------------------------------------
\* CompletedTrade: fills after the entry, fees and gross result so far.
Trade(signalBar, qty, entry) ==
    [signalBar |-> signalBar, entryBar |-> i', exitBar |-> None, qty |-> qty,
     entry |-> entry, fills |-> <<>>, fees |-> N * qty * Commission, gross |-> 0]

Filled(p) == Len(p.fills)
StopOf(p) == p.entry - StopDist
Target(p, k) == p.entry + Levels[k]

\* add_fill and the fill of close: parts of the position leave at a price.
Fill(p, reason, price, parts, fee) ==
    [p EXCEPT !.fills = Append(@, [reason |-> reason, price |-> price, parts |-> parts, bar |-> i']),
              !.fees = @ + fee,
              !.gross = @ + p.qty * parts * (price - p.entry)]

Remaining(p) == N - Filled(p)

\* close: whatever is left leaves. All but the last target charge the
\* commission of the whole position, in Nths.
Close(p, reason, price, fee) ==
    [Fill(p, reason, price, Remaining(p), fee) EXCEPT !.exitBar = i']

CloseAll(p, reason, price) == Close(p, reason, price - Slippage, N * p.qty * Commission)

\* Mutant: a position leaves by its first part only.
CloseOnePart(p, reason, price) ==
    [Fill(p, reason, price - Slippage, 1, N * p.qty * Commission) EXCEPT !.exitBar = i']

Exit(p, reason, price) == CloseAll(p, reason, price)

\* One target of a bar, the next one: the last target closes the position.
TakeProfit(p, b) ==
    LET k == Filled(p) + 1
        fee == p.qty * Commission
    IN  IF b.high < Target(p, k) THEN p
        ELSE IF k = N THEN Close(p, "TP", Target(p, k), fee)
        ELSE Fill(p, "TP", Target(p, k), 1, fee)

IsClosed(p) == p.exitBar # None
Gapped(p, b) == policy.gap = "fill_at_next_open" /\ b.open <= StopOf(p)
Stopped(p, b) == b.low <= StopOf(p)

\* What a bar does to an open position.
Managed(p, b) ==
    IF Gapped(p, b) THEN Exit(p, "STOP", b.open)
    ELSE IF policy.intrabar = "conservative"
    THEN IF Stopped(p, b) THEN Exit(p, "STOP", StopOf(p)) ELSE TakeProfit(p, b)
    ELSE LET q == TakeProfit(p, b)
         IN  IF ~IsClosed(q) /\ Stopped(p, b) THEN Exit(q, "STOP", StopOf(p)) ELSE q

\* Mutant: the targets are looked at first whatever the policy.
ManagedTargetsFirst(p, b) ==
    IF Gapped(p, b) THEN Exit(p, "STOP", b.open)
    ELSE LET q == TakeProfit(p, b)
         IN  IF ~IsClosed(q) /\ Stopped(p, b) THEN Exit(q, "STOP", StopOf(p)) ELSE q

Life(p, b) == Managed(p, b)

\* The `continue` of the loop: the runner does not see a bar that stopped the
\* position out, unless the policy is optimistic and the bar did not gap.
Unseen(p, b) == Gapped(p, b) \/ (policy.intrabar = "conservative" /\ Stopped(p, b))

\* StrategyRunner.on_bar; `fires` is its condition, of entry or of exit.
RunnerAfter(fires) ==
    IF runner.state = "active"
    THEN IF i + 1 - runner.since >= ExitTimeout \/ fires
         THEN [runner EXCEPT !.state = "idle"] ELSE runner
    ELSE IF fires THEN [state |-> "active", since |-> i + 1] ELSE runner

Signals(fires) == runner.state = "idle" /\ fires

\* open_position: whole units for a share of the cash, at the open.
Quantity(b) == IF cash <= 0 THEN 0 ELSE (cash * PositionPct) \div (100 * b.open)
EntryPrice(b) == b.open + Slippage + Spread

Opened(b) ==
    IF position # None \/ pending = None \/ Quantity(b) = 0 THEN position
    ELSE Trade(pending, Quantity(b), EntryPrice(b))

\* Mutant: the entry fills on the bar whose close fired the signal.
OpenedAtSignal(b) ==
    IF position # None \/ pending = None \/ Quantity(b) = 0 THEN position
    ELSE [Trade(pending, Quantity(b), EntryPrice(b)) EXCEPT !.entryBar = pending]

Entered(b) == Opened(b)

\* An entry_pending that found no position is used up, whatever it bought.
Waiting(b) == IF position = None THEN None ELSE pending

\* One pass of the loop.
Bar(b, fires) ==
    LET p == Entered(b)
        waits == Waiting(b)
        q == IF p = None THEN None ELSE Life(p, b)
        gone == q # None /\ IsClosed(q)
    IN  /\ ~done
        /\ i < MaxBars
        /\ i' = i + 1
        /\ bar' = b
        /\ cash' = IF p = position THEN cash ELSE cash - p.qty * (p.entry + Commission)
        /\ position' = IF gone THEN None ELSE q
        /\ trades' = IF gone THEN Append(trades, q) ELSE trades
        /\ IF p # None /\ Unseen(p, b)
           THEN UNCHANGED runner /\ pending' = waits
           ELSE /\ runner' = RunnerAfter(fires)
                /\ pending' = IF Signals(fires) /\ position' = None /\ waits = None
                              THEN i + 1 ELSE waits
        /\ UNCHANGED <<policy, done>>

\* The end of the series closes what is open at the last close.
End ==
    /\ ~done
    /\ i >= MinBars
    /\ i' = i
    /\ done' = TRUE
    /\ position' = None
    /\ trades' = IF position = None THEN trades
                 ELSE Append(trades, Exit(position, "END_OF_TEST", bar.close))
    /\ UNCHANGED <<policy, bar, runner, pending, cash>>

Init ==
    /\ policy \in [intrabar: {"conservative", "optimistic"}, gap: {"fill_at_next_open", "skip"}]
    /\ i = 1
    /\ bar \in BarSet
    /\ runner = [state |-> "idle", since |-> 0]
    /\ pending = None
    /\ position = None
    /\ cash = StartingCapital
    /\ trades = <<>>
    /\ done = FALSE

Next == (\E b \in BarSet, fires \in BOOLEAN : Bar(b, fires)) \/ End

Spec == Init /\ [][Next]_vars

-----------------------------------------------------------------------------
TypeOK ==
    /\ i \in 1..MaxBars
    /\ bar \in BarSet
    /\ policy \in [intrabar: {"conservative", "optimistic"}, gap: {"fill_at_next_open", "skip"}]
    /\ runner \in [state: {"idle", "active"}, since: 0..i]
    /\ pending \in (1..i) \union {None}
    /\ position \in TradeSet \union {None}
    /\ cash \in Int
    /\ trades \in Seq(TradeSet)
    /\ done \in BOOLEAN
    /\ pending # None => position = None
    /\ position # None => ~IsClosed(position) /\ Filled(position) < N /\ position.qty > 0
    /\ \A t \in {trades[k] : k \in DOMAIN trades} : IsClosed(t) /\ t.qty > 0

\* "The decision is never used against the candle that produced it": a trade
\* enters one bar after its signal, and after the trade before it was over;
\* the signals that fired while a position was open are never used.
NoLookahead ==
    \A k \in DOMAIN trades :
        /\ trades[k].entryBar = trades[k].signalBar + 1
        /\ k > 1 => /\ trades[k].signalBar >= trades[k - 1].exitBar
                    /\ trades[k].entryBar > trades[k - 1].exitBar

\* One position is one trade: its fills are the whole position and no more,
\* targets first and one at a time in the order of the bars, one exit last.
WholePosition ==
    \A t \in {trades[k] : k \in DOMAIN trades} :
        LET f == t.fills
            last == Len(f)
        IN  /\ last \in 1..N
            /\ \A k \in 1..(last - 1) : /\ f[k].reason = "TP" /\ f[k].parts = 1
                                        /\ f[k].price = Target(t, k)
                                        /\ f[k].bar <= f[k + 1].bar
            /\ f[last].parts = N - (last - 1)

\* The worst case of a bar: when a conservative run has an open position and a
\* bar at or below its stop, the bar closes it by the stop and fills no target;
\* and with gaps filled at the open, no stop gets more than the open.
StopsAreWorst ==
    [][ position # None /\ i' = i + 1
        /\ bar'.low <= StopOf(position) /\ policy.intrabar = "conservative"
        => /\ position' = None
           /\ LET t == trades'[Len(trades')]
                  f == t.fills[Len(t.fills)]
              IN  /\ f.reason = "STOP" /\ Len(t.fills) = Filled(position) + 1
                  /\ policy.gap = "fill_at_next_open" => f.price <= bar'.open ]_vars

-----------------------------------------------------------------------------
\* "equity mark (cash + open position at close)" (backtest.py:221): with no
\* position open, the cash is the capital and what the trades have made of it.
CashComesBack ==
    position = None =>
        N * cash = FoldSeq(LAMBDA t, sum : sum + t.gross - t.fees, N * StartingCapital, trades)

\* "per side, in basis points" (backtest.py:36): a trade pays for its quantity
\* once on the way in and once on the way out.
FeesPerSide ==
    \A t \in {trades[k] : k \in DOMAIN trades} : t.fees <= 2 * N * t.qty * Commission
=============================================================================
