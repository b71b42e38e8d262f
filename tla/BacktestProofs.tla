--------------------------- MODULE BacktestProofs ---------------------------
(***************************************************************************)
(* What holds of every backtest: over any candles, stop and target         *)
(* distances, capital and costs, for series of any length.                 *)
(***************************************************************************)
EXTENDS Backtest, SequenceTheorems, TLAPS

\* The numbers the module is a function of, and what follows of their kinds.
LEMMA Constants ==
    /\ N \in Nat \ {0} /\ Levels \in Seq(Nat \ {0})
    /\ StopDist \in Nat /\ StartingCapital \in Nat /\ PositionPct \in Nat
    /\ Commission \in Nat /\ Slippage \in Nat /\ Spread \in Nat /\ ExitTimeout \in Nat
    /\ MaxBars \in Nat /\ MaxBars >= 2
    /\ None \notin Nat /\ None \notin TradeSet
    /\ \A b \in BarSet : b.open \in Nat /\ b.open > 0 /\ b.low \in Nat /\ b.high \in Nat /\ b.close \in Nat
<1>1. N \in Nat /\ N > 0 /\ Levels \in Seq(Nat \ {0})
  BY BacktestAssumption DEF N
<1>2. \A b \in [open: Nat, low: Nat, high: Nat, close: Nat] :
         b.open \in Nat /\ b.low \in Nat /\ b.high \in Nat /\ b.close \in Nat
  OBVIOUS
<1>3. None \notin Nat /\ None \notin TradeSet
  BY BacktestAssumption, Zenon
<1>4. \A b \in BarSet : b \in [open: Nat, low: Nat, high: Nat, close: Nat] /\ b.open > 0
  BY BacktestAssumption, Zenon
<1>5. MinBars \in 2..MaxBars /\ {ExitTimeout, MaxBars} \subseteq Nat
      /\ {StopDist, StartingCapital, PositionPct, Commission, Slippage, Spread} \subseteq Nat
  BY BacktestAssumption, Zenon
<1>6. MaxBars \in Nat /\ MaxBars >= 2
  BY <1>5
<1> QED
  BY <1>1, <1>2, <1>3, <1>4, <1>5, <1>6

\* Whole numbers are closed under multiplication.
LEMMA Products == \A a, b \in Int : a * b \in Int
  OBVIOUS

\* Whole units of a price.
LEMMA Quotients ==
    ASSUME NEW a \in Nat, NEW b \in Nat \ {0}
    PROVE  a \div b \in Nat
  OBVIOUS

\* What the levels and a stop are next to an entry.
LEMMA PricesAre ==
    ASSUME NEW p \in TradeSet
    PROVE  /\ StopOf(p) \in Int
           /\ \A k \in 1..N : Target(p, k) \in Int
<1>1. p.entry \in Int
  BY DEF TradeSet
<1>2. \A k \in 1..N : Levels[k] \in Nat
  BY Constants DEF N
<1> QED
  BY <1>1, <1>2, Constants DEF StopOf, Target

-----------------------------------------------------------------------------
(***************************************************************************)
(* A position up to bar n: only targets have been filled, in their order,  *)
(* and not the last one; and a trade that is over, all of it sold.         *)
(***************************************************************************)
TargetsOnly(p, m) ==
    \A k \in 1..m : p.fills[k].reason = "TP" /\ p.fills[k].parts = 1 /\ p.fills[k].price = Target(p, k)

InBarOrder(p) == \A k \in 1..(Len(p.fills) - 1) : p.fills[k].bar <= p.fills[k + 1].bar

OpenUpTo(p, n) ==
    /\ p \in TradeSet /\ p.qty > 0 /\ p.exitBar = None
    /\ Filled(p) < N
    /\ TargetsOnly(p, Filled(p))
    /\ InBarOrder(p)
    /\ \A k \in 1..Filled(p) : p.fills[k].bar <= n

OverAt(t, n) ==
    /\ t \in TradeSet /\ t.qty > 0 /\ t.exitBar = n
    /\ Len(t.fills) \in 1..N
    /\ TargetsOnly(t, Len(t.fills) - 1)
    /\ InBarOrder(t)
    /\ t.fills[Len(t.fills)].parts = N - (Len(t.fills) - 1)

\* The position and its trade: a fill changes neither the signal nor the entry.
SameTrade(q, p) == q.signalBar = p.signalBar /\ q.entryBar = p.entryBar

\* What one more fill makes of a trade (CompletedTrade.add_fill).
LEMMA FillIs ==
    ASSUME NEW p, NEW n \in Nat, OpenUpTo(p, n), i' \in Nat, n <= i',
           NEW reason \in {"TP", "STOP", "END_OF_TEST"}, NEW price \in Int, NEW parts \in Nat, NEW fee \in Int
    PROVE  LET q == Fill(p, reason, price, parts, fee)
               f == q.fills[Len(q.fills)]
           IN  /\ q \in TradeSet /\ SameTrade(q, p) /\ q.entry = p.entry
               /\ q.qty = p.qty /\ q.exitBar = p.exitBar
               /\ Len(q.fills) = Filled(p) + 1
               /\ TargetsOnly(q, Filled(p))
               /\ InBarOrder(q)
               /\ f = [reason |-> reason, price |-> price, parts |-> parts, bar |-> i']
               /\ \A k \in 1..Len(q.fills) : q.fills[k].bar <= i'
<1> DEFINE q == Fill(p, reason, price, parts, fee)
           f == [reason |-> reason, price |-> price, parts |-> parts, bar |-> i']
<1>1. p \in TradeSet /\ TargetsOnly(p, Filled(p)) /\ InBarOrder(p) /\ \A k \in 1..Filled(p) : p.fills[k].bar <= n
  BY DEF OpenUpTo
<1>2. p.fills \in Seq(FillSet) /\ p.qty \in Int /\ p.entry \in Int /\ p.fees \in Int /\ p.gross \in Int
  BY <1>1 DEF TradeSet
<1>3. f \in FillSet
  BY DEF FillSet
<1>4. p.gross + p.qty * parts * (price - p.entry) \in Int /\ p.fees + fee \in Int
  <2>1. p.qty * parts \in Int
    BY <1>2, Products
  <2>2. p.qty * parts * (price - p.entry) \in Int
    BY <1>2, <2>1, Products
  <2> QED
    BY <1>2, <2>2
<1>5. Append(p.fills, f) \in Seq(FillSet)
  BY <1>2, <1>3
<1>6. q = [p EXCEPT !.fills = Append(p.fills, f), !.fees = p.fees + fee,
                    !.gross = p.gross + p.qty * parts * (price - p.entry)]
  BY DEF Fill
<1>7. /\ Len(Append(p.fills, f)) = Filled(p) + 1 /\ Filled(p) \in Nat
      /\ Append(p.fills, f)[Filled(p) + 1] = f
      /\ \A k \in 1..Filled(p) : Append(p.fills, f)[k] = p.fills[k]
  BY <1>2, <1>3 DEF Filled
<1> DEFINE s == Append(p.fills, f)
           gross == p.gross + p.qty * parts * (price - p.entry)
           fees == p.fees + fee
<1>8. s \in Seq(FillSet) /\ gross \in Int /\ fees \in Int /\ q = [p EXCEPT !.fills = s, !.fees = fees, !.gross = gross]
      /\ Len(s) = Filled(p) + 1 /\ s[Filled(p) + 1] = f /\ \A k \in 1..Filled(p) : s[k] = p.fills[k]
  BY <1>4, <1>5, <1>6, <1>7
<1>9. f.bar = i' /\ f \in FillSet
  BY <1>3
<1> HIDE DEF q, f, s, gross, fees
<1>10. q \in TradeSet /\ SameTrade(q, p) /\ q.entry = p.entry /\ q.qty = p.qty /\ q.exitBar = p.exitBar /\ q.fills = s
  BY <1>1, <1>8 DEF TradeSet, SameTrade
<1>11. TargetsOnly(q, Filled(p))
  BY <1>1, <1>8, <1>10 DEF TargetsOnly, Target
<1>12. \A k \in 1..Filled(p) : s[k].bar \in Nat /\ s[k].bar <= n
  <2> TAKE k \in 1..Filled(p)
  <2>1. p.fills[k] \in FillSet
    BY <1>2 DEF Filled
  <2>2. p.fills[k].bar \in Nat
    BY <2>1 DEF FillSet
  <2> QED
    BY <1>1, <1>8, <2>2
<1>13. \A k \in 1..Len(s) : s[k].bar <= i'
  <2> TAKE k \in 1..Len(s)
  <2>1. CASE k = Filled(p) + 1
    BY <1>8, <1>9, <2>1
  <2>2. CASE k # Filled(p) + 1
    <3>1. k \in 1..Filled(p)
      BY <1>7, <1>8, <2>2
    <3> QED
      BY <1>12, <3>1
  <2> QED
    BY <2>1, <2>2
<1>14. InBarOrder(q)
  <2> SUFFICES ASSUME NEW k \in 1..Filled(p) PROVE s[k].bar <= s[k + 1].bar
    BY <1>7, <1>8, <1>10 DEF InBarOrder
  <2>1. CASE k = Filled(p)
    BY <1>8, <1>9, <1>12, <2>1
  <2>2. CASE k # Filled(p)
    <3>1. k \in 1..(Filled(p) - 1) /\ k + 1 \in 1..Filled(p)
      BY <1>7, <2>2
    <3>2. p.fills[k].bar <= p.fills[k + 1].bar
      BY <1>1, <3>1 DEF InBarOrder, Filled
    <3> QED
      BY <1>8, <3>1, <3>2
  <2> QED
    BY <2>1, <2>2
<1>15. q.fills[Len(q.fills)] = f
  BY <1>8, <1>10
<1> QED
  BY <1>8, <1>10, <1>11, <1>13, <1>14, <1>15 DEF q, f

\* Whatever is left leaves: the trade is over and whole.
LEMMA CloseIs ==
    ASSUME NEW p, NEW n \in Nat, OpenUpTo(p, n), i' \in Nat, n <= i',
           NEW reason \in {"TP", "STOP", "END_OF_TEST"}, NEW price \in Int, NEW fee \in Int
    PROVE  LET q == Close(p, reason, price, fee)
           IN  /\ OverAt(q, i') /\ SameTrade(q, p) /\ Len(q.fills) = Filled(p) + 1
               /\ q.fills[Len(q.fills)].reason = reason /\ q.fills[Len(q.fills)].price = price
<1> DEFINE r == Fill(p, reason, price, Remaining(p), fee)
           q == Close(p, reason, price, fee)
<1>1. /\ Filled(p) \in Nat /\ Filled(p) < N /\ N \in Nat /\ p.qty > 0
      /\ Remaining(p) \in Nat /\ Remaining(p) = N - ((Filled(p) + 1) - 1)
  <2>1. p.fills \in Seq(FillSet) /\ Filled(p) < N /\ p.qty > 0
    BY DEF OpenUpTo, TradeSet
  <2> QED
    BY <2>1, Constants DEF Filled, Remaining
<1>2. /\ r \in TradeSet /\ SameTrade(r, p) /\ r.entry = p.entry /\ r.qty = p.qty
      /\ Len(r.fills) = Filled(p) + 1
      /\ TargetsOnly(r, Filled(p))
      /\ InBarOrder(r)
      /\ r.fills[Len(r.fills)] = [reason |-> reason, price |-> price, parts |-> Remaining(p), bar |-> i']
  BY <1>1, FillIs
<1>3. q = [r EXCEPT !.exitBar = i']
  BY DEF Close
<1> HIDE DEF r, q
<1>4. q \in TradeSet /\ q.exitBar = i' /\ q.fills = r.fills /\ q.entry = r.entry /\ q.qty = r.qty
      /\ q.signalBar = r.signalBar /\ q.entryBar = r.entryBar
  BY <1>2, <1>3 DEF TradeSet
<1>5. Len(q.fills) \in 1..N /\ Len(q.fills) - 1 = Filled(p)
  BY <1>1, <1>2, <1>4
<1>6. TargetsOnly(q, Len(q.fills) - 1)
  BY <1>2, <1>4, <1>5 DEF TargetsOnly, Target
<1>7. q.fills[Len(q.fills)].parts = N - (Len(q.fills) - 1)
  <2>1. q.fills[Len(q.fills)].parts = Remaining(p)
    BY <1>2, <1>4
  <2>2. Len(q.fills) = Filled(p) + 1
    BY <1>2, <1>4
  <2> QED
    BY <1>1, <2>1, <2>2
<1>8. InBarOrder(q)
  BY <1>2, <1>4 DEF InBarOrder
<1>9. q.qty > 0
  BY <1>1, <1>2, <1>4
<1> QED
  BY <1>2, <1>4, <1>5, <1>6, <1>7, <1>8, <1>9 DEF OverAt, SameTrade, q

\* One target of a bar leaves the position open, or it was the last.
LEMMA TakeProfitIs ==
    ASSUME NEW p, NEW n \in Nat, OpenUpTo(p, n), i' \in Nat, n <= i', NEW b \in BarSet
    PROVE  LET q == TakeProfit(p, b)
           IN  SameTrade(q, p) /\ (OpenUpTo(q, i') \/ OverAt(q, i'))
<1> DEFINE k == Filled(p) + 1
           fee == p.qty * Commission
           q == TakeProfit(p, b)
<1>1. /\ p \in TradeSet /\ Filled(p) \in Nat /\ N \in Nat /\ k \in 1..N /\ fee \in Int /\ p.qty \in Nat
      /\ p.qty > 0 /\ p.exitBar = None /\ TargetsOnly(p, Filled(p)) /\ InBarOrder(p)
  <2>1. p \in TradeSet /\ p.fills \in Seq(FillSet) /\ Filled(p) < N /\ p.qty > 0 /\ p.qty \in Nat
        /\ p.exitBar = None /\ TargetsOnly(p, Filled(p)) /\ InBarOrder(p)
    BY DEF OpenUpTo, TradeSet
  <2>2. fee \in Int
    BY <2>1, Constants, Products
  <2> QED
    BY <2>1, <2>2, Constants DEF Filled
<1>2. Target(p, k) \in Int
  BY <1>1, PricesAre
<1>3. q = IF b.high < Target(p, k) THEN p
          ELSE IF k = N THEN Close(p, "TP", Target(p, k), fee)
          ELSE Fill(p, "TP", Target(p, k), 1, fee)
  BY DEF TakeProfit
<1> HIDE DEF q, fee
<1>4. CASE q = p
  <2>1. \A j \in 1..Filled(p) : p.fills[j].bar <= i'
    <3> TAKE j \in 1..Filled(p)
    <3>1. p.fills[j] \in FillSet /\ p.fills[j].bar <= n
      BY <1>1 DEF OpenUpTo, TradeSet, Filled
    <3>2. p.fills[j].bar \in Nat
      BY <3>1 DEF FillSet
    <3> QED
      BY <3>1, <3>2
  <2> QED
    BY <1>1, <1>4, <2>1 DEF OpenUpTo, SameTrade, q
<1>5. CASE k = N /\ q = Close(p, "TP", Target(p, k), fee)
  BY <1>1, <1>2, <1>5, CloseIs DEF q
<1>6. CASE k # N /\ q = Fill(p, "TP", Target(p, k), 1, fee)
  <2>1. /\ q \in TradeSet /\ SameTrade(q, p) /\ q.entry = p.entry
        /\ q.qty = p.qty /\ q.exitBar = p.exitBar
        /\ Len(q.fills) = Filled(p) + 1
        /\ TargetsOnly(q, Filled(p))
        /\ InBarOrder(q)
        /\ q.fills[Len(q.fills)] = [reason |-> "TP", price |-> Target(p, k), parts |-> 1, bar |-> i']
        /\ \A j \in 1..Len(q.fills) : q.fills[j].bar <= i'
    <3> HIDE DEF k
    <3>1. k \in 1..N /\ 1 \in Nat
      BY <1>1
    <3> QED
      BY <1>1, <1>2, <1>6, FillIs
  <2>2. Filled(q) = k /\ Filled(q) < N
    BY <1>1, <1>6, <2>1 DEF Filled
  <2>3. TargetsOnly(q, k)
    <3> SUFFICES ASSUME NEW j \in 1..k
                 PROVE  q.fills[j].reason = "TP" /\ q.fills[j].parts = 1 /\ q.fills[j].price = Target(q, j)
      BY DEF TargetsOnly
    <3>1. CASE j = k
      <4>1. q.fills[j] = [reason |-> "TP", price |-> Target(p, k), parts |-> 1, bar |-> i']
        BY <2>1, <3>1
      <4>2. Target(q, j) = Target(p, k)
        BY <2>1, <3>1 DEF Target
      <4> QED
        BY <4>1, <4>2
    <3>2. CASE j # k
      <4>1. j \in 1..Filled(p)
        BY <1>1, <3>2
      <4> QED
        BY <2>1, <4>1 DEF TargetsOnly
    <3> QED
      BY <3>1, <3>2
  <2>4. \A j \in 1..Filled(q) : q.fills[j].bar <= i'
    BY <2>1 DEF Filled
  <2> HIDE DEF k
  <2>5. OpenUpTo(q, i')
    BY <1>1, <2>1, <2>2, <2>3, <2>4 DEF OpenUpTo
  <2> QED
    BY <2>1, <2>5 DEF q
<1> QED
  BY <1>3, <1>4, <1>5, <1>6

\* The exits of the whole position.
LEMMA ExitIs ==
    ASSUME NEW p, NEW n \in Nat, OpenUpTo(p, n), i' \in Nat, n <= i',
           NEW reason \in {"TP", "STOP", "END_OF_TEST"}, NEW price \in Int
    PROVE  LET q == Exit(p, reason, price)
           IN  /\ OverAt(q, i') /\ SameTrade(q, p) /\ Len(q.fills) = Filled(p) + 1
               /\ q.fills[Len(q.fills)].reason = reason
               /\ q.fills[Len(q.fills)].price = price - Slippage
<1>1. p.qty \in Int
  BY DEF OpenUpTo, TradeSet
<1>2. N * p.qty \in Int
  BY <1>1, Constants, Products
<1>3. N * p.qty * Commission \in Int /\ price - Slippage \in Int
  BY <1>2, Constants, Products
<1> DEFINE fee == N * p.qty * Commission
<1>4. Exit(p, reason, price) = Close(p, reason, price - Slippage, fee)
  BY DEF Exit, CloseAll
<1>5. fee \in Int
  BY <1>3
<1> HIDE DEF fee
<1> QED
  BY <1>3, <1>4, <1>5, CloseIs

\* What the stop and the targets make of an open position within one bar.
LEMMA ManagedIs ==
    ASSUME NEW p, NEW n \in Nat, OpenUpTo(p, n), i' \in Nat, n <= i', NEW b \in BarSet
    PROVE  LET q == Managed(p, b)
           IN  SameTrade(q, p) /\ (OpenUpTo(q, i') \/ OverAt(q, i'))
<1> DEFINE q == Managed(p, b)
           r == TakeProfit(p, b)
<1>1. SameTrade(r, p) /\ (OpenUpTo(r, i') \/ OverAt(r, i'))
  BY TakeProfitIs
<1>2. b.open \in Int /\ StopOf(p) \in Int
  BY Constants, PricesAre DEF OpenUpTo
<1>3. /\ OverAt(Exit(p, "STOP", b.open), i') /\ SameTrade(Exit(p, "STOP", b.open), p)
      /\ OverAt(Exit(p, "STOP", StopOf(p)), i') /\ SameTrade(Exit(p, "STOP", StopOf(p)), p)
  BY <1>2, ExitIs
<1>4. ASSUME ~IsClosed(r)
      PROVE  OverAt(Exit(r, "STOP", StopOf(p)), i') /\ SameTrade(Exit(r, "STOP", StopOf(p)), r)
  <2>1. ~OverAt(r, i')
    <3>1. i' # None
      BY Constants
    <3> QED
      BY <1>4, <3>1 DEF OverAt, IsClosed
  <2>2. OpenUpTo(r, i') /\ i' <= i'
    BY <1>1, <2>1
  <2> HIDE DEF r
  <2> QED
    BY <1>2, <2>2, ExitIs
<1>5. \/ q = Exit(p, "STOP", b.open) \/ q = Exit(p, "STOP", StopOf(p)) \/ q = r
      \/ (~IsClosed(r) /\ q = Exit(r, "STOP", StopOf(p)))
  BY DEF Managed
<1> HIDE DEF q, r
<1> QED
  BY <1>1, <1>3, <1>4, <1>5 DEF SameTrade, q

-----------------------------------------------------------------------------
(***************************************************************************)
(* A signal waits for the next bar only and with no position open; the     *)
(* position entered right after its signal, and both came after the last   *)
(* trade was over; every trade is over, whole, and after the one before.   *)
(***************************************************************************)
AfterTheLast(p) ==
    LET t == trades[Len(trades)]
    IN  trades # <<>> => p.signalBar >= t.exitBar /\ p.entryBar > t.exitBar

PositionIsOpen ==
    position # None =>
        /\ OpenUpTo(position, i)
        /\ position.entryBar = position.signalBar + 1
        /\ AfterTheLast(position)

TradesAreOver ==
    \A k \in 1..Len(trades) :
        /\ trades[k].exitBar \in 1..i
        /\ OverAt(trades[k], trades[k].exitBar)
        /\ trades[k].entryBar = trades[k].signalBar + 1
        /\ k > 1 => /\ trades[k].signalBar >= trades[k - 1].exitBar
                    /\ trades[k].entryBar > trades[k - 1].exitBar

WaitsOneBar == pending # None => pending = i

BacktestInvariant == TypeOK /\ WaitsOneBar /\ PositionIsOpen /\ TradesAreOver

\* The invariant holds before the first bar.
LEMMA BacktestInit == Init => BacktestInvariant
<1> SUFFICES ASSUME Init PROVE BacktestInvariant
  OBVIOUS
<1>1. TypeOK
  <2>1. 1 \in 1..MaxBars /\ StartingCapital \in Int /\ 0 \in 0..1
    BY Constants
  <2>2. trades \in Seq(TradeSet) /\ DOMAIN trades = {}
    BY DEF Init
  <2>3. runner \in [state: {"idle", "active"}, since: 0..i] /\ i = 1
    BY <2>1 DEF Init
  <2> QED
    BY <2>1, <2>2, <2>3 DEF Init, TypeOK
<1> QED
  BY <1>1 DEF Init, BacktestInvariant, WaitsOneBar, PositionIsOpen, TradesAreOver

\* The position a bar starts with: the old one, or one entered at its open.
LEMMA EnteredIs ==
    ASSUME BacktestInvariant, NEW b \in BarSet, i' = i + 1, Entered(b) # None
    PROVE  LET p == Entered(b)
           IN  /\ OpenUpTo(p, i') \/ OpenUpTo(p, i)
               /\ p.entryBar = p.signalBar + 1
               /\ AfterTheLast(p)
               /\ p # position => p.qty \in Nat /\ p.entry \in Int
<1>1. TypeOK /\ WaitsOneBar /\ PositionIsOpen /\ TradesAreOver /\ i \in Nat \ {0} /\ trades \in Seq(TradeSet)
  BY Constants DEF BacktestInvariant, TypeOK
<1>2. CASE position # None \/ pending = None \/ Quantity(b) = 0
  <2>1. Entered(b) = position
    BY <1>2 DEF Entered, Opened
  <2> QED
    BY <1>1, <2>1 DEF PositionIsOpen
<1>3. CASE position = None /\ pending # None /\ Quantity(b) # 0
  <2> DEFINE p == Trade(pending, Quantity(b), EntryPrice(b))
  <2>1. Entered(b) = p
    BY <1>3 DEF Entered, Opened
  <2>2. pending = i /\ pending \in Nat
    BY <1>1, <1>3 DEF WaitsOneBar
  <2>3. Quantity(b) \in Nat /\ Quantity(b) > 0
    <3>1. cash \in Int
      BY <1>1 DEF TypeOK
    <3>2. CASE cash <= 0
      BY <1>3, <3>2 DEF Quantity
    <3>3. CASE ~(cash <= 0)
      <4>1. cash \in Nat /\ cash * PositionPct \in Nat /\ 100 * b.open \in Nat \ {0}
        BY <3>1, <3>3, Constants
      <4>2. (cash * PositionPct) \div (100 * b.open) \in Nat
        BY <4>1, Quotients
      <4>3. Quantity(b) = (cash * PositionPct) \div (100 * b.open)
        BY <3>3 DEF Quantity
      <4>4. Quantity(b) \in Nat
        BY <4>2, <4>3
      <4> QED
        BY <1>3, <4>4
    <3> QED
      BY <3>2, <3>3
  <2>4. EntryPrice(b) \in Int
    BY Constants DEF EntryPrice
  <2>5. N * Quantity(b) * Commission \in Int
    <3>1. N * Quantity(b) \in Int
      BY <2>3, Constants, Products
    <3> QED
      BY <3>1, Constants, Products
  <2>6. <<>> \in Seq(FillSet) /\ Len(<<>>) = 0
    OBVIOUS
  <2>7. p = [signalBar |-> pending, entryBar |-> i + 1, exitBar |-> None, qty |-> Quantity(b),
             entry |-> EntryPrice(b), fills |-> <<>>, fees |-> N * Quantity(b) * Commission, gross |-> 0]
    BY DEF Trade
  <2> DEFINE fees == N * Quantity(b) * Commission
  <2> HIDE DEF p, fees
  <2>8. p = [signalBar |-> pending, entryBar |-> i + 1, exitBar |-> None, qty |-> Quantity(b),
             entry |-> EntryPrice(b), fills |-> <<>>, fees |-> fees, gross |-> 0] /\ fees \in Int
    BY <2>5, <2>7 DEF fees
  <2>9. p \in TradeSet
    BY <1>1, <2>2, <2>3, <2>4, <2>6, <2>8 DEF TradeSet
  <2>10. /\ p.fills = <<>> /\ p.qty = Quantity(b) /\ p.exitBar = None /\ p.entry = EntryPrice(b)
         /\ p.signalBar = i /\ p.entryBar = i + 1 /\ Filled(p) = 0
    BY <2>2, <2>8 DEF Filled
  <2>11. OpenUpTo(p, i)
    BY <2>3, <2>9, <2>10, Constants DEF OpenUpTo, TargetsOnly, InBarOrder
  <2>12. AfterTheLast(p)
    <3> SUFFICES ASSUME trades # <<>> PROVE i >= trades[Len(trades)].exitBar /\ i + 1 > trades[Len(trades)].exitBar
      BY <2>10 DEF AfterTheLast
    <3>1. Len(trades) \in 1..Len(trades)
      BY <1>1
    <3>2. trades[Len(trades)].exitBar \in 1..i
      BY <1>1, <3>1 DEF TradesAreOver
    <3> QED
      BY <1>1, <3>2
  <2> QED
    BY <2>1, <2>3, <2>4, <2>10, <2>11, <2>12
<1> QED
  BY <1>2, <1>3

\* A trade that is over joins those before it.
LEMMA TradeJoins ==
    ASSUME BacktestInvariant, i' \in Nat, i <= i', NEW t, OverAt(t, i'),
           t.entryBar = t.signalBar + 1, AfterTheLast(t), trades' = Append(trades, t)
    PROVE  /\ trades' \in Seq(TradeSet)
           /\ TradesAreOver'
           /\ \A k \in 1..Len(trades') : IsClosed(trades'[k]) /\ trades'[k].qty > 0
<1>1. TradesAreOver /\ trades \in Seq(TradeSet) /\ t \in TradeSet /\ Len(trades) \in Nat /\ i \in Nat \ {0}
  BY Constants DEF BacktestInvariant, TypeOK, OverAt
<1>2. /\ trades' \in Seq(TradeSet) /\ Len(trades') = Len(trades) + 1 /\ trades'[Len(trades) + 1] = t
      /\ \A k \in 1..Len(trades) : trades'[k] = trades[k]
  BY <1>1
<1>3. ASSUME NEW k \in 1..Len(trades')
      PROVE  /\ trades'[k].exitBar \in 1..i'
             /\ OverAt(trades'[k], trades'[k].exitBar)
             /\ trades'[k].entryBar = trades'[k].signalBar + 1
             /\ k > 1 => /\ trades'[k].signalBar >= trades'[k - 1].exitBar
                         /\ trades'[k].entryBar > trades'[k - 1].exitBar
  <2>1. CASE k = Len(trades) + 1
    <3>1. trades'[k] = t
      BY <1>2, <2>1
    <3>2. t.exitBar = i' /\ i' \in 1..i'
      BY <1>1 DEF OverAt
    <3>3. k > 1 => t.signalBar >= trades'[k - 1].exitBar /\ t.entryBar > trades'[k - 1].exitBar
      <4> SUFFICES ASSUME k > 1 PROVE t.signalBar >= trades'[k - 1].exitBar /\ t.entryBar > trades'[k - 1].exitBar
        OBVIOUS
      <4>1. k - 1 = Len(trades) /\ Len(trades) \in 1..Len(trades) /\ trades # <<>>
        BY <1>1, <2>1
      <4> QED
        BY <1>2, <4>1 DEF AfterTheLast
    <3> QED
      BY <3>1, <3>2, <3>3
  <2>2. CASE k # Len(trades) + 1
    <3>1. k \in 1..Len(trades) /\ trades'[k] = trades[k]
      BY <1>1, <1>2, <2>2
    <3>2. trades[k].exitBar \in 1..i'
      BY <1>1, <3>1 DEF TradesAreOver
    <3>3. k > 1 => k - 1 \in 1..Len(trades) /\ trades'[k - 1] = trades[k - 1]
      BY <1>1, <1>2, <3>1
    <3> QED
      BY <1>1, <3>1, <3>2, <3>3 DEF TradesAreOver
  <2> QED
    BY <2>1, <2>2
<1>4. TradesAreOver'
  BY <1>3 DEF TradesAreOver, OverAt, TargetsOnly, InBarOrder, Target
<1>5. \A k \in 1..Len(trades') : IsClosed(trades'[k]) /\ trades'[k].qty > 0
  <2> TAKE k \in 1..Len(trades')
  <2>1. trades'[k].exitBar \in Nat /\ OverAt(trades'[k], trades'[k].exitBar)
    BY <1>3
  <2>2. trades'[k].qty > 0
    BY <2>1 DEF OverAt
  <2> QED
    BY <2>1, <2>2, Constants DEF IsClosed
<1> QED
  BY <1>2, <1>4, <1>5

\* One bar of the loop keeps the invariant.
LEMMA BarStep ==
    ASSUME BacktestInvariant, NEW b \in BarSet, NEW fires \in BOOLEAN, Bar(b, fires)
    PROVE  BacktestInvariant'
<1> DEFINE p == Entered(b)
           waits == Waiting(b)
           q == IF p = None THEN None ELSE Life(p, b)
           gone == q # None /\ IsClosed(q)
<1>1. /\ i' = i + 1 /\ i < MaxBars /\ bar' = b
      /\ cash' = IF p = position THEN cash ELSE cash - p.qty * (p.entry + Commission)
      /\ position' = IF gone THEN None ELSE q
      /\ trades' = IF gone THEN Append(trades, q) ELSE trades
      /\ IF p # None /\ Unseen(p, b)
         THEN UNCHANGED runner /\ pending' = waits
         ELSE /\ runner' = RunnerAfter(fires)
              /\ pending' = IF Signals(fires) /\ position' = None /\ waits = None THEN i + 1 ELSE waits
      /\ policy' = policy /\ done' = done
  BY Zenon DEF Bar
<1>2. TypeOK /\ WaitsOneBar /\ PositionIsOpen /\ TradesAreOver
  BY DEF BacktestInvariant
<1>3. i \in Nat \ {0} /\ i' \in Nat \ {0} /\ i' \in 1..MaxBars /\ i <= i' /\ i' <= i' /\ MaxBars \in Nat
  BY <1>1, <1>2, Constants DEF TypeOK
<1>4. waits = None
  BY <1>2 DEF TypeOK, Waiting
<1>5. p # None => /\ SameTrade(q, p) /\ (OpenUpTo(q, i') \/ OverAt(q, i'))
                  /\ q # None
                  /\ q.entryBar = q.signalBar + 1 /\ AfterTheLast(q)
                  /\ (p # position => p.qty \in Nat /\ p.entry \in Int)
  <2> SUFFICES ASSUME p # None
               PROVE  /\ SameTrade(q, p) /\ (OpenUpTo(q, i') \/ OverAt(q, i'))
                      /\ q # None
                      /\ q.entryBar = q.signalBar + 1 /\ AfterTheLast(q)
                      /\ (p # position => p.qty \in Nat /\ p.entry \in Int)
    OBVIOUS
  <2>1. /\ OpenUpTo(p, i') \/ OpenUpTo(p, i)
        /\ p.entryBar = p.signalBar + 1
        /\ AfterTheLast(p)
        /\ p # position => p.qty \in Nat /\ p.entry \in Int
    BY <1>1, EnteredIs
  <2>2. q = Managed(p, b)
    BY DEF Life
  <2> HIDE DEF p, q
  <2>3. SameTrade(q, p) /\ (OpenUpTo(q, i') \/ OverAt(q, i'))
    BY <1>3, <2>1, <2>2, ManagedIs
  <2>4. q # None
    BY <2>3, Constants DEF OpenUpTo, OverAt
  <2>5. q.entryBar = q.signalBar + 1 /\ AfterTheLast(q)
    BY <2>1, <2>3 DEF SameTrade, AfterTheLast
  <2> QED
    BY <2>1, <2>3, <2>4, <2>5
<1>6. q # None => p # None
  OBVIOUS
<1> HIDE DEF p, q, waits
<1>7. gone => OverAt(q, i')
  BY <1>5, <1>6 DEF OpenUpTo, IsClosed
<1>8. q # None /\ ~gone => OpenUpTo(q, i')
  <2>1. OverAt(q, i') => IsClosed(q)
    BY <1>3, Constants DEF OverAt, IsClosed
  <2> QED
    BY <1>5, <1>6, <2>1
<1>9. /\ trades' \in Seq(TradeSet)
      /\ TradesAreOver'
      /\ \A k \in 1..Len(trades') : IsClosed(trades'[k]) /\ trades'[k].qty > 0
  <2>1. CASE gone
    BY <1>1, <1>3, <1>5, <1>6, <1>7, <2>1, TradeJoins
  <2>2. CASE ~gone
    <3>1. trades' = trades
      BY <1>1, <2>2
    <3>2. \A k \in 1..Len(trades) : trades[k].exitBar \in 1..i => trades[k].exitBar \in 1..i'
      BY <1>1, <1>3
    <3>3. TradesAreOver'
      BY <1>2, <3>1, <3>2 DEF TradesAreOver, OverAt, TargetsOnly, InBarOrder, Target
    <3>4. trades \in Seq(TradeSet) /\ \A k \in 1..Len(trades) : IsClosed(trades[k]) /\ trades[k].qty > 0
      BY <1>2 DEF TypeOK
    <3> QED
      BY <3>1, <3>3, <3>4
  <2> QED
    BY <2>1, <2>2
<1>10. PositionIsOpen'
  <2>1. CASE gone
    BY <1>1, <2>1 DEF PositionIsOpen
  <2>2. CASE ~gone
    <3> SUFFICES ASSUME q # None
                 PROVE  OpenUpTo(q, i') /\ q.entryBar = q.signalBar + 1 /\ AfterTheLast(q)
      BY <1>1, <2>2 DEF PositionIsOpen, OpenUpTo, TargetsOnly, InBarOrder, Filled, Target, AfterTheLast
    <3> QED
      BY <1>5, <1>6, <1>8, <2>2
  <2> QED
    BY <2>1, <2>2
<1>11. pending' = None \/ (pending' = i' /\ position' = None)
  BY <1>1, <1>4
<1>12. TypeOK'
  <2>1. /\ i' \in 1..MaxBars /\ bar' \in BarSet
        /\ policy' \in [intrabar: {"conservative", "optimistic"}, gap: {"fill_at_next_open", "skip"}]
        /\ done' \in BOOLEAN
    BY <1>1, <1>2, <1>3 DEF TypeOK
  <2>2. runner' \in [state: {"idle", "active"}, since: 0..i']
    <3>1. runner \in [state: {"idle", "active"}, since: 0..i'] /\ i + 1 \in 0..i'
      <4>1. runner \in [state: {"idle", "active"}, since: 0..i]
        BY <1>2 DEF TypeOK
      <4>2. \A x \in 0..i : x \in 0..i'
        BY <1>1, <1>3
      <4>3. i + 1 \in 0..i'
        BY <1>1, <1>3
      <4> QED
        BY <4>1, <4>2, <4>3
    <3>2. RunnerAfter(fires) \in [state: {"idle", "active"}, since: 0..i']
      <4>1. \/ RunnerAfter(fires) = [runner EXCEPT !.state = "idle"]
            \/ RunnerAfter(fires) = runner
            \/ RunnerAfter(fires) = [state |-> "active", since |-> i + 1]
        BY Zenon DEF RunnerAfter
      <4> QED
        BY <3>1, <4>1
    <3>3. runner' = runner \/ runner' = RunnerAfter(fires)
      BY <1>1, Zenon
    <3> QED
      BY <3>1, <3>2, <3>3
  <2>3. pending' \in (1..i') \union {None} /\ (pending' # None => position' = None)
    BY <1>3, <1>11
  <2>4. cash' \in Int
    <3>1. CASE p = position
      BY <1>1, <1>2, <3>1 DEF TypeOK
    <3>2. CASE p # position
      <4>1. p # None
        <5>1. Entered(b) = position \/ position = None
          BY DEF Entered, Opened
        <5> QED
          BY <3>2, <5>1 DEF p
      <4>2. p.qty \in Int /\ p.entry + Commission \in Int /\ cash \in Int
        BY <1>2, <1>5, <3>2, <4>1, Constants DEF TypeOK
      <4>3. p.qty * (p.entry + Commission) \in Int
        BY <4>2, Products
      <4> QED
        BY <1>1, <3>2, <4>2, <4>3
    <3> QED
      BY <3>1, <3>2
  <2>5. position' \in TradeSet \union {None}
        /\ (position' # None => ~IsClosed(position') /\ Filled(position') < N /\ position'.qty > 0)
    <3>1. position' # None => position' = q /\ ~gone
      BY <1>1
    <3> QED
      BY <1>8, <3>1 DEF OpenUpTo, IsClosed
  <2>6. \A t \in {trades'[k] : k \in DOMAIN trades'} : IsClosed(t) /\ t.qty > 0
    <3>1. DOMAIN trades' = 1..Len(trades')
      BY <1>9
    <3> QED
      BY <1>9, <3>1
  <2>7. (\A t \in {trades[k] : k \in DOMAIN trades} : IsClosed(t) /\ t.qty > 0)'
    BY <2>6 DEF IsClosed
  <2>8. (position # None => ~IsClosed(position) /\ Filled(position) < N /\ position.qty > 0)'
    BY <2>5 DEF IsClosed, Filled
  <2> QED
    BY <1>9, <2>1, <2>2, <2>3, <2>4, <2>5, <2>7, <2>8 DEF TypeOK
<1>13. WaitsOneBar'
  BY <1>11 DEF WaitsOneBar
<1> QED
  BY <1>9, <1>10, <1>12, <1>13 DEF BacktestInvariant

\* The end of the test keeps the invariant.
LEMMA EndStep ==
    ASSUME BacktestInvariant, End
    PROVE  BacktestInvariant'
<1> DEFINE q == Exit(position, "END_OF_TEST", bar.close)
<1>1. /\ i' = i /\ done' = TRUE /\ position' = None
      /\ trades' = IF position = None THEN trades ELSE Append(trades, q)
      /\ UNCHANGED <<policy, bar, runner, pending, cash>>
  BY Zenon DEF End
<1>2. TypeOK /\ WaitsOneBar /\ PositionIsOpen /\ TradesAreOver /\ i \in Nat
  BY Constants DEF BacktestInvariant, TypeOK
<1>3. /\ trades' \in Seq(TradeSet)
      /\ TradesAreOver'
      /\ \A k \in 1..Len(trades') : IsClosed(trades'[k]) /\ trades'[k].qty > 0
  <2>1. CASE position # None
    <3>1. OpenUpTo(position, i) /\ position.entryBar = position.signalBar + 1 /\ AfterTheLast(position)
      BY <1>2, <2>1 DEF PositionIsOpen
    <3>2. bar.close \in Int
      BY <1>2, Constants DEF TypeOK
    <3>3. OverAt(q, i') /\ SameTrade(q, position)
      BY <1>1, <1>2, <3>1, <3>2, ExitIs
    <3> HIDE DEF q
    <3>4. q.entryBar = q.signalBar + 1 /\ AfterTheLast(q)
      BY <3>1, <3>3 DEF SameTrade, AfterTheLast
    <3> QED
      BY <1>1, <1>2, <2>1, <3>3, <3>4, TradeJoins
  <2>2. CASE position = None
    <3>1. TradesAreOver'
      BY <1>1, <1>2, <2>2 DEF TradesAreOver, OverAt, TargetsOnly, InBarOrder, Target
    <3>2. trades \in Seq(TradeSet) /\ \A k \in 1..Len(trades) : IsClosed(trades[k]) /\ trades[k].qty > 0
      BY <1>2 DEF TypeOK
    <3> QED
      BY <1>1, <2>2, <3>1, <3>2
  <2> QED
    BY <2>1, <2>2
<1>4. (\A t \in {trades[k] : k \in DOMAIN trades} : IsClosed(t) /\ t.qty > 0)'
  <2>1. DOMAIN trades' = 1..Len(trades')
    BY <1>3
  <2>2. \A t \in {trades'[k] : k \in DOMAIN trades'} : IsClosed(t) /\ t.qty > 0
    BY <1>3, <2>1
  <2> QED
    BY <2>2 DEF IsClosed
<1>5. TypeOK'
  BY <1>1, <1>2, <1>3, <1>4 DEF TypeOK
<1> QED
  BY <1>1, <1>2, <1>3, <1>5 DEF BacktestInvariant, WaitsOneBar, PositionIsOpen

\* Every step of the backtest keeps the invariant.
LEMMA BacktestStep == BacktestInvariant /\ [Next]_vars => BacktestInvariant'
<1> SUFFICES ASSUME BacktestInvariant, [Next]_vars PROVE BacktestInvariant'
  OBVIOUS
<1>1. CASE UNCHANGED vars
  BY <1>1 DEF vars, BacktestInvariant, TypeOK, IsClosed, Filled, WaitsOneBar, PositionIsOpen, TradesAreOver,
              AfterTheLast, OpenUpTo, OverAt, TargetsOnly, InBarOrder, Target
<1> QED
  BY <1>1, BarStep, EndStep DEF Next

\* The invariant holds of every backtest.
LEMMA BacktestHolds == Spec => []BacktestInvariant
<1> QED
  BY BacktestInit, BacktestStep, PTL DEF Spec

\* A backtest's state keeps its types: the position that is open is not yet
\* sold out, and every trade in the list is over and was of something.
THEOREM BacktestTyping == Spec => []TypeOK
<1>1. BacktestInvariant => TypeOK
  BY DEF BacktestInvariant
<1> QED
  BY <1>1, BacktestHolds, PTL

\* A trade enters one bar after its signal, and after the trade before it was
\* over, for any candles, policy and length of the series.
THEOREM DecidedBefore == Spec => []NoLookahead
<1>1. BacktestInvariant => NoLookahead
  <2>1. trades \in Seq(TradeSet) => DOMAIN trades = 1..Len(trades)
    OBVIOUS
  <2> QED
    BY <2>1 DEF BacktestInvariant, TypeOK, TradesAreOver, NoLookahead
<1> QED
  BY <1>1, BacktestHolds, PTL

\* The fills of a trade are the whole position and no more, targets first in
\* the order of the bars and one exit last, for any number of targets.
THEOREM SoldWhole == Spec => []WholePosition
<1>1. ASSUME BacktestInvariant PROVE WholePosition
  <2> SUFFICES ASSUME NEW k \in DOMAIN trades
               PROVE  LET t == trades[k]
                          f == t.fills
                          last == Len(f)
                      IN  /\ last \in 1..N
                          /\ \A j \in 1..(last - 1) : /\ f[j].reason = "TP" /\ f[j].parts = 1
                                                      /\ f[j].price = Target(t, j)
                                                      /\ f[j].bar <= f[j + 1].bar
                          /\ f[last].parts = N - (last - 1)
    BY DEF WholePosition
  <2>1. k \in 1..Len(trades)
    BY <1>1 DEF BacktestInvariant, TypeOK
  <2>2. OverAt(trades[k], trades[k].exitBar)
    BY <1>1, <2>1 DEF BacktestInvariant, TradesAreOver
  <2> QED
    BY <2>2 DEF OverAt, TargetsOnly, InBarOrder
<1> QED
  BY <1>1, BacktestHolds, PTL

\* In a conservative run a bar at or below the stop closes the position by the
\* stop and fills no target, never above the open when gaps fill there.
THEOREM WorstCase == Spec => StopsAreWorst
<1> DEFINE Worst ==
        position # None /\ i' = i + 1
        /\ bar'.low <= StopOf(position) /\ policy.intrabar = "conservative"
        => /\ position' = None
           /\ LET t == trades'[Len(trades')]
                  f == t.fills[Len(t.fills)]
              IN  /\ f.reason = "STOP" /\ Len(t.fills) = Filled(position) + 1
                  /\ policy.gap = "fill_at_next_open" => f.price <= bar'.open
<1>1. ASSUME BacktestInvariant, [Next]_vars PROVE [Worst]_vars
  <2> SUFFICES ASSUME position # None, i' = i + 1, Next,
                      bar'.low <= StopOf(position), policy.intrabar = "conservative"
               PROVE /\ position' = None
                     /\ LET t == trades'[Len(trades')]
                            f == t.fills[Len(t.fills)]
                        IN  /\ f.reason = "STOP" /\ Len(t.fills) = Filled(position) + 1
                            /\ policy.gap = "fill_at_next_open" => f.price <= bar'.open
    BY <1>1, Zenon
  <2>1. i \in Nat /\ trades \in Seq(TradeSet) /\ OpenUpTo(position, i) /\ position \in TradeSet
    BY <1>1, Constants DEF BacktestInvariant, TypeOK, PositionIsOpen, OpenUpTo
  <2>2. ~End
    BY <2>1 DEF End
  <2>3. PICK b \in BarSet, fires \in BOOLEAN : Bar(b, fires)
    BY <2>2, Zenon DEF Next
  <2> DEFINE price == IF Gapped(position, b) THEN b.open ELSE StopOf(position)
             q == Exit(position, "STOP", price)
  <2>4. Entered(b) = position
    BY DEF Entered, Opened
  <2>5. bar' = b
    BY <2>3, Zenon DEF Bar
  <2>6. Life(position, b) = q
    BY <2>5 DEF Life, Managed, Stopped
  <2>7. b.open \in Int /\ StopOf(position) \in Int /\ price \in Int /\ Slippage \in Nat
    BY <2>1, Constants, PricesAre
  <2>8. /\ OverAt(q, i') /\ Len(q.fills) = Filled(position) + 1
        /\ q.fills[Len(q.fills)].reason = "STOP" /\ q.fills[Len(q.fills)].price = price - Slippage
    <3> HIDE DEF price
    <3> QED
      BY <2>1, <2>7, ExitIs
  <2>9. policy.gap = "fill_at_next_open" => price - Slippage <= b.open
    <3>1. policy.gap = "fill_at_next_open" => price <= b.open
      BY <2>7 DEF Gapped
    <3> HIDE DEF price
    <3> QED
      BY <2>7, <3>1
  <2> HIDE DEF q, price
  <2>10. q # None /\ IsClosed(q) /\ q \in TradeSet
    BY <2>1, <2>8, Constants DEF OverAt, IsClosed
  <2>11. position' = None /\ trades' = Append(trades, q)
    BY <2>3, <2>4, <2>6, <2>10 DEF Bar
  <2>12. trades'[Len(trades')] = q
    BY <2>1, <2>10, <2>11
  <2> QED
    BY <2>5, <2>8, <2>9, <2>11, <2>12
<1>2. BacktestInvariant /\ [Next]_vars => [Worst]_vars
  BY <1>1
<1>3. Spec => [][Worst]_vars
  <2> HIDE DEF Worst
  <2> QED
    BY <1>2, BacktestHolds, PTL DEF Spec
<1> QED
  BY <1>3 DEF StopsAreWorst
=============================================================================
