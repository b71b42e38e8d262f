---------------------------- MODULE PaperTrading ----------------------------
(***************************************************************************)
(* The life of a paper position: PaperBroker.place_bracket opens it, every *)
(* bar of its symbol may close a fraction of it at the next target or all  *)
(* that is left at the stop, and the exit events are booked: a trade for a *)
(* position that closed (execution.record_closed_trade), then a row of the *)
(* positions table for every event (api.on_position_close).                *)
(*                                                                         *)
(* The event loop handles a bar without an await, but the process may die  *)
(* between any two of its writes.                                          *)
(*                                                                         *)
(* Prices are levels: the number of a target, or StopLevel.  What a bar    *)
(* does to a position is an input, except that a position with no target   *)
(* left can only be stopped.  All positions are in one symbol.             *)
(***************************************************************************)
EXTENDS RiskGate, Integers, Sequences, FiniteSets

CONSTANTS
    Positions,  \* ids of the positions, each opened once
    Bodies,     \* [qty, tps]: the quantity and the number of targets
    None,       \* no row
    MaxBoots    \* bound of the model: times the process is started

ASSUME PaperTradingAssumption ==
    /\ Bodies \subseteq [qty: Nat \ {0}, tps: Nat \ {0}]
    /\ MaxBoots \in Nat

VARIABLES
    position,   \* PaperBroker._positions
    exits,      \* history: every exit of a position, in order
    toBook,     \* events of this bar that closed a position, not yet booked
    toWrite,    \* events of this bar not yet written
    trades,     \* the trades table, by position
    row,        \* the positions table: one row by position
    closed,     \* api.closed_positions, by position
    boots       \* times the process was started

vars == <<riskVars, position, exits, toBook, toWrite, trades, row, closed, boots>>

StopLevel == 0
NoPosition == [status |-> "none", qty |-> 0, tps |-> 0, filled |-> 0, remaining |-> 0]

Open(p) == position[p].status = "open"
Idle == toBook = {} /\ toWrite = {}

ExitType == [level: Nat, qty: Nat]
EventType == [pos: Positions, level: Nat, qty: Nat, final: BOOLEAN]

TypeOK ==
    /\ RiskTypeOK
    /\ \A p \in Positions :
        /\ position[p].status \in {"none", "open", "closed", "lost"}
        /\ Open(p) => position[p].remaining \in Nat \ {0}
        /\ position[p].filled <= position[p].tps
        /\ exits[p] \in Seq(ExitType)
        /\ trades[p] \in Seq(Seq(ExitType))
        /\ closed[p] \in Seq(EventType)
        /\ row[p] \in EventType \union {None}
    /\ toWrite \subseteq EventType
    /\ toBook \subseteq EventType
    /\ boots \in Nat

Init ==
    /\ RiskInit
    /\ position = [p \in Positions |-> NoPosition]
    /\ exits = [p \in Positions |-> <<>>]
    /\ toBook = {}
    /\ toWrite = {}
    /\ trades = [p \in Positions |-> <<>>]
    /\ row = [p \in Positions |-> None]
    /\ closed = [p \in Positions |-> <<>>]
    /\ boots = 1

(***************************************************************************)
(* PaperBroker.place_bracket, in a worker, at any time.                    *)
(***************************************************************************)
PlaceBracket(p, body) ==
    /\ position[p] = NoPosition
    /\ position' = [position EXCEPT ![p] =
            [status |-> "open", qty |-> body.qty, tps |-> body.tps,
             filled |-> 0, remaining |-> body.qty]]
    /\ UNCHANGED <<riskVars, exits, toBook, toWrite, trades, row, closed, boots>>

(***************************************************************************)
(* PaperBroker.on_bar and _exit_fraction.  The fraction of a level is      *)
(* Python's round(qty / tp_count), which rounds a half to the even         *)
(* neighbour, and at least 1.                                              *)
(***************************************************************************)
RoundHalfEven(a, b) ==
    LET q == a \div b
        twice == 2 * (a % b)
    IN  IF twice < b \/ (twice = b /\ q % 2 = 0) THEN q ELSE q + 1

Fraction(q) ==
    LET rounded == RoundHalfEven(q.qty, q.tps) IN IF rounded > 1 THEN rounded ELSE 1

\* Mutant: a stopped position gives up one fraction only.
ExitOneFraction(p, outcome) ==
    [pos |-> p, level |-> IF outcome = "stop" THEN StopLevel ELSE position[p].filled + 1,
     qty |-> Fraction(position[p]),
     final |-> outcome = "stop" \/ Fraction(position[p]) >= position[p].remaining]

\* The event an outcome makes of an open position.
Exit(p, outcome) ==
    LET level == IF outcome = "stop" THEN StopLevel ELSE position[p].filled + 1
        qty == IF outcome = "stop" THEN position[p].remaining ELSE Fraction(position[p])
    IN  [pos |-> p, level |-> level, qty |-> qty, final |-> qty >= position[p].remaining]

After(q, e) ==
    [q EXCEPT !.status = IF e.final THEN "closed" ELSE "open",
              !.remaining = @ - e.qty,
              !.filled = IF e.level = StopLevel THEN @ ELSE @ + 1]

\* Mutant: every event is booked, not only the closing one.
AllOf(made) == made

\* record_closed_trade does nothing with events that closed no position.
Closing(made) == {e \in made : e.final}

\* The bar stops the positions of stopped and fills a target of those of hit.
OnBar(stopped, hit) ==
    LET made == {Exit(p, "stop") : p \in stopped} \union {Exit(p, "target") : p \in hit}
        Of(p) == CHOOSE e \in made : e.pos = p
    IN
    /\ Idle
    /\ stopped \intersect hit = {}
    /\ stopped \union hit # {}
    /\ \A p \in stopped \union hit : Open(p)
    /\ \A p \in hit : position[p].filled < position[p].tps
    /\ position' = [p \in Positions |->
            IF p \in stopped \union hit THEN After(position[p], Of(p)) ELSE position[p]]
    /\ exits' = [p \in Positions |->
            IF p \in stopped \union hit
            THEN Append(exits[p], [level |-> Of(p).level, qty |-> Of(p).qty])
            ELSE exits[p]]
    /\ toBook' = Closing(made)
    /\ toWrite' = made
    /\ UNCHANGED <<riskVars, trades, row, closed, boots>>

(***************************************************************************)
(* _book_closed_trades: each position that closed in this bar is booked    *)
(* with its events of this bar, which is the closing event alone, and      *)
(* CompletedTrade.close takes all of the quantity for the closing fill.    *)
(* Whether the trade won is an input: it depends on the prices.            *)
(***************************************************************************)
BookTrade(e, win) ==
    /\ e \in toBook
    /\ toBook' = toBook \ {e}
    /\ trades' = [trades EXCEPT ![e.pos] =
            Append(@, <<[level |-> e.level, qty |-> position[e.pos].qty]>>)]
    /\ RecordTradeResult(win)
    /\ UNCHANGED <<position, exits, toWrite, row, closed, boots>>

(***************************************************************************)
(* on_position_close, once every trade of the bar is booked.  The table    *)
(* keeps one row for a position, so a later exit replaces an earlier one.  *)
(***************************************************************************)
\* Mutant: the rows do not wait for the trades.
WriteEventEarly(e) ==
    /\ e \in toWrite
    /\ toWrite' = toWrite \ {e}
    /\ closed' = [closed EXCEPT ![e.pos] = Append(@, e)]
    /\ row' = [row EXCEPT ![e.pos] = e]
    /\ UNCHANGED <<riskVars, position, exits, toBook, trades, boots>>

WriteEvent(e) ==
    /\ toBook = {}
    /\ e \in toWrite
    /\ toWrite' = toWrite \ {e}
    /\ closed' = [closed EXCEPT ![e.pos] = Append(@, e)]
    /\ row' = [row EXCEPT ![e.pos] = e]
    /\ UNCHANGED <<riskVars, position, exits, toBook, trades, boots>>

(***************************************************************************)
(* A new process: PaperBroker has no positions, the trades and one event   *)
(* for each position that ever had one are read back.                      *)
(***************************************************************************)
Restart ==
    /\ boots < MaxBoots
    /\ boots' = boots + 1
    /\ RiskReset
    /\ position' = [p \in Positions |->
            IF position[p] = NoPosition THEN NoPosition ELSE [position[p] EXCEPT !.status = "lost"]]
    /\ toBook' = {}
    /\ toWrite' = {}
    /\ closed' = [p \in Positions |-> IF row[p] = None THEN <<>> ELSE <<row[p]>>]
    /\ UNCHANGED <<exits, trades, row>>

OperatorReset ==
    /\ ResetBreaker
    /\ UNCHANGED <<position, exits, toBook, toWrite, trades, row, closed, boots>>

Next ==
    \/ \E p \in Positions, body \in Bodies : PlaceBracket(p, body)
    \/ \E stopped, hit \in SUBSET Positions : OnBar(stopped, hit)
    \/ \E e \in toBook, win \in BOOLEAN : BookTrade(e, win)
    \/ \E e \in toWrite : WriteEvent(e)
    \/ Restart
    \/ OperatorReset

Spec == Init /\ [][Next]_vars

-----------------------------------------------------------------------------
(***************************************************************************)
(* "one position = one trade" (docs/EXECUTION.md:5): however many exits it *)
(* takes and wherever the process dies, no position is booked twice, and   *)
(* one that has closed is booked when its bar has been handled             *)
(* (paper._book_closed_trades, execution.record_closed_trade).             *)
(***************************************************************************)
OneTradePerPosition ==
    \A p \in Positions :
        /\ Len(trades[p]) <= 1
        /\ Idle /\ position[p].status = "closed" => Len(trades[p]) = 1

(***************************************************************************)
(* A position that closed gave up all of its quantity, and rounding the    *)
(* fractions made it give up too much by less than one fraction; a stop    *)
(* gives up exactly what was left (paper.on_bar, _exit_fraction).          *)
(***************************************************************************)
ExitsCoverPosition ==
    \A p \in Positions : position[p].status = "closed" =>
        /\ position[p].remaining <= 0
        /\ position[p].remaining > -Fraction(position[p])
        /\ exits[p][Len(exits[p])].level = StopLevel => position[p].remaining = 0

(***************************************************************************)
(* What rounding leaves open when the last target has been filled, and     *)
(* only the stop can still close, is at most half a unit for each target   *)
(* (paper.on_bar).                                                         *)
(***************************************************************************)
RunnerIsSmall ==
    \A p \in Positions :
        Open(p) /\ position[p].filled = position[p].tps
            => 2 * position[p].remaining <= position[p].tps

(***************************************************************************)
(* A position takes its targets in order and each of them once, and has no *)
(* exit after its stop (paper.on_bar).                                     *)
(***************************************************************************)
LadderOrder ==
    \A p \in Positions : \A i \in 1..Len(exits[p]) :
        \/ exits[p][i].level = i
        \/ exits[p][i].level = StopLevel /\ i = Len(exits[p])

(***************************************************************************)
(* A position the positions table shows as closed has its trade in the     *)
(* trades table, wherever the process died (paper.on_bar books before      *)
(* feed.ingest_bar reports the exits).                                     *)
(***************************************************************************)
RowsImplyTrade ==
    \A p \in Positions : row[p] # None /\ row[p].final => Len(trades[p]) = 1

(***************************************************************************)
(* The circuit breaker counts positions, not exits: the streak is no       *)
(* longer than the positions booked (risk.record_trade_result).            *)
(***************************************************************************)
BreakerCountsPositions ==
    consecutiveLosses <= Cardinality({p \in Positions : trades[p] # <<>>})

(***************************************************************************)
(* "record_closed_trade folds one position's exit events (TP1/TP2/TP3      *)
(* partial fills + the final close) into one CompletedTrade"               *)
(* (docs/EXECUTION.md:38): the closing fills of the trade are the exits of *)
(* the position.                                                           *)
(***************************************************************************)
Levels(s) == [i \in 1..Len(s) |-> s[i].level]

TradeFoldsExits ==
    \A p \in Positions : \A i \in 1..Len(trades[p]) :
        Levels(trades[p][i]) = Levels(exits[p])

(***************************************************************************)
(* "restore the closed-position ledger for analytics" (api.py:346): a      *)
(* restart finds the exits that were reported, all of them (api._startup   *)
(* reading the positions table that api.on_position_close writes).         *)
(***************************************************************************)
ClosedLedgerRestored == [][boots' # boots => closed' = closed]_vars

=============================================================================
