--------------------------- MODULE BracketOrders ----------------------------
(***************************************************************************)
(* A live order through the adapters of the real brokers: place_bracket    *)
(* one call of the broker at a time, what place_order makes of its result, *)
(* the exits that trade at the exchange later, and reconciliation, which   *)
(* decides from the adapter's view whether the next live order may go.     *)
(* Reconciliation runs in threads of its own, without a lock: orders, and  *)
(* other passes, come between its question to the broker and the gate.     *)
(*                                                                         *)
(* OrderExecution treats place_bracket as one step that is taken or not;   *)
(* here a bracket is an entry and two exits, and the broker can stop       *)
(* answering between any two of them.                                      *)
(***************************************************************************)
EXTENDS Naturals, Sequences, FiniteSets

CONSTANTS
    Requests,   \* live orders, each sent once, for a symbol of its own
    Brokers,    \* a subset of {"kite", "binance", "openalgo"}
    None,       \* no id, no broker, no answer
    Passes      \* threads that may be in execution.reconcile at once

Legs == {"entry", "tp", "sl"}
Exits == {"tp", "sl"}
\* The ids an order can be recorded under. The id of a request's own is the
\* broker's, or that of its signal when the broker's is null; "?" stands in for
\* an answer without any.
Ids == Requests \union {"?"}

ASSUME BracketAssumption ==
    /\ Brokers \subseteq {"kite", "binance", "openalgo"}
    /\ None \notin Ids \union Brokers \union {"paper", "200", "403", "500", "502"}

VARIABLES
    order,      \* each request: its broker, calls left, answers so far, its id
    taken,      \* legs the exchange has taken for the request
    resting,    \* exits waiting at the exchange
    position,   \* what the exchange holds because of the request
    ledger,     \* execution._ledger and the orders table: the status of each id
    gate,       \* risk._recon_ok
    pass        \* each reconciliation pass: its broker and what it has found;
                \* history: orders whose entry was taken since it asked

vars == <<order, taken, resting, position, ledger, gate, pass>>

Fresh == [at |-> "new", broker |-> None, todo |-> <<>>, good |-> {}, code |-> None,
          gtt |-> FALSE, id |-> None]
NoPass == [at |-> "idle", broker |-> None, answered |-> TRUE, clear |-> TRUE, since |-> {}]

Stages == {"new", "placing", "returned", "recorded", "marked", "ended"}
Codes == {"200", "403", "500", "502"}
Positions == {"none", "held", "closed", "reversed"}
Rows == {"none", "PENDING", "SUBMITTED", "UNKNOWN"}
PassType == [at: {"idle", "asking", "listing", "opening", "closing"},
             broker: Brokers \union {"paper", None},
             answered: BOOLEAN, clear: BOOLEAN, since: SUBSET Requests]

TypeOK ==
    /\ \A r \in Requests :
        /\ order[r].at \in Stages
        /\ order[r].broker \in Brokers \union {None}
        /\ order[r].todo \in Seq(SUBSET Legs)
        /\ order[r].good \subseteq Legs
        /\ order[r].code \in Codes \union {None}
        /\ order[r].gtt \in BOOLEAN
        /\ order[r].id \in Ids \union {None}
    /\ taken \in [Requests -> SUBSET Legs]
    /\ resting \in [Requests -> SUBSET Exits]
    /\ \A r \in Requests : resting[r] \subseteq taken[r]
    /\ \A r \in Requests : taken[r] # {} => "entry" \in taken[r]
    /\ position \in [Requests -> Positions]
    /\ \A r \in Requests : position[r] # "none" => "entry" \in taken[r]
    /\ ledger \in [Ids -> Rows]
    /\ gate \in BOOLEAN
    /\ pass \in [Passes -> PassType]

Init ==
    /\ order = [r \in Requests |-> Fresh]
    /\ taken = [r \in Requests |-> {}]
    /\ resting = [r \in Requests |-> {}]
    /\ position = [r \in Requests |-> "none"]
    /\ ledger = [i \in Ids |-> "none"]
    /\ gate = TRUE
    /\ pass = [p \in Passes |-> NoPass]

-----------------------------------------------------------------------------
\* The calls each adapter makes for a bracket: Kite sends one order of three
\* legs, the others send the legs one after the other.
Calls(b) == IF b = "kite" THEN <<Legs>> ELSE <<{"entry"}, {"tp"}, {"sl"}>>

Request(r, o) == order' = [order EXCEPT ![r] = o]

\* place_order gives the event loop up for the worker only.
LoopFree == \A r \in Requests : order[r].at \notin {"recorded", "marked"}

\* place_order up to the worker. The other rules of the checklist are those of
\* RiskGate: any of them may refuse, and an error of get_positions that is no
\* BrokerError ends the request too. Binance raises no other.
Place(r, b) ==
    /\ LoopFree
    /\ order[r].at = "new"
    /\ \/ /\ gate
          /\ Request(r, [Fresh EXCEPT !.at = "placing", !.broker = b, !.todo = Calls(b)])
       \/ Request(r, [Fresh EXCEPT !.at = "ended", !.broker = b, !.code = "403"])
       \/ /\ gate
          /\ b # "binance"
          /\ Request(r, [Fresh EXCEPT !.at = "ended", !.broker = b, !.code = "500"])
    /\ UNCHANGED <<taken, resting, position, ledger, gate, pass>>

\* The exchange takes the legs of a call: an entry is a market order, an exit rests.
Takes(r, legs) ==
    /\ taken' = [taken EXCEPT ![r] = @ \union legs]
    /\ resting' = [resting EXCEPT ![r] = @ \union (legs \intersect Exits)]
    /\ position' = [position EXCEPT ![r] = IF "entry" \in legs THEN "held" ELSE @]
    /\ pass' = [p \in Passes |->
                    IF "entry" \in legs /\ pass[p].at \in {"listing", "opening"}
                    THEN [pass[p] EXCEPT !.since = @ \union {r}] ELSE pass[p]]

Untaken == UNCHANGED <<taken, resting, position, pass>>

Fails(r, code) == Request(r, [order[r] EXCEPT !.at = "ended", !.code = code])

\* The answer says the legs were taken.
Accepted(r) ==
    LET o == order[r]
        good == o.good \union Head(o.todo)
        rest == Tail(o.todo)
    IN  Request(r, [o EXCEPT !.good = good, !.todo = rest,
                    !.at = IF rest = <<>> THEN "returned" ELSE "placing",
                    !.gtt = o.broker = "openalgo" /\ Exits \subseteq good])

\* Mutant: the pair counts as attached once the take-profit is.
AcceptedByFirst(r) ==
    LET o == order[r]
        good == o.good \union Head(o.todo)
        rest == Tail(o.todo)
    IN  Request(r, [o EXCEPT !.good = good, !.todo = rest,
                    !.at = IF rest = <<>> THEN "returned" ELSE "placing",
                    !.gtt = o.broker = "openalgo" /\ Exits \intersect good # {}])

Attached(r) == Accepted(r)

\* The broker answers that it refuses. Kite and Binance raise, whichever leg it
\* is. OpenAlgo's answer is read like any other: after a refused entry no exit
\* is tried, after a refused exit the next one is, and the result is returned.
Refused(r) ==
    LET o == order[r]
    IN  IF o.broker # "openalgo" THEN Fails(r, "502")
        ELSE IF o.good = {} \/ Len(o.todo) = 1
        THEN Request(r, [o EXCEPT !.at = "returned", !.todo = <<>>])
        ELSE Request(r, [o EXCEPT !.todo = Tail(@)])

\* Mutant: a refused exit is passed over whatever the broker, as OpenAlgo's is.
RefusedPassedOver(r) ==
    LET o == order[r]
    IN  IF o.good = {} /\ o.broker # "openalgo" THEN Fails(r, "502")
        ELSE IF o.good = {} \/ Len(o.todo) = 1
        THEN Request(r, [o EXCEPT !.at = "returned", !.todo = <<>>])
        ELSE Request(r, [o EXCEPT !.todo = Tail(@)])

Answer(r) == Refused(r)

\* No usable answer. An HTTP error page is a BrokerError to OpenAlgo: it ends
\* an entry, and ends the exits with what they had. A timeout or a dead
\* connection is none: it ends the request whatever the legs. Kite's own
\* errors become a BrokerError and any other passes; Binance turns all into one.
Unanswered(r) ==
    LET o == order[r]
    IN  \/ /\ o.broker = "openalgo"
           /\ o.good # {}
           /\ Request(r, [o EXCEPT !.at = "returned", !.todo = <<>>])
        \/ Fails(r, "502")  /\ (o.broker = "openalgo" => o.good = {})
        \/ Fails(r, "500")  /\ o.broker # "binance"

\* One call of place_bracket. The answer to a taken order may be lost.
Call(r) ==
    /\ order[r].at = "placing"
    /\ \/ Takes(r, Head(order[r].todo)) /\ Attached(r)
       \/ Takes(r, Head(order[r].todo)) /\ Unanswered(r)
       \/ Untaken /\ Answer(r)
       \/ Untaken /\ Unanswered(r)
    /\ UNCHANGED <<ledger, gate>>

\* result.get("orderId"): Kite answers with an id or raises; OpenAlgo and
\* Binance put "?" where the answer has none.
OrderIds(r) == IF order[r].broker = "kite" THEN {r} ELSE {r, "?"}

Reading == {p \in Passes : pass[p].at \in {"asking", "listing"}}

\* record_order keeps a row that is there. A new one makes every pass raise
\* that is walking the ledger, before the broker's answer or after it.
Record(r, id) ==
    /\ LoopFree
    /\ order[r].at = "returned"
    /\ id \in OrderIds(r)
    /\ Request(r, [order[r] EXCEPT !.at = "recorded", !.id = id])
    /\ IF ledger[id] = "none"
       THEN /\ ledger' = [ledger EXCEPT ![id] = "PENDING"]
            /\ \E raising \in SUBSET Reading :
                pass' = [p \in Passes |-> IF p \in raising THEN NoPass ELSE pass[p]]
       ELSE UNCHANGED <<ledger, pass>>
    /\ UNCHANGED <<taken, resting, position, gate>>

\* Mutant: an order that is SUBMITTED may be submitted again.
MayResubmit(status) == status \in {"PENDING", "SUBMITTED"}

\* transition: only a PENDING order may become SUBMITTED.
MaySubmit(status) == status = "PENDING"

\* mark, which raises when the transition is illegal.
Mark(r) ==
    /\ order[r].at = "recorded"
    /\ LET id == order[r].id
       IN  IF MaySubmit(ledger[id])
           THEN /\ ledger' = [ledger EXCEPT ![id] = "SUBMITTED"]
                /\ Request(r, [order[r] EXCEPT !.at = "marked"])
           ELSE Fails(r, "500") /\ UNCHANGED ledger
    /\ UNCHANGED <<taken, resting, position, gate, pass>>

\* The signal, the audit line and the answer.
Finish(r) ==
    /\ order[r].at = "marked"
    /\ Fails(r, "200")
    /\ UNCHANGED <<taken, resting, position, ledger, gate, pass>>

-----------------------------------------------------------------------------
\* An exit trades at the exchange. Kite takes the other one back; elsewhere it
\* stays, and trades again if the price comes by: a position the other way.
ExitTrades(r, leg) ==
    /\ leg \in resting[r]
    /\ position[r] \in {"held", "closed"}
    /\ position' = [position EXCEPT ![r] = IF @ = "held" THEN "closed" ELSE "reversed"]
    /\ resting' = [resting EXCEPT ![r] = IF order[r].broker = "kite" THEN {} ELSE @ \ {leg}]
    /\ UNCHANGED <<order, taken, ledger, gate, pass>>

\* get_positions: net positions, except that Binance lists the open orders.
\* An entry that filled after the worker gave up is there all the same.
Seen(b) ==
    LET mine == {r \in Requests : order[r].broker = b}
    IN  IF b = "binance" THEN {r \in mine : resting[r] # {}}
        ELSE {r \in mine : position[r] \in {"held", "reversed"}}

\* reconcile first makes SUBMITTED orders past the timeout UNKNOWN. Here it does
\* so in one step: OrderExecution takes them one by one.
StartPass(p, b, late) ==
    /\ pass[p].at = "idle"
    /\ \A i \in late : ledger[i] = "SUBMITTED"
    /\ ledger' = [i \in Ids |-> IF i \in late THEN "UNKNOWN" ELSE ledger[i]]
    /\ pass' = [pass EXCEPT ![p] = [NoPass EXCEPT !.at = "asking", !.broker = b]]
    /\ UNCHANGED <<order, taken, resting, position, gate>>

\* Mutant: a position counts as tracked when an order of its symbol was sent.
UntrackedBySymbol(b) == {r \in Seen(b) : ledger[r] = "none"}

\* A position is named by its symbol, and on Binance by an exit's order: neither
\* is an id of the ledger, and no order of a real broker is ever FILLED.
Untracked(b) == Seen(b)

\* get_positions answers, or raises, or is answered with an error, which OpenAlgo
\* turns into an empty list of positions. The paper broker always answers.
Ask(p) ==
    /\ pass[p].at = "asking"
    /\ LET b == pass[p].broker
           Found(answered, clear) ==
               pass' = [pass EXCEPT ![p] = [@ EXCEPT !.at = "listing", !.answered = answered,
                                                     !.clear = clear]]
       IN  \/ Found(TRUE, Untracked(b) = {})
           \/ b # "paper" /\ Found(FALSE, FALSE)
           \/ b = "openalgo" /\ Found(FALSE, TRUE)
    /\ UNCHANGED <<order, taken, resting, position, ledger, gate>>

\* The UNKNOWN orders are listed too, whichever broker they went to.
ListUnknown(p) ==
    /\ pass[p].at = "listing"
    /\ pass' = [pass EXCEPT ![p] =
            IF @.clear /\ \A i \in Ids : ledger[i] # "UNKNOWN"
            THEN [@ EXCEPT !.at = "opening"]
            ELSE [NoPass EXCEPT !.at = "closing"]]
    /\ UNCHANGED <<order, taken, resting, position, ledger, gate>>

SetGate(p) ==
    /\ pass[p].at \in {"opening", "closing"}
    /\ gate' = (pass[p].at = "opening")
    /\ pass' = [pass EXCEPT ![p] = NoPass]
    /\ UNCHANGED <<order, taken, resting, position, ledger>>

Reconcile(p) ==
    \/ \E b \in Brokers \union {"paper"}, late \in SUBSET Ids : StartPass(p, b, late)
    \/ Ask(p)
    \/ ListUnknown(p)
    \/ SetGate(p)

\* The process dies and is started again: requests and passes are gone and the
\* gate is open. The ledger comes back from the orders table, over which the
\* start has written the lines of orders.json, which carry no status.
Restart ==
    /\ order' = [r \in Requests |->
                    IF order[r].at \in {"new", "ended"} THEN order[r]
                    ELSE [order[r] EXCEPT !.at = "ended", !.todo = <<>>]]
    /\ ledger' = [i \in Ids |->
                    IF \E r \in Requests : order[r].code = "200" /\ order[r].id = i
                    THEN "UNKNOWN" ELSE ledger[i]]
    /\ gate' = TRUE
    /\ pass' = [p \in Passes |-> NoPass]
    /\ UNCHANGED <<taken, resting, position>>

Next ==
    \/ \E r \in Requests :
        \/ \E b \in Brokers : Place(r, b)
        \/ Call(r)
        \/ \E id \in Ids : Record(r, id)
        \/ Mark(r)
        \/ Finish(r)
        \/ \E leg \in Exits : ExitTrades(r, leg)
    \/ \E p \in Passes : Reconcile(p)
    \/ Restart

Spec == Init /\ [][Next]_vars

-----------------------------------------------------------------------------
\* An answer of 200 from Kite or Binance means the whole bracket stands: no
\* failure of a later leg leaves place_bracket by its return.
AcceptedIsWhole ==
    \A r \in Requests :
        order[r].code = "200" /\ order[r].broker # "openalgo" => taken[r] = Legs

\* gttAttached in an OpenAlgo result is only true when both exits were taken,
\* whichever of the two calls were refused, lost or answered by a page.
GttClaimTrue ==
    \A r \in Requests : order[r].gtt => Exits \subseteq taken[r]

\* A pass over Kite that is about to open the gate has seen every position left
\* by an order, those included that a request has given up or a restart has
\* forgotten: what it has not seen was taken after the pass had asked.
GateSeesPositions ==
    \A p \in Passes : pass[p].at = "opening" /\ pass[p].broker = "kite" =>
        {r \in Requests : order[r].broker = "kite" /\ position[r] \in {"held", "reversed"}}
            \subseteq pass[p].since

\* An order answered 200 can be looked up, after any number of failures,
\* restarts and collisions of ids: its row is there and is no other's, while
\* the orders table holds no more rows than read_orders returns.
ExecutedIsRecorded ==
    \A r \in Requests : order[r].code = "200" =>
        /\ ledger[order[r].id] \in {"SUBMITTED", "UNKNOWN"}
        /\ \A q \in Requests : order[q].code = "200" /\ order[q].id = order[r].id => q = r

-----------------------------------------------------------------------------
\* "broker API errors -> gate closed (can't prove state)" (execution.py:227).
ErrorsCloseGate == \A p \in Passes : pass[p].at = "opening" => pass[p].answered

\* "reconciliation gate: LIVE orders blocked while the ledger disagrees with the
\* broker" (docs/OPERATIONS.md:23): no pass opens the gate beside a position of Kite's.
GateBlocks ==
    \A p \in Passes : pass[p].at = "opening" =>
        \A r \in Requests : order[r].broker = "kite" => position[r] \in {"none", "closed"}

\* "Place entry + attached take-profit + stop-loss as one unit" (broker/base.py:42).
AllOrNothing ==
    \A r \in Requests : order[r].at = "ended" => taken[r] \in {{}, Legs}

\* "(Kite BO / Binance OCO-style legs)" (broker/base.py:43): one cancels the other.
OneCancelsOther == \A r \in Requests : position[r] # "reversed"
=============================================================================
