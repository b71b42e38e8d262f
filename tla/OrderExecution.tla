--------------------------- MODULE OrderExecution ---------------------------
(***************************************************************************)
(* POST /api/orders from the request to the durable record: idempotency    *)
(* keys, the risk gate, the broker call, the execution ledger and its      *)
(* reconciliation, the signal the order came from, and a restart of the    *)
(* process at any point.                                                   *)
(*                                                                         *)
(* Three kinds of thread act.  The event loop runs place_order, which      *)
(* gives the loop up only while a worker performs place_bracket; it also   *)
(* delivers signals and closes paper positions.  Workers run the broker    *)
(* call, the risk endpoints and reconciliation, between any two steps of   *)
(* the loop and of each other: nothing keeps two reconciliation passes     *)
(* apart.  And the process may die and be started again.                   *)
(*                                                                         *)
(* A broker names each order it takes with an id of its own, so a request  *)
(* stands for the order it placed: atBroker[r], ledger[r] and db[r] are    *)
(* about that one order.                                                   *)
(***************************************************************************)
EXTENDS RiskGate, FiniteSets

CONSTANTS
    Requests,           \* calls of POST /api/orders, each made once
    Signals,            \* signal ids
    ClientIds,          \* clientRequestId values
    Inputs,             \* the bodies the calls may carry
    None,               \* Python's None
    MaxOpenPositions,   \* config.MAX_OPEN_POSITIONS
    ReadLimit,          \* LIMIT of db.read_orders
    Passes,             \* threads that may be in execution.reconcile at once
    MaxBoots            \* bound of the model: times the process is started

Keys == Signals \union ClientIds
InputType == [sig: Signals \union {None}, cid: ClientIds \union {None}, broker: Brokers]
NoInput == [sig |-> None, cid |-> None, broker |-> Paper]

ASSUME OrderExecutionAssumption ==
    /\ Signals \intersect ClientIds = {}
    /\ None \notin Keys \union Requests
    /\ Inputs \subseteq InputType
    /\ MaxOpenPositions \in Nat \ {0}
    /\ ReadLimit \in Nat
    /\ MaxBoots \in Nat

VARIABLES
    pc, req,        \* where each request is, and its body once it was let in
    atBroker,       \* requests whose order the broker has taken
    paperOpen,      \* orders whose paper position is still open
    ledger, aged,   \* execution._ledger; orders SUBMITTED for more than 60 s
    db, rank,       \* the orders table: status, and place by timestamp
    audit,          \* orders in data/orders.json since the last start
    placedKeys,     \* api._placed_keys: the order an idempotency key replays
    signals,        \* hub.signals: the status of each signal
    expired,        \* signals older than SIGNAL_TTL_SECONDS
    scan,           \* how far each reconciliation pass is
    todo,           \* the orders a pass found SUBMITTED and old at its start
    boots,          \* times the process was started
    causes,         \* history: why a key may have been executed twice
    limitRace,      \* history: two paper orders were at the broker at once
    gateCauses      \* history: why the gate may be open beside an UNKNOWN order

orderVars == <<pc, req, atBroker, paperOpen, causes, limitRace>>
storeVars == <<db, rank, audit>>
signalVars == <<signals, expired>>
scanVars == <<scan, todo, gateCauses>>
vars == <<riskVars, orderVars, ledger, aged, storeVars, placedKeys,
          signalVars, scanVars, boots>>

Statuses == {"PENDING", "SUBMITTED", "FILLED", "REJECTED", "CANCELLED", "UNKNOWN"}
Settled == {"FILLED", "REJECTED", "CANCELLED", "UNKNOWN"}

\* Mutant: the diagram of the module's docstring, where only SUBMITTED fills.
StrictTransitions ==
    [s \in Statuses |->
        CASE s = "PENDING"   -> {"SUBMITTED", "REJECTED", "CANCELLED"}
          [] s = "SUBMITTED" -> {"FILLED", "REJECTED", "CANCELLED", "UNKNOWN"}
          [] s = "UNKNOWN"   -> {"FILLED", "CANCELLED"}
          [] OTHER           -> {}]

Transitions ==
    [s \in Statuses |->
        CASE s = "PENDING"   -> {"SUBMITTED", "FILLED", "REJECTED", "CANCELLED"}
          [] s = "SUBMITTED" -> {"FILLED", "REJECTED", "CANCELLED", "UNKNOWN"}
          [] s = "UNKNOWN"   -> {"FILLED", "CANCELLED"}
          [] OTHER           -> {}]

Answers == {"replayed", "refused", "rejected", "executed", "errored"}
Steps == {"idle", "calling", "returned", "recorded", "marked", "lost"} \union Answers
InFlight == {"calling", "returned", "recorded", "marked"}
Causes == {"overlap", "crash", "brokerError", "signalUpdate", "truncated"}
PassPhases == {"idle", "reading", "opening", "closing"}
GateCauses == {"overlap", "raised", "restart"}

\* Mutant: the client's own id comes first.
KeyClientFirst(in) == IF in.cid # None THEN in.cid ELSE in.sig

\* The idempotency key of a body: the signal, else the client's own id.
Key(in) == IF in.sig # None THEN in.sig ELSE in.cid

TypeOK ==
    /\ RiskTypeOK
    /\ pc \in [Requests -> Steps]
    /\ req \in [Requests -> Inputs \union {NoInput}]
    /\ atBroker \subseteq Requests
    /\ paperOpen \subseteq atBroker
    /\ ledger \in [Requests -> Statuses \union {"ABSENT"}]
    /\ aged \subseteq Requests
    /\ db \in [Requests -> Statuses \union {"ABSENT"}]
    /\ rank \in [Requests -> Nat]
    /\ audit \subseteq Requests
    /\ placedKeys \in [Keys -> Requests \union {None}]
    /\ signals \in [Signals -> {"ABSENT", "ACTIVE", "REJECTED", "EXECUTED"}]
    /\ expired \subseteq Signals
    /\ scan \in [Passes -> PassPhases]
    /\ todo \in [Passes -> SUBSET Requests]
    /\ boots \in Nat
    /\ causes \in [Keys -> SUBSET Causes]
    /\ limitRace \in BOOLEAN
    /\ gateCauses \subseteq GateCauses

Init ==
    /\ RiskInit
    /\ pc = [r \in Requests |-> "idle"]
    /\ req = [r \in Requests |-> NoInput]
    /\ atBroker = {}
    /\ paperOpen = {}
    /\ ledger = [r \in Requests |-> "ABSENT"]
    /\ aged = {}
    /\ db = [r \in Requests |-> "ABSENT"]
    /\ rank = [r \in Requests |-> 0]
    /\ audit = {}
    /\ placedKeys = [k \in Keys |-> None]
    /\ signals = [s \in Signals |-> "ABSENT"]
    /\ expired = {}
    /\ scan = [p \in Passes |-> "idle"]
    /\ todo = [p \in Passes |-> {}]
    /\ boots = 1
    /\ causes = [k \in Keys |-> {}]
    /\ limitRace = FALSE
    /\ gateCauses = {}

\* The code after the broker call runs without an await: nothing else of the
\* event loop comes between its steps.
LoopFree == \A r \in Requests : pc[r] \notin {"recorded", "marked"}

Answer(r, a) == pc' = [pc EXCEPT ![r] = a]

Blame(ks, cause) ==
    causes' = [k \in Keys |-> IF k \in ks THEN causes[k] \union {cause} ELSE causes[k]]

(***************************************************************************)
(* Signals reach the hub, and grow old.                                    *)
(***************************************************************************)
OnSignal(s) ==
    /\ LoopFree
    /\ signals[s] = "ABSENT"
    /\ signals' = [signals EXCEPT ![s] = "ACTIVE"]
    /\ UNCHANGED <<riskVars, orderVars, ledger, aged, storeVars, placedKeys,
                   expired, scanVars, boots>>

ExpireSignal(s) ==
    /\ signals[s] # "ABSENT"
    /\ s \notin expired
    /\ expired' = expired \union {s}
    /\ UNCHANGED <<riskVars, orderVars, ledger, aged, storeVars, placedKeys,
                   signals, scanVars, boots>>

(***************************************************************************)
(* place_order up to the await.  A request is answered at once when its    *)
(* key was placed, when its body or its signal is no good, or when the     *)
(* gate refuses it; otherwise a worker calls the broker.                   *)
(***************************************************************************)
Arrives(r, in) ==
    /\ LoopFree
    /\ pc[r] = "idle"

\* Mutant: only signals are looked up.
IsReplayOfSignal(in) == in.sig # None /\ placedKeys[in.sig] # None

IsReplay(in) == Key(in) # None /\ placedKeys[Key(in)] # None
SignalKnown(in) == in.sig # None => signals[in.sig] # "ABSENT"

Replay(r, in) ==
    /\ Arrives(r, in)
    /\ IsReplay(in)
    /\ Answer(r, "replayed")
    /\ UNCHANGED <<riskVars, req, atBroker, paperOpen, causes, limitRace, ledger, aged,
                   storeVars, placedKeys, signalVars, scanVars, boots>>

\* The signal is unknown or the body lacks what an order needs.
Refuse(r, in) ==
    /\ Arrives(r, in)
    /\ ~IsReplay(in)
    /\ \E wellFormed \in BOOLEAN : ~(wellFormed /\ SignalKnown(in))
    /\ Answer(r, "refused")
    /\ UNCHANGED <<riskVars, req, atBroker, paperOpen, causes, limitRace, ledger, aged,
                   storeVars, placedKeys, signalVars, scanVars, boots>>

\* Mutant: one position too many.
PositionsOkOffByOne(b) == b = Paper => Cardinality(paperOpen) <= MaxOpenPositions

\* risk.check, then risk.enforce_limits.  The positions of a real broker, the
\* freshness of the feed, the day's loss and the prices are inputs.
PositionsOk(b) == b = Paper => Cardinality(paperOpen) < MaxOpenPositions

Gate(in, feedFresh, limitsOk) ==
    /\ Check(in.broker, feedFresh, in.sig \notin expired)
    /\ PositionsOk(in.broker)
    /\ limitsOk

\* _update_signal validates the transition first: only an ACTIVE signal can
\* become REJECTED, and any other makes the request fail with the exception.
Reject(r, in) ==
    /\ Arrives(r, in)
    /\ ~IsReplay(in)
    /\ SignalKnown(in)
    /\ \E feedFresh, limitsOk \in BOOLEAN : ~Gate(in, feedFresh, limitsOk)
    /\ LET legal == in.sig = None \/ signals[in.sig] = "ACTIVE" IN
        /\ Answer(r, IF legal THEN "rejected" ELSE "errored")
        /\ signals' = IF in.sig # None /\ legal
                      THEN [signals EXCEPT ![in.sig] = "REJECTED"]
                      ELSE signals
    /\ UNCHANGED <<riskVars, req, atBroker, paperOpen, causes, limitRace, ledger, aged,
                   storeVars, placedKeys, expired, scanVars, boots>>

Admit(r, in) ==
    /\ Arrives(r, in)
    /\ ~IsReplay(in)
    /\ SignalKnown(in)
    /\ \E feedFresh, limitsOk \in BOOLEAN : Gate(in, feedFresh, limitsOk)
    /\ Answer(r, "calling")
    /\ req' = [req EXCEPT ![r] = in]
    /\ Blame({k \in {Key(in)} : \E q \in Requests : pc[q] \in InFlight /\ Key(req[q]) = k},
             "overlap")
    /\ limitRace' = (limitRace \/ (in.broker = Paper /\
                        \E q \in Requests : pc[q] = "calling" /\ req[q].broker = Paper))
    /\ UNCHANGED <<riskVars, atBroker, paperOpen, ledger, aged, storeVars, placedKeys,
                   signalVars, scanVars, boots>>

(***************************************************************************)
(* The broker call, in a worker.  The paper broker always fills.  A real   *)
(* broker may also fail, before or after it has taken the entry order: the *)
(* adapters turn an error of a later leg into the same BrokerError.  The   *)
(* handler then marks an order id the ledger cannot hold, which does       *)
(* nothing, and answers 502.                                               *)
(***************************************************************************)
BrokerTakes(r) ==
    /\ pc[r] = "calling"
    /\ Answer(r, "returned")
    /\ atBroker' = atBroker \union {r}
    /\ paperOpen' = IF req[r].broker = Paper THEN paperOpen \union {r} ELSE paperOpen
    /\ UNCHANGED <<riskVars, req, causes, limitRace, ledger, aged, storeVars, placedKeys,
                   signalVars, scanVars, boots>>

BrokerFails(r) ==
    /\ pc[r] = "calling"
    /\ req[r].broker # Paper
    /\ Answer(r, "errored")
    /\ UNCHANGED <<riskVars, req, atBroker, paperOpen, causes, limitRace, ledger, aged,
                   storeVars, placedKeys, signalVars, scanVars, boots>>

BrokerFailsHalfway(r) ==
    /\ pc[r] = "calling"
    /\ req[r].broker # Paper
    /\ Answer(r, "errored")
    /\ atBroker' = atBroker \union {r}
    /\ Blame({Key(req[r])}, "brokerError")
    /\ UNCHANGED <<riskVars, req, paperOpen, limitRace, ledger, aged, storeVars,
                   placedKeys, signalVars, scanVars, boots>>

(***************************************************************************)
(* place_order after the await: record_order, mark, then the signal, the   *)
(* audit line and the key.  The first two write the orders table.          *)
(***************************************************************************)
Rows == {r \in Requests : db[r] # "ABSENT"}
Unknown == {r \in Requests : ledger[r] = "UNKNOWN"}
Reading == {p \in Passes : scan[p] = "reading"}

\* A new entry makes every pass raise that is walking the ledger: one with
\* orders left to mark is, one without may be in either of its later walks.
RecordOrder(r) ==
    /\ LoopFree
    /\ pc[r] = "returned"
    /\ Answer(r, "recorded")
    /\ ledger' = [ledger EXCEPT ![r] = "PENDING"]
    /\ db' = [db EXCEPT ![r] = "PENDING"]
    /\ rank' = [rank EXCEPT ![r] = Cardinality(Rows) + 1]
    /\ \E raising \in SUBSET Reading :
        /\ \A p \in Reading \ raising : todo[p] = {}
        /\ scan' = [p \in Passes |-> IF p \in raising THEN "idle" ELSE scan[p]]
        /\ todo' = [p \in Passes |-> IF p \in raising THEN {} ELSE todo[p]]
        /\ gateCauses' = gateCauses \union
                {c \in {"raised"} : raising # {} /\ Unknown # {}}
    /\ UNCHANGED <<riskVars, req, atBroker, paperOpen, causes, limitRace, aged, audit,
                   placedKeys, signalVars, boots>>

MarkOrder(r) ==
    /\ pc[r] = "recorded"
    /\ LET status == IF req[r].broker = Paper THEN "FILLED" ELSE "SUBMITTED" IN
        /\ status \in Transitions[ledger[r]]
        /\ ledger' = [ledger EXCEPT ![r] = status]
        /\ db' = [db EXCEPT ![r] = status]
    /\ Answer(r, "marked")
    /\ UNCHANGED <<riskVars, req, atBroker, paperOpen, causes, limitRace, aged, rank, audit,
                   placedKeys, signalVars, scanVars, boots>>

\* Only an ACTIVE signal can become EXECUTED: any other raises here, after the
\* order and before its key.
FinishOrder(r) ==
    LET s == req[r].sig
        k == Key(req[r])
    IN
    /\ pc[r] = "marked"
    /\ s # None => signals[s] = "ACTIVE"
    /\ Answer(r, "executed")
    /\ signals' = IF s = None THEN signals ELSE [signals EXCEPT ![s] = "EXECUTED"]
    /\ audit' = audit \union {r}
    /\ placedKeys' = IF k = None THEN placedKeys ELSE [placedKeys EXCEPT ![k] = r]
    /\ UNCHANGED <<riskVars, req, atBroker, paperOpen, causes, limitRace, ledger, aged,
                   db, rank, expired, scanVars, boots>>

FinishOrderRaises(r) ==
    LET s == req[r].sig IN
    /\ pc[r] = "marked"
    /\ s # None /\ signals[s] # "ACTIVE"
    /\ Answer(r, "errored")
    /\ Blame({s}, "signalUpdate")
    /\ UNCHANGED <<riskVars, req, atBroker, paperOpen, limitRace, ledger, aged, storeVars,
                   placedKeys, signalVars, scanVars, boots>>

(***************************************************************************)
(* The feed closes a paper position; the trade's result goes to the        *)
(* circuit breaker.                                                        *)
(***************************************************************************)
ClosePosition(r, win) ==
    /\ LoopFree
    /\ r \in paperOpen
    /\ paperOpen' = paperOpen \ {r}
    /\ RecordTradeResult(win)
    /\ UNCHANGED <<pc, req, atBroker, causes, limitRace, ledger, aged, storeVars,
                   placedKeys, signalVars, scanVars, boots>>

(***************************************************************************)
(* Reconciliation, in a worker, for one broker after the other: walk the   *)
(* ledger and mark stale orders one by one, ask the broker, list what      *)
(* disagrees, set the gate.  No lock is taken, so other passes, orders and *)
(* the other endpoints come between any two of these steps.                *)
(***************************************************************************)
\* Mutant: the status is not tested.
AgePlacedOrders ==
    /\ aged' = {r \in Requests : ledger[r] \in {"SUBMITTED", "FILLED"}}
    /\ aged' # aged
    /\ UNCHANGED <<riskVars, orderVars, ledger, storeVars, placedKeys,
                   signalVars, scanVars, boots>>

AgeOrders ==
    /\ aged' = {r \in Requests : ledger[r] = "SUBMITTED"}
    /\ aged' # aged
    /\ UNCHANGED <<riskVars, orderVars, ledger, storeVars, placedKeys,
                   signalVars, scanVars, boots>>

\* The age of an order is taken against the time the pass started.
StartScan(p) ==
    /\ scan[p] = "idle"
    /\ scan' = [scan EXCEPT ![p] = "reading"]
    /\ todo' = [todo EXCEPT ![p] = aged]
    /\ UNCHANGED <<riskVars, orderVars, ledger, aged, storeVars, placedKeys,
                   signalVars, gateCauses, boots>>

\* Other passes then pass the order over.  One that has decided to open the
\* gate has not seen this order.
MarkStale(p, r) ==
    /\ scan[p] = "reading"
    /\ r \in todo[p]
    /\ ledger' = [ledger EXCEPT ![r] = "UNKNOWN"]
    /\ db' = [db EXCEPT ![r] = "UNKNOWN"]
    /\ aged' = aged \ {r}
    /\ todo' = [q \in Passes |-> todo[q] \ {r}]
    /\ gateCauses' = gateCauses \union
            {c \in {"overlap"} : \E q \in Passes : scan[q] = "opening"}
    /\ UNCHANGED <<riskVars, orderVars, rank, audit, placedKeys, signalVars, scan, boots>>

\* Mutant: UNKNOWN orders are no mismatch.
ListMismatchesLenient(p, agrees) ==
    /\ scan[p] = "reading"
    /\ todo[p] = {}
    /\ scan' = [scan EXCEPT ![p] = IF agrees THEN "opening" ELSE "closing"]
    /\ UNCHANGED <<riskVars, orderVars, ledger, aged, storeVars, placedKeys,
                   signalVars, todo, gateCauses, boots>>

\* What the broker answers is an input: it agrees when it can be reached and,
\* unless it is the paper broker, holds no position whose id no FILLED order of
\* the ledger has.  An UNKNOWN order disagrees whoever is asked.
ListMismatches(p, agrees) ==
    /\ scan[p] = "reading"
    /\ todo[p] = {}
    /\ scan' = [scan EXCEPT ![p] = IF agrees /\ Unknown = {} THEN "opening" ELSE "closing"]
    /\ UNCHANGED <<riskVars, orderVars, ledger, aged, storeVars, placedKeys,
                   signalVars, todo, gateCauses, boots>>

\* The gate is explained again once no pass is left, this one included, that
\* would open it without having seen an UNKNOWN order.
SetGate(p) ==
    /\ scan[p] \in {"opening", "closing"}
    /\ SetReconciliationOk(scan[p] = "opening")
    /\ scan' = [scan EXCEPT ![p] = "idle"]
    /\ gateCauses' = IF Unknown # {} /\ \E q \in Passes : scan[q] = "opening"
                     THEN gateCauses ELSE {}
    /\ UNCHANGED <<orderVars, ledger, aged, storeVars, placedKeys, signalVars, todo, boots>>

(***************************************************************************)
(* The process dies and starts again.  The start imports orders.json over  *)
(* the orders table, whose rows then carry no status, archives it, seeds   *)
(* the keys and the ledger from the rows read_orders returns, and restores *)
(* the signals as they were first written.                                 *)
(***************************************************************************)
\* Mutant: the limit is off by one.
ReadableOffByOne == {r \in Rows : rank[r] < ReadLimit}

Readable == {r \in Rows : rank[r] <= ReadLimit}

\* Mutant: client ids are not indexed again.
SeedsOfSignals(k) == {r \in Readable : k = req[r].sig}

Seeds(k) == {r \in Readable : k \in {req[r].sig, req[r].cid}}
Oldest(rows) == CHOOSE r \in rows : \A q \in rows : rank[r] <= rank[q]

\* import_legacy_all over the orders table, then execution.restore.
Imported == [r \in Requests |-> IF r \in audit THEN "UNKNOWN" ELSE db[r]]
Restored == [r \in Requests |-> IF r \in Readable THEN Imported[r] ELSE "ABSENT"]

Restart ==
    /\ boots < MaxBoots
    /\ boots' = boots + 1
    /\ RiskReset
    /\ pc' = [r \in Requests |-> IF pc[r] \in InFlight THEN "lost" ELSE pc[r]]
    /\ paperOpen' = {}
    /\ db' = Imported
    /\ audit' = {}
    /\ placedKeys' = [k \in Keys |-> IF Seeds(k) = {} THEN None ELSE Oldest(Seeds(k))]
    /\ ledger' = Restored
    /\ aged' = {r \in aged : ledger'[r] = "SUBMITTED"}
    /\ signals' = [s \in Signals |-> IF signals[s] = "ABSENT" THEN "ABSENT" ELSE "ACTIVE"]
    /\ scan' = [p \in Passes |-> "idle"]
    /\ todo' = [p \in Passes |-> {}]
    /\ gateCauses' = {c \in {"restart"} : \E r \in Requests : Restored[r] = "UNKNOWN"}
    /\ causes' = [k \in Keys |-> causes[k]
            \union {c \in {"crash"} : \E r \in Requests :
                        pc[r] = "returned" /\ Key(req[r]) = k}
            \union {c \in {"truncated"} : \E r \in Rows \ Readable :
                        k \in {req[r].sig, req[r].cid}}]
    /\ UNCHANGED <<req, atBroker, limitRace, rank, expired>>

(***************************************************************************)
(* The operator's endpoints.                                               *)
(***************************************************************************)
OperatorAction ==
    /\ \/ \E m \in VALID_MODES : SetMode(m)
       \/ \E b \in Brokers : Arm(b)
       \/ Stop
       \/ \E on \in BOOLEAN : SetShield(on)
       \/ ResetBreaker
    /\ UNCHANGED <<orderVars, ledger, aged, storeVars, placedKeys, signalVars, scanVars, boots>>

PlaceOrder(r) ==
    \/ \E in \in Inputs : Replay(r, in) \/ Refuse(r, in) \/ Reject(r, in) \/ Admit(r, in)
    \/ RecordOrder(r) \/ MarkOrder(r) \/ FinishOrder(r) \/ FinishOrderRaises(r)

BrokerCall(r) == BrokerTakes(r) \/ BrokerFails(r) \/ BrokerFailsHalfway(r)

Reconcile(p) ==
    \/ StartScan(p)
    \/ \E r \in Requests : MarkStale(p, r)
    \/ \E agrees \in BOOLEAN : ListMismatches(p, agrees)
    \/ SetGate(p)

Next ==
    \/ \E s \in Signals : OnSignal(s) \/ ExpireSignal(s)
    \/ \E r \in Requests : PlaceOrder(r) \/ BrokerCall(r)
    \/ \E r \in Requests, win \in BOOLEAN : ClosePosition(r, win)
    \/ AgeOrders
    \/ \E p \in Passes : Reconcile(p)
    \/ OperatorAction
    \/ Restart

Spec == Init /\ [][Next]_vars

(***************************************************************************)
(* The event loop runs every callback it holds, a worker finishes the call *)
(* it started (the broker libraries and their time-outs see to it).  The   *)
(* endpoints are called when somebody wishes to: no fairness there.        *)
(***************************************************************************)
Fairness ==
    /\ \A r \in Requests :
        /\ WF_vars(BrokerCall(r))
        /\ WF_vars(RecordOrder(r))
        /\ WF_vars(MarkOrder(r))
        /\ WF_vars(FinishOrder(r) \/ FinishOrderRaises(r))
    /\ \A p \in Passes :
        /\ \A r \in Requests : WF_vars(MarkStale(p, r))
        /\ WF_vars(\E agrees \in BOOLEAN : ListMismatches(p, agrees))
        /\ WF_vars(SetGate(p))

FairSpec == Spec /\ Fairness

\* And somebody asks for reconciliation over and over.
ReconcilingSpec ==
    /\ FairSpec
    /\ \A p \in Passes : SF_vars(StartScan(p))

-----------------------------------------------------------------------------
Placed(k) == {r \in atBroker : Key(req[r]) = k}

(***************************************************************************)
(* "idempotent per signal" (docs/SIGNALS.md:43): one idempotency key       *)
(* reaches the broker at most once (api.place_order).                      *)
(***************************************************************************)
AtMostOnce == \A k \in Keys : \A r, q \in Placed(k) : r = q

(***************************************************************************)
(* What the keys of api.place_order do give.  A key reaches the broker     *)
(* twice only after one of five events: two of its requests were between   *)
(* check and answer together, the process died between the broker's answer *)
(* and the first write, the broker failed after taking the order, the      *)
(* signal refused the status update after the order, or a restart read     *)
(* fewer rows than the orders table holds.                                 *)
(***************************************************************************)
AtMostOnceUnlessBlamed ==
    \A k \in Keys : causes[k] = {} => \A r, q \in Placed(k) : r = q

(***************************************************************************)
(* An idempotency key once stored is never forgotten, over any number of   *)
(* restarts, as long as a restart reads the whole orders table             *)
(* (api._placed_keys, api._startup and db.read_orders).                    *)
(***************************************************************************)
KeysSurvive ==
    [][\A k \in Keys : placedKeys[k] # None =>
            placedKeys'[k] # None \/ "truncated" \in causes'[k]]_vars

(***************************************************************************)
(* A signal shown as EXECUTED can always be replayed, and one whose order  *)
(* can be replayed is never shown as REJECTED (api.place_order with        *)
(* api._update_signal, across restarts).                                   *)
(***************************************************************************)
SignalAgreesWithKey ==
    \A s \in Signals :
        /\ signals[s] = "EXECUTED" => placedKeys[s] # None
        /\ signals[s] = "REJECTED" => placedKeys[s] = None

(***************************************************************************)
(* With no pass under way, an UNKNOWN order keeps the gate for real        *)
(* brokers closed, but for three events: another pass had listed the       *)
(* ledger and not yet opened the gate when the order was marked, a new     *)
(* order made a pass raise, or a start restored the order beside an open   *)
(* gate.  Each of them counts until a pass sets the gate with nobody left  *)
(* to open it on an older list (execution.reconcile).                      *)
(***************************************************************************)
UnknownClosesGate ==
    Unknown # {} /\ gateCauses = {} /\ (\A p \in Passes : scan[p] = "idle") => ~reconOk

(***************************************************************************)
(* While the process runs, an order that is FILLED, REJECTED, CANCELLED or *)
(* UNKNOWN stays so, and at every step the orders table says what the      *)
(* ledger says (execution.mark, stale_unknown_orders and their             *)
(* write-through).                                                         *)
(***************************************************************************)
LedgerIsDurable ==
    [][/\ boots' = boots =>
            \A r \in Requests : ledger[r] \in Settled => ledger'[r] = ledger[r]
       /\ \A r \in Requests : ledger'[r] \in {"ABSENT", db'[r]}]_vars

(***************************************************************************)
(* MAX_OPEN_POSITIONS bounds the open paper positions as long as no two    *)
(* paper orders were on their way to the broker together                   *)
(* (risk.enforce_limits before the await of api.place_order).              *)
(***************************************************************************)
PositionLimit == ~limitRace => Cardinality(paperOpen) <= MaxOpenPositions

(***************************************************************************)
(* A request let in to the broker is answered, unless the process dies     *)
(* first: no interleaving with reconciliation leaves api.place_order with  *)
(* an order whose status execution.mark refuses to change.                 *)
(***************************************************************************)
RequestsAnswered ==
    \A r \in Requests : pc[r] = "calling" ~> pc[r] \in Answers \union {"lost"}

(***************************************************************************)
(* "reconciliation must resolve it" (execution.py:8): an order does not    *)
(* stay UNKNOWN while somebody keeps reconciling.                          *)
(***************************************************************************)
UnknownResolved ==
    \A r \in Requests : ledger[r] = "UNKNOWN" ~> ledger[r] # "UNKNOWN"

-----------------------------------------------------------------------------
(***************************************************************************)
(* What has become of the order of a request, in the terms of              *)
(* OrderTracking.                                                          *)
(***************************************************************************)
Fate == [r \in Requests |->
    IF ledger[r] # "ABSENT" THEN "tracked"
    ELSE IF r \notin atBroker THEN "none"
    ELSE IF pc[r] = "returned" THEN "placed"
    ELSE IF rank[r] > 0 THEN "forgotten"
    ELSE "orphaned"]

Tracking == INSTANCE OrderTracking WITH Orders <- Requests, Limit <- ReadLimit, fate <- Fate

(***************************************************************************)
(* Every order the broker took ends up in the ledger and stays there, but  *)
(* for the three gaps OrderTracking names (execution.record_order, restore *)
(* and api.place_order implement it).                                      *)
(***************************************************************************)
ImplementsTracking == Tracking!Spec

=============================================================================
