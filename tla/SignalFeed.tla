----------------------------- MODULE SignalFeed -----------------------------
(***************************************************************************)
(* From the exchange to the signal hub: LiveFeed._binance_loop polls the   *)
(* candles of a symbol, ingest_bar appends each new one to the series and  *)
(* shows it to every StrategyRunner, and api.on_signal publishes what they *)
(* find, once for each signal id.                                          *)
(*                                                                         *)
(* A worker fetches the candles while the event loop does other things;    *)
(* the loop then ingests all it was given without an await.  The process   *)
(* may die at any point and starts again from the signals table.           *)
(*                                                                         *)
(* A candle is its number.  One symbol is followed: the loop takes the     *)
(* symbols one after the other and they share nothing but the hub.  What   *)
(* the indicators and the time-out of an open signal say of a candle is an *)
(* input.                                                                  *)
(***************************************************************************)
EXTENDS Naturals, Sequences, SequencesExt

CONSTANTS
    RunnerSeq,  \* the runners of the symbol, in the order of the dict
    Window,     \* candles one call of get_historical_bars returns
    BarsKept,   \* config.MAX_BARS_KEPT
    HubSize,    \* maxlen of hub.signals
    MaxCandle,  \* bound of the model: the candles of the exchange
    MaxBoots    \* bound of the model: times the process is started

Runners == {RunnerSeq[i] : i \in 1..Len(RunnerSeq)}
Candles == 1..MaxCandle
Ids == [runner: Runners, candle: Candles]

ASSUME SignalFeedAssumption ==
    /\ RunnerSeq \in Seq(Runners)
    /\ \A i, j \in 1..Len(RunnerSeq) : RunnerSeq[i] = RunnerSeq[j] => i = j
    /\ Window \in Nat \ {0}
    /\ BarsKept \in Nat \ {0, 1}
    /\ HubSize \in Nat \ {0}
    /\ MaxCandle \in Nat \ {0}
    /\ MaxBoots \in Nat

VARIABLES
    now,            \* the candle the exchange is building
    phase,          \* of the loop: "prime", "poll", "ingest"
    rows,           \* what the last fetch returned and is not handled yet
    last,           \* LiveFeed._last_ohlcv_ts, 0 when it has none
    series,         \* LiveFeed.bars
    todo,           \* runners that have not seen the last bar yet
    active,         \* runners whose StrategyRunner.state is "active"
    hub,            \* hub.signals, oldest place first
    table,          \* ids of the signals table, by timestamp
    boots,          \* times the process was started
    published,      \* history: how often each id was published
    evicted,        \* history: ids that have left the hub
    skipped         \* history: candles quarantined, or gone before a fetch

exchangeVars == <<now, boots>>
loopVars == <<phase, rows, last, series, todo, active>>
hubVars == <<hub, table, published, evicted>>
vars == <<exchangeVars, loopVars, hubVars, skipped>>

Bar == [ts: Candles, final: BOOLEAN]
Entry == [id: Ids, open: BOOLEAN]

LastOf(s, n) == SubSeq(s, IF Len(s) > n THEN Len(s) - n + 1 ELSE 1, Len(s))
HubIds == {e.id : e \in ToSet(hub)}

TypeOK ==
    /\ now \in Candles
    /\ phase \in {"prime", "poll", "ingest"}
    /\ rows \in Seq(Bar)
    /\ last \in 0..now
    /\ series \in Seq(Bar) /\ Len(series) <= BarsKept
    /\ todo \in Seq(Runners)
    /\ active \subseteq Runners
    /\ hub \in Seq(Entry) /\ Len(hub) <= HubSize
    /\ table \in Seq(Ids)
    /\ boots \in Nat
    /\ published \in [Ids -> Nat]
    /\ evicted \subseteq Ids
    /\ skipped \subseteq Candles

Init ==
    /\ now = 1
    /\ phase = "prime"
    /\ rows = <<>>
    /\ last = 0
    /\ series = <<>>
    /\ todo = <<>>
    /\ active = {}
    /\ hub = <<>>
    /\ table = <<>>
    /\ boots = 1
    /\ published = [id \in Ids |-> 0]
    /\ evicted = {}
    /\ skipped = {}

\* The loop is not in the middle of a batch.
LoopFree == phase # "ingest"

\* The exchange begins the next candle.
Tick ==
    /\ now < MaxCandle
    /\ now' = now + 1
    /\ UNCHANGED <<boots, loopVars, hubVars, skipped>>

(***************************************************************************)
(* get_historical_bars, in a worker: the last candles, the one in progress *)
(* among them.  An error leaves the loop as it was, and ends the priming.  *)
(***************************************************************************)
Recent ==
    LET first == IF now > Window THEN now - Window + 1 ELSE 1
    IN  [i \in 1..(now - first + 1) |-> [ts |-> first + i - 1, final |-> first + i - 1 < now]]

Fetch ==
    /\ LoopFree
    /\ rows = <<>>
    /\ rows' = Recent
    /\ UNCHANGED <<exchangeVars, phase, last, series, todo, active, hubVars, skipped>>

FetchFails ==
    /\ phase = "prime"
    /\ rows = <<>>
    /\ phase' = "poll"
    /\ UNCHANGED <<exchangeVars, rows, last, series, todo, active, hubVars, skipped>>

\* The first candles warm the indicators up; no runner is shown them.
Prime ==
    /\ phase = "prime"
    /\ rows # <<>>
    /\ last' = rows[Len(rows)].ts
    /\ series' = LastOf(rows, BarsKept)
    /\ rows' = <<>>
    /\ phase' = "poll"
    /\ UNCHANGED <<exchangeVars, todo, active, hubVars, skipped>>

(***************************************************************************)
(* A poll: the rows newer than the last one ingested, one after the other. *)
(***************************************************************************)
\* Mutant: the last candle is taken again.
NewOrSame(b) == b.ts >= last

\* Mutant: the newest candle only.
NewestOnly(b) == b.ts > last /\ b = rows[Len(rows)]

New(b) == b.ts > last

\* Mutant: a symbol that was not primed is passed over, as in _paper_loop.
StartIngestPrimed ==
    /\ phase = "poll"
    /\ rows # <<>>
    /\ phase' = "ingest"
    /\ rows' = IF series = <<>> THEN <<>> ELSE rows
    /\ UNCHANGED <<exchangeVars, last, series, todo, active, hubVars, skipped>>

\* Candles older than every row are gone for good.
StartIngest ==
    /\ phase = "poll"
    /\ rows # <<>>
    /\ phase' = "ingest"
    /\ skipped' = skipped \union {c \in Candles : last > 0 /\ last < c /\ c < rows[1].ts}
    /\ UNCHANGED <<exchangeVars, rows, last, series, todo, active, hubVars>>

PassOver ==
    /\ phase = "ingest"
    /\ todo = <<>>
    /\ rows # <<>>
    /\ ~New(Head(rows))
    /\ rows' = Tail(rows)
    /\ UNCHANGED <<exchangeVars, phase, last, series, todo, active, hubVars, skipped>>

\* ingest_bar: a corrupt candle is counted and dropped, any other is appended
\* and shown to the runners.
IngestBar(valid) ==
    /\ phase = "ingest"
    /\ todo = <<>>
    /\ rows # <<>>
    /\ New(Head(rows))
    /\ rows' = Tail(rows)
    /\ last' = Head(rows).ts
    /\ series' = IF valid THEN LastOf(Append(series, Head(rows)), BarsKept) ELSE series
    /\ todo' = IF valid THEN RunnerSeq ELSE <<>>
    /\ skipped' = IF valid THEN skipped ELSE skipped \union {Head(rows).ts}
    /\ UNCHANGED <<exchangeVars, phase, active, hubVars>>

EndIngest ==
    /\ phase = "ingest"
    /\ todo = <<>>
    /\ rows = <<>>
    /\ phase' = "poll"
    /\ UNCHANGED <<exchangeVars, rows, last, series, todo, active, hubVars, skipped>>

(***************************************************************************)
(* on_signal: nothing for an id the hub holds, else the deque, which drops *)
(* its first entry when it is full, the table and the broadcast.           *)
(***************************************************************************)
\* Mutant: ids are not compared.
OnSignalAlways(id) ==
    LET pushed == Append(hub, [id |-> id, open |-> TRUE]) IN
    /\ hub' = LastOf(pushed, HubSize)
    /\ table' = Append(RemoveFirst(table, id), id)
    /\ published' = [published EXCEPT ![id] = @ + 1]
    /\ evicted' = evicted

OnSignal(id) ==
    IF id \in HubIds
    THEN UNCHANGED hubVars
    ELSE LET pushed == Append(hub, [id |-> id, open |-> TRUE]) IN
         /\ hub' = LastOf(pushed, HubSize)
         /\ table' = Append(RemoveFirst(table, id), id)
         /\ published' = [published EXCEPT ![id] = @ + 1]
         /\ evicted' = evicted \union
                {e.id : e \in ToSet(SubSeq(pushed, 1, Len(pushed) - Len(LastOf(pushed, HubSize))))}

\* StrategyRunner.on_bar of the next runner.
Seen == series[Len(series)].ts

Handled(s) ==
    /\ phase = "ingest"
    /\ todo # <<>>
    /\ s = Head(todo)
    /\ todo' = Tail(todo)
    /\ UNCHANGED <<exchangeVars, phase, rows, last, series, skipped>>

\* Too few bars, an indicator that cannot be computed (which comes before the
\* time-out), or no condition met.
NothingMet(s) ==
    /\ Handled(s)
    /\ UNCHANGED <<active, hubVars>>

\* The exit condition, or the time-out.
Leaves(s) ==
    /\ Handled(s)
    /\ Len(series) >= 2
    /\ s \in active
    /\ active' = active \ {s}
    /\ UNCHANGED hubVars

Enters(s) ==
    /\ Handled(s)
    /\ Len(series) >= 2
    /\ s \notin active
    /\ active' = active \union {s}
    /\ OnSignal([runner |-> s, candle |-> Seen])

(***************************************************************************)
(* _update_signal, from place_order: the status changes once, and the      *)
(* signal goes to the place of the oldest.                                 *)
(***************************************************************************)
UpdateSignal(e) ==
    /\ LoopFree
    /\ e \in ToSet(hub)
    /\ e.open
    /\ hub' = <<[e EXCEPT !.open = FALSE]>> \o RemoveFirst(hub, e)
    /\ UNCHANGED <<exchangeVars, loopVars, table, published, evicted, skipped>>

\* A new process: the hub is filled from the table, everything else is empty.
Restart ==
    LET kept == LastOf(table, HubSize) IN
    /\ boots < MaxBoots
    /\ boots' = boots + 1
    /\ phase' = "prime"
    /\ rows' = <<>>
    /\ last' = 0
    /\ series' = <<>>
    /\ todo' = <<>>
    /\ active' = {}
    /\ hub' = [i \in 1..Len(kept) |-> [id |-> kept[i], open |-> TRUE]]
    /\ evicted' = evicted \union (HubIds \ ToSet(kept))
    /\ UNCHANGED <<now, table, published, skipped>>

Evaluate == \E s \in Runners : NothingMet(s) \/ Leaves(s) \/ Enters(s)

Next ==
    \/ Tick
    \/ Fetch \/ FetchFails \/ Prime
    \/ StartIngest \/ PassOver \/ EndIngest
    \/ \E valid \in BOOLEAN : IngestBar(valid)
    \/ Evaluate
    \/ \E e \in ToSet(hub) : UpdateSignal(e)
    \/ Restart

Spec == Init /\ [][Next]_vars

(***************************************************************************)
(* The loop runs what it holds, and the exchange answers now and then.     *)
(***************************************************************************)
Fairness ==
    /\ WF_vars(Fetch)
    /\ WF_vars(Prime)
    /\ WF_vars(StartIngest)
    /\ WF_vars(PassOver)
    /\ WF_vars(\E valid \in BOOLEAN : IngestBar(valid))
    /\ WF_vars(Evaluate)
    /\ WF_vars(EndIngest)

FairSpec == Spec /\ Fairness

-----------------------------------------------------------------------------
(***************************************************************************)
(* The series a strategy sees never goes back in time and holds no candle  *)
(* twice, whatever a late answer of the exchange overlaps with             *)
(* (feed._binance_loop, feed.ingest_bar).                                  *)
(***************************************************************************)
SeriesInOrder == \A i \in 2..Len(series) : series[i - 1].ts < series[i].ts

(***************************************************************************)
(* No candle between the first and the last of the series is missing from  *)
(* it, but for those that were corrupt or had left the exchange's window   *)
(* before a fetch (feed._binance_loop).                                    *)
(***************************************************************************)
NothingLost ==
    series # <<>> =>
        \A c \in Candles : series[1].ts <= c /\ c <= last =>
            c \in skipped \/ \E b \in ToSet(series) : b.ts = c

(***************************************************************************)
(* What the comparison of ids in api.on_signal gives: the hub holds no two *)
(* entries of one signal, and a signal is published again only after it    *)
(* had left the hub, over restarts and candles ingested twice.             *)
(***************************************************************************)
OncePublished ==
    /\ \A i, j \in 1..Len(hub) : hub[i].id = hub[j].id => i = j
    /\ \A id \in Ids : published[id] > 1 => id \in evicted

(***************************************************************************)
(* Every candle the exchange begins is reached by the loop, also when the  *)
(* first fetch failed and after a restart (feed._binance_loop).            *)
(***************************************************************************)
CatchesUp == \A c \in Candles : now = c ~> last >= c

(***************************************************************************)
(* "restarts can never duplicate a signal" (docs/SIGNALS.md:14): no id is  *)
(* published twice.                                                        *)
(***************************************************************************)
NeverDuplicated == \A id \in Ids : published[id] <= 1

(***************************************************************************)
(* "The engine evaluates strategies on closed candles only"                *)
(* (docs/SIGNALS.md:5): the bar the runners are shown is complete.         *)
(***************************************************************************)
ClosedCandlesOnly == todo # <<>> => series[Len(series)].final

=============================================================================
