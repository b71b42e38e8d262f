----------------------------- MODULE MarketData -----------------------------
(***************************************************************************)
(* market_router.MarketRouter under concurrent requests: which provider a  *)
(* quote is asked of, how candles fail over, what a search skips, and how  *)
(* the health of the providers follows from their answers.                 *)
(*                                                                         *)
(* Endpoints run on pool threads, so requests interleave between their     *)
(* HTTP calls.  A change of credentials replaces the router; requests that *)
(* are under way keep the one they began with.                             *)
(*                                                                         *)
(* One symbol stands for each asset class.  The switch log, and the last   *)
(* provider tried that it is written from, are left out: no code under     *)
(* app/ reads either.                                                      *)
(***************************************************************************)
EXTENDS ProviderAdapters, Naturals, Sequences, SequencesExt

CONSTANTS
    ClassSeq,       \* asset classes, in the order of AssetClass
    Routes,         \* routes: class -> sequence of provider ids
    Slots,          \* pool threads that serve requests
    Kinds,          \* operations asked for: "quote", "candles", "search"
    Timeframes,     \* timeframes asked for
    Attempts,       \* attempts of throttled_request
    MaxRequests,    \* bound of the model: requests begun
    MaxSearches,    \* bound of the model: searches under way at once
    MaxRouters      \* bound of the model: routers built

Classes == ToSet(ClassSeq)
Providers == UNION {ToSet(Routes[c]) : c \in Classes}

ASSUME MarketDataAssumption ==
    /\ Routes \in [Classes -> Seq(DOMAIN Lacks \union {"binance", "coingecko"}) \ {<<>>}]
    /\ Attempts \in Nat \ {0}
    /\ MaxRequests \in Nat
    /\ MaxRouters \in Nat \ {0}

VARIABLES
    routers,        \* every router built, the current one last
    request,        \* request[s]: what thread s serves
    begun           \* requests begun

marketVars == <<routers, request, begun>>

None == "none"
Lists == {"none", "full", "bad"}
\* upstox: one master for each exchange; freshness is one time for both.
Segment(class) == IF class = "FUTURE" THEN "NSE_FO" ELSE "NSE_EQ"
Segments == {"NSE_EQ", "NSE_FO"}

NoRequest ==
    [kind |-> None, class |-> None, tf |-> None, on |-> 0, todo |-> <<>>, tries |-> 0,
     picked |-> None, tried |-> {}, code |-> None, from |-> None]

MarketTypeOK ==
    /\ \A g \in 1..Len(routers) :
        /\ routers[g].health \in [Providers -> HealthStates]
        /\ routers[g].session \in BOOLEAN
        /\ routers[g].master \in [Segments -> Lists]
        /\ routers[g].fresh \in BOOLEAN
    /\ \A s \in Slots :
        /\ request[s].kind \in Kinds \union {None}
        /\ request[s].on \in 0..Len(routers)
        /\ request[s].todo \in Seq(Providers)
        /\ request[s].tries \in 0..(Attempts - 1)
        /\ request[s].tried \subseteq Providers
        /\ request[s].code \in Codes \union {None}
        /\ request[s].code = "DATA" /\ request[s].kind # "search" => request[s].from \in Providers
    /\ begun \in 0..MaxRequests

-----------------------------------------------------------------------------
\* build_providers: the state an adapter is constructed in.
FirstHealth(p) ==
    CASE p \in {"binance", "coingecko"} -> "READY"
      [] p = "twelve_data" -> IF p \in Configured THEN "READY" ELSE "DEGRADED"
      [] p = "angel" -> "AUTH_REQUIRED"
      [] OTHER -> IF p \in Configured THEN "READY" ELSE "AUTH_REQUIRED"

NewRouter ==
    [health |-> [p \in Providers |-> FirstHealth(p)], session |-> FALSE,
     master |-> [x \in Segments |-> "none"], fresh |-> FALSE]

MarketInit ==
    /\ routers = <<NewRouter>>
    /\ request = [s \in Slots |-> NoRequest]
    /\ begun = 0

\* market_credentials_save, market_credentials_delete: after the vault.
Rebuild ==
    /\ Len(routers) < MaxRouters
    /\ routers' = Append(routers, NewRouter)
    /\ UNCHANGED <<request, begun>>

Usable(router, p) == router.health[p] \in {"READY", "DEGRADED"}

\* _pick: no provider of the model is DISABLED.
Pick(router, class) ==
    LET route == Routes[class]
        others == {i \in 2..Len(route) : router.health[route[i]] # "OFFLINE"}
    IN  IF Usable(router, route[1]) \/ others = {} THEN route[1]
        ELSE route[CHOOSE i \in others : \A j \in others : i <= j]

BeginRequest(s, r) ==
    /\ request[s] = NoRequest
    /\ begun < MaxRequests
    /\ begun' = begun + 1
    /\ request' = [request EXCEPT ![s] = r]

\* get_quote, up to the call of the provider.
AskQuote(s, class) ==
    LET g == Len(routers)
        p == Pick(routers[g], class)
    IN  /\ BeginRequest(s, [NoRequest EXCEPT !.kind = "quote", !.class = class, !.on = g,
                                 !.todo = <<p>>, !.picked = p])
        /\ UNCHANGED routers

\* The providers of a route other than p, in its order.
Others(route, p) ==
    LET kept == {k \in 1..Len(route) : route[k] # p}
        Rank(k) == Cardinality({j \in kept : j <= k})
    IN  [n \in 1..Cardinality(kept) |-> route[CHOOSE k \in kept : Rank(k) = n]]

\* get_candles: the picked provider first, then the other candidates.
AskCandles(s, class, tf) ==
    LET g == Len(routers)
        p == Pick(routers[g], class)
    IN  /\ BeginRequest(s, [NoRequest EXCEPT !.kind = "candles", !.class = class, !.tf = tf, !.on = g,
                                 !.todo = <<p>> \o Others(Routes[class], p),
                                 !.picked = p])
        /\ UNCHANGED routers

\* search_instruments: the candidates of every asset class.
AskSearch(s) ==
    /\ Cardinality({t \in Slots : request[t].kind = "search"}) < MaxSearches
    /\ BeginRequest(s, [NoRequest EXCEPT !.kind = "search", !.on = Len(routers),
                             !.todo = FlattenSeq([i \in 1..Len(ClassSeq) |-> Routes[ClassSeq[i]]])])
    /\ UNCHANGED routers

-----------------------------------------------------------------------------
Active(s) == request[s] # NoRequest /\ request[s].code = None
Asked(s) == Head(request[s].todo)
On(s) == routers[request[s].on]
HealthOf(s) == On(s).health[Asked(s)]

\* Providers a search passes over.
Skipped == {"AUTH_REQUIRED", "AUTH_FAILED"}
Skips(s) == request[s].kind = "search" /\ HealthOf(s) \in Skipped

\* The call that comes next is the login of angel, or the master of upstox.
LogsIn(s) == Asked(s) = "angel" /\ request[s].kind # "search" /\ ~On(s).session
             /\ (request[s].kind = "candles" => request[s].tf \notin Lacks["angel"])
MasterOf(s) == On(s).master[Segment(request[s].class)]
LoadsMaster(s) ==
    /\ Asked(s) = "upstox"
    /\ MasterOf(s) = "none" \/ ~On(s).fresh

QuoteOf(s, a) ==
    LET p == Asked(s)
        h == HealthOf(s)
    IN  CASE p = "alpaca" -> AlpacaQuote(a, h)
          [] p = "dhan" -> DhanQuote(a, h)
          [] p = "upstox" -> IF MasterOf(s) = "full" THEN UpstoxQuote(a, h)
                             ELSE Ends("SYMBOL_NOT_FOUND", h)
          [] p = "angel" -> AngelQuote(a, h)
          [] p = "twelve_data" -> TwelveDataQuote(a, h)
          [] p = "alpha_vantage" -> AlphaVantageQuote(request[s].class, a, h)
          [] p = "coingecko" -> CoinGeckoQuote(a, h)
          [] p = "binance" -> BinanceQuote(a, h)

CandlesOf(s, a) ==
    LET p == Asked(s)
        h == HealthOf(s)
        tf == request[s].tf
    IN  CASE p = "alpaca" -> AlpacaCandles(a, h, tf)
          [] p = "dhan" -> DhanCandles(a, h, tf)
          [] p = "upstox" -> IF MasterOf(s) = "full" THEN UpstoxCandles(a, h, tf)
                             ELSE Ends("SYMBOL_NOT_FOUND", h)
          [] p = "angel" -> AngelCandles(a, h, tf)
          [] p = "twelve_data" -> TwelveDataCandles(a, h, tf)
          [] p = "alpha_vantage" -> AlphaVantageCandles(request[s].class, a, h, tf)
          [] p = "coingecko" -> CoinGeckoCandles(a, h)
          [] p = "binance" -> BinanceCandles(a, h)

Search(s, a) ==
    LET p == Asked(s)
        h == HealthOf(s)
    IN  CASE p = "alpaca" -> AlpacaSearch(a, h)
          [] p = "upstox" -> Ends(IF MasterOf(s) = "full" THEN "DATA" ELSE "SYMBOL_NOT_FOUND", h)
          [] p = "twelve_data" -> TwelveDataSearch(a, h)
          [] p = "coingecko" -> CoinGeckoSearch(a, h)
          [] p = "binance" -> BinanceSearch(a, h)
          [] p = "dhan" -> MasterSearch(a, h)
          [] OTHER -> OwnListSearch(h)

Outcome(s, a) ==
    CASE request[s].kind = "quote" -> QuoteOf(s, a)
      [] request[s].kind = "candles" -> CandlesOf(s, a)
      [] request[s].kind = "search" -> Search(s, a)

-----------------------------------------------------------------------------
\* Mutant: the count of the attempts starts again.
RetryForgets(s, a) ==
    /\ Active(s) /\ ~Skips(s)
    /\ Asked(s) # "binance"
    /\ a \in Transient
    /\ request' = [request EXCEPT ![s].tries = (@ + 1) % Attempts]
    /\ UNCHANGED <<routers, begun>>

\* throttled_request: another attempt.  ccxt has retries of its own.
Retry(s, a) ==
    /\ Active(s) /\ ~Skips(s)
    /\ Asked(s) # "binance"
    /\ a \in Transient
    /\ request[s].tries < Attempts - 1
    /\ request' = [request EXCEPT ![s].tries = @ + 1]
    /\ UNCHANGED <<routers, begun>>

Skip(s) ==
    /\ Active(s)
    /\ Skips(s)
    /\ request' = [request EXCEPT ![s].todo = Tail(@), ![s].tries = 0,
           ![s].code = IF Len(request[s].todo) = 1 THEN "DATA" ELSE None]
    /\ UNCHANGED <<routers, begun>>

\* An answer is the last of its attempts unless it is transient and there are more.
Final(s, a) == a \in Transient /\ Asked(s) # "binance" => request[s].tries = Attempts - 1

\* Mutant: the first failure of a candles request is its last.
EndingAtOnce(s, code) ==
    IF request[s].kind = "search" /\ Len(request[s].todo) > 1 THEN None
    ELSE IF code = "NO_BARS" THEN "DATA_UNAVAILABLE" ELSE code

(***************************************************************************)
(* The provider's result.  A quote ends with it.  Candles end with data or *)
(* a foreign exception, and otherwise go on to the next candidate; a       *)
(* search ends early only with a foreign exception.                        *)
(***************************************************************************)
Ending(s, code) ==
    LET r == request[s] IN
    IF code = "EXCEPTION" THEN code
    ELSE IF r.kind = "search" THEN IF Len(r.todo) = 1 THEN "DATA" ELSE None
    ELSE IF r.kind = "candles" /\ Len(r.todo) > 1 /\ code # "DATA" THEN None
    ELSE IF code = "NO_BARS" THEN "DATA_UNAVAILABLE"
    ELSE code

Advance(s, out) ==
    request' = [request EXCEPT
        ![s].code = Ending(s, out.code),
        ![s].from = IF out.code = "DATA" THEN Asked(s) ELSE None,
        ![s].tried = IF request[s].kind = "candles" THEN @ \union {Asked(s)} ELSE @,
        ![s].todo = Tail(@),
        ![s].tries = 0]

\* Mutant: an adapter that answers is READY.
RecordedByAnswer(s, out) ==
    routers' = [routers EXCEPT ![request[s].on].health[Asked(s)] =
                    IF out.code = "DATA" THEN "READY" ELSE out.health]

\* The state the adapter is left in.
Recorded(s, out) ==
    routers' = [routers EXCEPT ![request[s].on].health[Asked(s)] = out.health]

Reply(s, a) ==
    /\ Active(s) /\ ~Skips(s) /\ ~LogsIn(s) /\ ~LoadsMaster(s)
    /\ Final(s, a)
    /\ a = "cached" => request[s].kind = "search"
    /\ LET out == Outcome(s, a)
       IN  Advance(s, out) /\ Recorded(s, out)
    /\ UNCHANGED begun

\* angel: the request goes on once there is a session.
Login(s, a) ==
    /\ Active(s) /\ LogsIn(s)
    /\ Final(s, a)
    /\ LET out == AngelLogin(a, HealthOf(s))
       IN  IF out.code = "BODY"
           THEN /\ routers' = [routers EXCEPT ![request[s].on].session = TRUE,
                                              ![request[s].on].health["angel"] = "READY"]
                /\ request' = [request EXCEPT ![s].tries = 0]
           ELSE Advance(s, out) /\ Recorded(s, out)
    /\ UNCHANGED begun

\* upstox: an exchange whose master is there is asked for again unless the last
\* load of any exchange is fresh; a failed load leaves an empty master.
LoadMaster(s, a) ==
    LET x == Segment(request[s].class) IN
    /\ Active(s) /\ ~Skips(s) /\ LoadsMaster(s)
    /\ Final(s, a)
    /\ routers' = [routers EXCEPT
           ![request[s].on].master[x] = IF a = "good" THEN "full" ELSE "bad",
           ![request[s].on].fresh = @ \/ a = "good"]
    /\ request' = IF a = "good" \/ On(s).fresh THEN [request EXCEPT ![s].tries = 0]
                  ELSE [request EXCEPT
                          ![s].code = Ending(s, "SYMBOL_NOT_FOUND"),
                          ![s].tried = IF request[s].kind = "candles" THEN @ \union {"upstox"} ELSE @,
                          ![s].todo = Tail(@),
                          ![s].tries = 0]
    /\ UNCHANGED begun

Answered(s) ==
    /\ request[s] # NoRequest /\ request[s].code # None
    /\ request' = [request EXCEPT ![s] = NoRequest]
    /\ UNCHANGED <<routers, begun>>

Work(s) ==
    \/ \E a \in Answers : Retry(s, a) \/ Reply(s, a) \/ Login(s, a) \/ LoadMaster(s, a)
    \/ Skip(s)
    \/ Answered(s)

Ask(s) ==
    \/ \E c \in Classes : "quote" \in Kinds /\ AskQuote(s, c)
    \/ \E c \in Classes, tf \in Timeframes : "candles" \in Kinds /\ AskCandles(s, c, tf)
    \/ "search" \in Kinds /\ AskSearch(s)

MarketNext == (\E s \in Slots : Ask(s) \/ Work(s)) \/ Rebuild

MarketSpec ==
    /\ MarketInit /\ [][MarketNext]_marketVars
    /\ \A s \in Slots : WF_marketVars(Work(s))

-----------------------------------------------------------------------------
(***************************************************************************)
(* Candles are refused only after every provider of the route was asked,   *)
(* however the health of the providers changed meanwhile; only a foreign   *)
(* exception ends a request earlier (MarketRouter.get_candles).            *)
(***************************************************************************)
GaveUpOnAll ==
    \A s \in Slots :
        request[s].kind = "candles" /\ request[s].code \notin {None, "DATA", "EXCEPTION"} =>
            request[s].tried = ToSet(Routes[request[s].class])

(***************************************************************************)
(* No answer makes a provider READY again: a router keeps OFFLINE,         *)
(* RATE_LIMITED and AUTH_FAILED for its whole life, but for the three      *)
(* adapters that set READY when they load a list or log in.  Only a new    *)
(* router returns the others to the head of their routes (providers/_get). *)
(***************************************************************************)
NeverReadyAgain ==
    [][\A g \in 1..Len(routers), p \in Providers \ {"binance", "coingecko", "angel"} :
          routers[g].health[p] # "READY" => routers'[g].health[p] # "READY"]_marketVars

(***************************************************************************)
(* Every request is answered: attempts are bounded, and so are the         *)
(* candidates (throttled_request, get_candles, search_instruments).        *)
(***************************************************************************)
RequestsEnd == \A s \in Slots : request[s] # NoRequest ~> request[s] = NoRequest

(***************************************************************************)
(* "fail over to a compatible fallback on OFFLINE / RATE_LIMITED states"   *)
(* (market_router.py:6): a quote is not asked of a provider that is not    *)
(* usable while the route has one that is.                                 *)
(***************************************************************************)
PicksUsable ==
    [][\A s \in Slots :
          request[s] = NoRequest /\ request'[s].kind = "quote" =>
            LET router == routers[Len(routers)] IN
            (\E p \in ToSet(Routes[request'[s].class]) : Usable(router, p))
                => Usable(router, request'[s].picked)]_marketVars

=============================================================================
