-------------------------- MODULE ProviderAdapters --------------------------
(***************************************************************************)
(* providers/*: what each adapter makes of the answer of its service.  An  *)
(* answer is a member of Answers, an adapter's result is a code and the    *)
(* health state it leaves behind.                                          *)
(*                                                                         *)
(* The services are external: Answers lists what they may send.  The code  *)
(* EXCEPTION stands for a Python exception that is no ProviderError.       *)
(***************************************************************************)
CONSTANTS
    Configured,     \* providers with credentials, from the vault or the environment
    PyotpInstalled  \* `import pyotp` succeeds

Http == [a \in {"http429", "http401", "http404", "http500"} |->
    CASE a = "http429" -> "PROVIDER_RATE_LIMITED"
      [] a = "http401" -> "PROVIDER_AUTH_FAILED"
      [] a = "http404" -> "SYMBOL_NOT_FOUND"
      [] a = "http500" -> "PROVIDER_OFFLINE"]

\* limitBody and errorBody are bodies of status 200 that report an error;
\* "cached" is a search that finds its list in memory and calls nobody.
Refusals == {"limitBody", "errorBody"}
Answers == DOMAIN Http \union Refusals
              \union {"good", "empty", "malformed", "notJson", "silent", "cached"}

\* rate_limit.TRANSIENT, and a transport error.
Transient == {"http429", "http500", "silent"}

HealthStates == {"READY", "DEGRADED", "RATE_LIMITED", "AUTH_REQUIRED", "AUTH_FAILED", "OFFLINE"}
Codes == {Http[a] : a \in DOMAIN Http} \union
    {"DATA", "NO_BARS", "EXCEPTION", "PROVIDER_BAD_RESPONSE", "DATA_UNAVAILABLE",
     "TIMEFRAME_UNSUPPORTED"}

Ends(code, h) == [code |-> code, health |-> h]
Body(h) == Ends("BODY", h)
Unauthorised == Ends("PROVIDER_AUTH_FAILED", "AUTH_REQUIRED")

-----------------------------------------------------------------------------
(***************************************************************************)
(* The request, check_status and the reading of the JSON body, in the      *)
(* order of every _get but that of angel; body is what comes after them.   *)
(***************************************************************************)
Checked(a, h, body) ==
    CASE a = "silent" -> Ends("PROVIDER_OFFLINE", "OFFLINE")
      [] a \in DOMAIN Http -> Ends(Http[a], h)
      [] a = "notJson" -> Ends("EXCEPTION", h)
      [] OTHER -> body

AlpacaGet(a, h) ==
    IF "alpaca" \notin Configured THEN Unauthorised
    ELSE Checked(a, h, IF a \in Refusals THEN Ends("PROVIDER_AUTH_FAILED", "AUTH_FAILED")
                       ELSE Body(h))

DhanGet(a, h) ==
    IF "dhan" \notin Configured THEN Unauthorised
    ELSE Checked(a, h, IF a = "limitBody" THEN Ends("PROVIDER_RATE_LIMITED", "RATE_LIMITED")
                       ELSE Body(h))

UpstoxGet(a, h) ==
    IF "upstox" \notin Configured THEN Unauthorised
    ELSE Checked(a, h, IF a \in Refusals THEN Ends("PROVIDER_AUTH_FAILED", "AUTH_FAILED")
                       ELSE Body(h))

TwelveDataGet(a, h) ==
    Checked(a, h, CASE a = "limitBody" -> Ends("PROVIDER_RATE_LIMITED", "RATE_LIMITED")
                    [] a = "errorBody" -> Ends("PROVIDER_BAD_RESPONSE", h)
                    [] OTHER -> Body(h))

AlphaVantageGet(a, h) ==
    IF "alpha_vantage" \notin Configured THEN Unauthorised
    ELSE TwelveDataGet(a, h)

CoinGeckoGet(a, h) == Checked(a, h, Body(h))

\* The body is read before the status, and only 429 is looked at: the other
\* errors are bodies with a false "status".
AngelGet(a, h) ==
    CASE a = "silent" -> Ends("PROVIDER_OFFLINE", "OFFLINE")
      [] a = "notJson" -> Ends("EXCEPTION", h)
      [] a = "http429" -> Ends("PROVIDER_RATE_LIMITED", "RATE_LIMITED")
      [] a \in (DOMAIN Http \ {"http429"}) \union Refusals -> Ends("PROVIDER_BAD_RESPONSE", h)
      [] OTHER -> Body(h)

\* "BODY" means that a session was opened.
AngelLogin(a, h) ==
    IF "angel" \notin Configured \/ ~PyotpInstalled THEN Unauthorised
    ELSE CASE a = "silent" -> Ends("PROVIDER_AUTH_FAILED", "AUTH_FAILED")
           [] a = "good" -> Body("READY")
           [] OTHER -> Checked(a, h, Ends("PROVIDER_AUTH_FAILED", "AUTH_FAILED"))

-----------------------------------------------------------------------------
\* What is made of a body: nothing in it, or something that is no number.
Parsed(get, a, nothing, malformed) ==
    IF get.code # "BODY" THEN get
    ELSE Ends(CASE a = "good" -> "DATA"
                [] a = "malformed" -> malformed
                [] OTHER -> nothing, get.health)

\* The adapters' timeframe tables lack what the router's TIMEFRAMES has.
Lacks == [p \in {"alpaca", "dhan", "upstox", "angel", "twelve_data", "alpha_vantage"} |->
    CASE p \in {"alpaca", "twelve_data"} -> {"3m"}
      [] p = "alpha_vantage" -> {"1m", "3m", "4h"}
      [] OTHER -> {"3m", "4h"}]
InTime(p, tf, h, candles) ==
    IF tf \in Lacks[p] THEN Ends("TIMEFRAME_UNSUPPORTED", h) ELSE candles

AlpacaQuote(a, h) == Parsed(AlpacaGet(a, h), a, "DATA_UNAVAILABLE", "EXCEPTION")
AlpacaCandles(a, h, tf) ==
    InTime("alpaca", tf, h, Parsed(AlpacaGet(a, h), a, "NO_BARS", "PROVIDER_BAD_RESPONSE"))
AlpacaSearch(a, h) ==
    IF "alpaca" \notin Configured THEN Ends("PROVIDER_AUTH_FAILED", h)
    ELSE Parsed(AlpacaGet(a, h), a, "DATA", "EXCEPTION")

DhanQuote(a, h) == Parsed(DhanGet(a, h), a, "DATA_UNAVAILABLE", "EXCEPTION")
DhanCandles(a, h, tf) ==
    InTime("dhan", tf, h, Parsed(DhanGet(a, h), a,
        IF a = "errorBody" THEN "SYMBOL_NOT_FOUND" ELSE "NO_BARS", "PROVIDER_BAD_RESPONSE"))

UpstoxQuote(a, h) == Parsed(UpstoxGet(a, h), a, "DATA_UNAVAILABLE", "EXCEPTION")
UpstoxCandles(a, h, tf) ==
    InTime("upstox", tf, h, Parsed(UpstoxGet(a, h), a, "NO_BARS", "PROVIDER_BAD_RESPONSE"))

AngelQuote(a, h) == Parsed(AngelGet(a, h), a, "DATA_UNAVAILABLE", "EXCEPTION")
AngelCandles(a, h, tf) ==
    InTime("angel", tf, h, Parsed(AngelGet(a, h), a, "NO_BARS", "PROVIDER_BAD_RESPONSE"))

TwelveDataQuote(a, h) ==
    Parsed(TwelveDataGet(a, h), a, "DATA_UNAVAILABLE", "DATA_UNAVAILABLE")
TwelveDataCandles(a, h, tf) ==
    InTime("twelve_data", tf, h,
           Parsed(TwelveDataGet(a, h), a, "NO_BARS", "PROVIDER_BAD_RESPONSE"))
TwelveDataSearch(a, h) == Parsed(TwelveDataGet(a, h), a, "DATA", "EXCEPTION")

\* Shares are refused without a call.  Monthly commodity series skip what is
\* no number, and have no timeframe.
AlphaVantageQuote(class, a, h) ==
    CASE class = "FOREX" -> Parsed(AlphaVantageGet(a, h), a, "DATA_UNAVAILABLE", "DATA_UNAVAILABLE")
      [] class = "COMMODITY" -> Parsed(AlphaVantageGet(a, h), a, "DATA_UNAVAILABLE", "EXCEPTION")
      [] OTHER -> Ends("DATA_UNAVAILABLE", h)
AlphaVantageCandles(class, a, h, tf) ==
    CASE class = "FOREX" -> InTime("alpha_vantage", tf, h,
             Parsed(AlphaVantageGet(a, h), a, "DATA_UNAVAILABLE", "PROVIDER_BAD_RESPONSE"))
      [] class = "COMMODITY" ->
             Parsed(AlphaVantageGet(a, h), a, "DATA_UNAVAILABLE", "DATA_UNAVAILABLE")
      [] OTHER -> Ends("DATA_UNAVAILABLE", h)

CoinGeckoQuote(a, h) == Parsed(CoinGeckoGet(a, h), a, "SYMBOL_NOT_FOUND", "EXCEPTION")
CoinGeckoCandles(a, h) == Parsed(CoinGeckoGet(a, h), a, "DATA_UNAVAILABLE", "EXCEPTION")

\* ccxt raises for every answer that is not one of these three, and the adapter
\* catches all it raises.  A quote is passed on as it is.
CcxtAnswers == {"good", "empty", "malformed"}
BinanceQuote(a, h) == Ends(IF a \in CcxtAnswers THEN "DATA" ELSE "PROVIDER_OFFLINE", h)
BinanceCandles(a, h) ==
    Ends(CASE a = "good" -> "DATA"
           [] a = "empty" -> "NO_BARS"
           [] a = "malformed" -> "EXCEPTION"
           [] OTHER -> "PROVIDER_OFFLINE", h)

\* Searches that load a list first and keep it, for an hour or a day; a failure
\* to load leaves nothing to find.  dhan keeps whatever it was sent for a master,
\* the page of an HTTP error too.
BinanceSearch(a, h) ==
    CASE a = "good" -> Ends("DATA", "READY")
      [] a = "cached" -> Ends("DATA", h)
      [] a \in {"empty", "malformed"} -> Ends("SYMBOL_NOT_FOUND", "READY")
      [] OTHER -> Ends("SYMBOL_NOT_FOUND", "OFFLINE")
CoinGeckoSearch(a, h) ==
    CASE a = "good" -> Ends("DATA", "READY")
      [] a = "cached" -> Ends("DATA", h)
      [] a = "empty" -> Ends("SYMBOL_NOT_FOUND", "READY")
      [] a \in {"malformed", "notJson"} \union Refusals -> Ends("SYMBOL_NOT_FOUND", h)
      [] OTHER -> Checked(a, h, Body(h))
MasterSearch(a, h) == Ends(IF a \in {"good", "cached"} THEN "DATA" ELSE "SYMBOL_NOT_FOUND", h)

\* angel and alpha_vantage search a list of their own.
OwnListSearch(h) == Ends("DATA", h)

=============================================================================
