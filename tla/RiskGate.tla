------------------------------ MODULE RiskGate ------------------------------
(***************************************************************************)
(* The state of the risk engine, backend/app/risk.py: execution mode,      *)
(* armed brokers, emergency stop, shield, circuit breaker and the          *)
(* reconciliation gate, all module globals of one process and lost with    *)
(* it.  Each function of risk.py that changes them is one action here,     *)
(* and the pre-trade checklist is the predicate Check.                     *)
(*                                                                         *)
(* OrderExecution composes these actions with order placement.             *)
(* RiskHandlers looks inside them, one assignment at a time.               *)
(***************************************************************************)
EXTENDS Naturals

CONSTANTS
    Brokers,                \* adapters of the BrokerManager, Paper among them
    Paper,                  \* the simulated broker, always connected
    StartMode,              \* config.MODE, from PUNCH_MODE
    DemoToken,              \* TRUE when PUNCH_TOKEN is left at its default
    CircuitBreakerLosses    \* losing trades in a row that open the breaker

VALID_MODES == {"research", "paper", "live"}

ASSUME RiskGateAssumption ==
    /\ Paper \in Brokers
    /\ StartMode \in VALID_MODES
    /\ DemoToken \in BOOLEAN
    /\ StartMode = "live" => ~DemoToken         \* config.validate_config
    /\ CircuitBreakerLosses \in Nat \ {0}

VARIABLES
    mode, armed, emergencyStop, shieldOn,
    consecutiveLosses, breakerOpen, reconOk

modeVars == <<mode, armed, emergencyStop>>
breakerVars == <<consecutiveLosses, breakerOpen>>
riskVars == <<modeVars, shieldOn, breakerVars, reconOk>>

RiskTypeOK ==
    /\ mode \in VALID_MODES
    /\ armed \subseteq Brokers \ {Paper}
    /\ emergencyStop \in BOOLEAN
    /\ shieldOn \in BOOLEAN
    /\ consecutiveLosses \in Nat
    /\ breakerOpen \in BOOLEAN
    /\ reconOk \in BOOLEAN

RiskInit ==
    /\ mode = StartMode
    /\ armed = {}
    /\ emergencyStop = FALSE
    /\ shieldOn = FALSE
    /\ consecutiveLosses = 0
    /\ breakerOpen = FALSE
    /\ reconOk = TRUE

\* A new process: every global is back at its initial value.
RiskReset ==
    /\ mode' = StartMode
    /\ armed' = {}
    /\ emergencyStop' = FALSE
    /\ shieldOn' = FALSE
    /\ consecutiveLosses' = 0
    /\ breakerOpen' = FALSE
    /\ reconOk' = TRUE

(***************************************************************************)
(* The functions of risk.py that change state.                             *)
(***************************************************************************)
SetMode(m) ==
    /\ m = "live" => ~DemoToken
    /\ mode' = m
    /\ armed' = IF m = "live" THEN armed ELSE {}
    /\ emergencyStop' = FALSE
    /\ UNCHANGED <<shieldOn, breakerVars, reconOk>>

\* Mutant: the paper broker can be armed too.
ArmAny(b) ==
    /\ mode = "live"
    /\ armed' = armed \union {b}
    /\ UNCHANGED <<mode, emergencyStop, shieldOn, breakerVars, reconOk>>

Arm(b) ==
    /\ mode = "live"
    /\ b # Paper
    /\ armed' = armed \union {b}
    /\ UNCHANGED <<mode, emergencyStop, shieldOn, breakerVars, reconOk>>

Stop ==
    /\ mode' = "research"
    /\ armed' = {}
    /\ emergencyStop' = TRUE
    /\ UNCHANGED <<shieldOn, breakerVars, reconOk>>

SetShield(on) ==
    /\ shieldOn' = on
    /\ UNCHANGED <<modeVars, breakerVars, reconOk>>

RecordTradeResult(win) ==
    /\ consecutiveLosses' = IF win THEN 0 ELSE consecutiveLosses + 1
    /\ breakerOpen' = (~win /\ (breakerOpen \/ consecutiveLosses + 1 >= CircuitBreakerLosses))
    /\ UNCHANGED <<modeVars, shieldOn, reconOk>>

ResetBreaker ==
    /\ consecutiveLosses' = 0
    /\ breakerOpen' = FALSE
    /\ UNCHANGED <<modeVars, shieldOn, reconOk>>

SetReconciliationOk(ok) ==
    /\ reconOk' = ok
    /\ UNCHANGED <<modeVars, shieldOn, breakerVars>>

(***************************************************************************)
(* The pre-trade checklist.  The code raises on the first rule that fails; *)
(* which one it was only changes the code reported to the client.          *)
(***************************************************************************)
Check(b, feedFresh, signalFresh) ==
    /\ ~shieldOn
    /\ mode # "research"
    /\ b # Paper => mode = "live" /\ b \in armed
    /\ ~breakerOpen
    /\ b # Paper => reconOk
    /\ feedFresh
    /\ signalFresh

=============================================================================
