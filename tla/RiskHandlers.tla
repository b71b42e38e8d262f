---------------------------- MODULE RiskHandlers ----------------------------
(***************************************************************************)
(* The risk engine one assignment at a time.  The /api/system/* and        *)
(* /api/risk/* endpoints are plain functions, which FastAPI runs in a      *)
(* thread pool, and risk.py takes no lock: two requests interleave between *)
(* any two of their assignments.  Trade results come from the event loop,  *)
(* which is one more thread.                                               *)
(*                                                                         *)
(* A handler that starts performs its tests and its first assignment; at   *)
(* names the assignment it will perform next.                              *)
(***************************************************************************)
EXTENDS RiskGate

CONSTANTS
    Threads,    \* workers of the thread pool
    Loop,       \* the event loop thread
    MaxLosses   \* bound of the model: the loss counter is followed up to here

ASSUME RiskHandlersAssumption ==
    /\ Loop \notin Threads
    /\ MaxLosses \in Nat

VARIABLES
    at,         \* at[t]: the next assignment of t's handler, or "idle"
    arming,     \* arming[t]: the broker t's arm() is about to append
    modeRace,   \* history: two of set_mode, arm and stop have overlapped
    breakerRace \* history: a reset has overlapped a trade result or a reset

Actors == Threads \union {Loop}
vars == <<riskVars, at, arming, modeRace, breakerRace>>

ModeSteps == {"mode.disarm", "mode.stopflag", "arm.append", "stop.disarm", "stop.stopflag"}
BreakerSteps == {"loss.test", "loss.open", "win.close", "reset.close"}

InMode(t) == at[t] \in ModeSteps
InBreaker(t) == at[t] \in BreakerSteps
NoModeHandler == \A t \in Actors : ~InMode(t)
NoBreakerHandler == \A t \in Actors : ~InBreaker(t)

TypeOK ==
    /\ RiskTypeOK
    /\ at \in [Actors -> {"idle"} \union ModeSteps \union BreakerSteps]
    /\ arming \in [Actors -> Brokers]
    /\ modeRace \in BOOLEAN
    /\ breakerRace \in BOOLEAN

Init ==
    /\ RiskInit
    /\ at = [t \in Actors |-> "idle"]
    /\ arming = [t \in Actors |-> Paper]
    /\ modeRace = FALSE
    /\ breakerRace = FALSE

Goto(t, step) == at' = [at EXCEPT ![t] = step]
MarkModeRace == modeRace' = (modeRace \/ ~NoModeHandler)
MarkBreakerRace == breakerRace' = (breakerRace \/ ~NoBreakerHandler)

(***************************************************************************)
(* set_mode: _mode, then _armed.clear() unless live, then the stop flag.   *)
(***************************************************************************)
SetModeCall(t, m) ==
    /\ at[t] = "idle"
    /\ m = "live" => ~DemoToken
    /\ mode' = m
    /\ Goto(t, IF m = "live" THEN "mode.stopflag" ELSE "mode.disarm")
    /\ MarkModeRace
    /\ UNCHANGED <<armed, emergencyStop, shieldOn, breakerVars, reconOk, arming, breakerRace>>

SetModeDisarm(t) ==
    /\ at[t] = "mode.disarm"
    /\ armed' = {}
    /\ Goto(t, "mode.stopflag")
    /\ UNCHANGED <<mode, emergencyStop, shieldOn, breakerVars, reconOk,
                   arming, modeRace, breakerRace>>

SetModeStopFlag(t) ==
    /\ at[t] = "mode.stopflag"
    /\ emergencyStop' = FALSE
    /\ Goto(t, "idle")
    /\ UNCHANGED <<mode, armed, shieldOn, breakerVars, reconOk,
                   arming, modeRace, breakerRace>>

(***************************************************************************)
(* arm: the tests, then the append.                                        *)
(***************************************************************************)
\* Mutant: the paper broker can be armed too.
ArmAnyCall(t, b) ==
    /\ at[t] = "idle"
    /\ mode = "live"
    /\ arming' = [arming EXCEPT ![t] = b]
    /\ Goto(t, "arm.append")
    /\ MarkModeRace
    /\ UNCHANGED <<riskVars, breakerRace>>

ArmCall(t, b) ==
    /\ at[t] = "idle"
    /\ mode = "live"
    /\ b # Paper
    /\ b \notin armed
    /\ arming' = [arming EXCEPT ![t] = b]
    /\ Goto(t, "arm.append")
    /\ MarkModeRace
    /\ UNCHANGED <<riskVars, breakerRace>>

ArmAppend(t) ==
    /\ at[t] = "arm.append"
    /\ armed' = armed \union {arming[t]}
    /\ Goto(t, "idle")
    /\ UNCHANGED <<mode, emergencyStop, shieldOn, breakerVars, reconOk,
                   arming, modeRace, breakerRace>>

(***************************************************************************)
(* stop: _mode, then _armed.clear(), then the stop flag.                   *)
(***************************************************************************)
StopCall(t) ==
    /\ at[t] = "idle"
    /\ mode' = "research"
    /\ Goto(t, "stop.disarm")
    /\ MarkModeRace
    /\ UNCHANGED <<armed, emergencyStop, shieldOn, breakerVars, reconOk, arming, breakerRace>>

\* Mutant: stop leaves the brokers armed.
StopForgetsArmed(t) ==
    /\ at[t] = "stop.disarm"
    /\ Goto(t, "stop.stopflag")
    /\ UNCHANGED <<riskVars, arming, modeRace, breakerRace>>

StopDisarm(t) ==
    /\ at[t] = "stop.disarm"
    /\ armed' = {}
    /\ Goto(t, "stop.stopflag")
    /\ UNCHANGED <<mode, emergencyStop, shieldOn, breakerVars, reconOk,
                   arming, modeRace, breakerRace>>

StopFlag(t) ==
    /\ at[t] = "stop.stopflag"
    /\ emergencyStop' = TRUE
    /\ Goto(t, "idle")
    /\ UNCHANGED <<mode, armed, shieldOn, breakerVars, reconOk,
                   arming, modeRace, breakerRace>>

(***************************************************************************)
(* record_trade_result, on the event loop: the counter, the test, the      *)
(* breaker.  reset_breaker, on a worker: the counter, the breaker.         *)
(***************************************************************************)
LossCall ==
    /\ at[Loop] = "idle"
    /\ consecutiveLosses < MaxLosses
    /\ consecutiveLosses' = consecutiveLosses + 1
    /\ Goto(Loop, "loss.test")
    /\ MarkBreakerRace
    /\ UNCHANGED <<modeVars, shieldOn, breakerOpen, reconOk, arming, modeRace>>

\* Mutant: the breaker opens one loss late.
LossTestLate ==
    /\ at[Loop] = "loss.test"
    /\ Goto(Loop, IF consecutiveLosses > CircuitBreakerLosses THEN "loss.open" ELSE "idle")
    /\ UNCHANGED <<riskVars, arming, modeRace, breakerRace>>

LossTest ==
    /\ at[Loop] = "loss.test"
    /\ Goto(Loop, IF consecutiveLosses >= CircuitBreakerLosses THEN "loss.open" ELSE "idle")
    /\ UNCHANGED <<riskVars, arming, modeRace, breakerRace>>

LossOpen ==
    /\ at[Loop] = "loss.open"
    /\ breakerOpen' = TRUE
    /\ Goto(Loop, "idle")
    /\ UNCHANGED <<modeVars, shieldOn, consecutiveLosses, reconOk,
                   arming, modeRace, breakerRace>>

WinCall ==
    /\ at[Loop] = "idle"
    /\ consecutiveLosses' = 0
    /\ Goto(Loop, "win.close")
    /\ MarkBreakerRace
    /\ UNCHANGED <<modeVars, shieldOn, breakerOpen, reconOk, arming, modeRace>>

WinClose ==
    /\ at[Loop] = "win.close"
    /\ breakerOpen' = FALSE
    /\ Goto(Loop, "idle")
    /\ UNCHANGED <<modeVars, shieldOn, consecutiveLosses, reconOk,
                   arming, modeRace, breakerRace>>

ResetCall(t) ==
    /\ at[t] = "idle"
    /\ consecutiveLosses' = 0
    /\ Goto(t, "reset.close")
    /\ MarkBreakerRace
    /\ UNCHANGED <<modeVars, shieldOn, breakerOpen, reconOk, arming, modeRace>>

ResetClose(t) ==
    /\ at[t] = "reset.close"
    /\ breakerOpen' = FALSE
    /\ Goto(t, "idle")
    /\ UNCHANGED <<modeVars, shieldOn, consecutiveLosses, reconOk,
                   arming, modeRace, breakerRace>>

Next ==
    \/ \E t \in Threads :
        \/ \E m \in VALID_MODES : SetModeCall(t, m)
        \/ SetModeDisarm(t) \/ SetModeStopFlag(t)
        \/ \E b \in Brokers : ArmCall(t, b)
        \/ ArmAppend(t)
        \/ StopCall(t) \/ StopDisarm(t) \/ StopFlag(t)
        \/ ResetCall(t) \/ ResetClose(t)
    \/ LossCall \/ LossTest \/ LossOpen
    \/ WinCall \/ WinClose

Spec == Init /\ [][Next]_vars

-----------------------------------------------------------------------------
(***************************************************************************)
(* Between mode requests that never overlapped, only LIVE mode has armed   *)
(* brokers and an emergency stop still in force means research mode        *)
(* (risk.stop, risk.set_mode and risk.arm together).                       *)
(***************************************************************************)
SerialModeSafe ==
    ~modeRace /\ NoModeHandler =>
        /\ armed # {} => mode = "live"
        /\ emergencyStop => mode = "research"

(***************************************************************************)
(* Between breaker calls that never overlapped, the breaker is open        *)
(* exactly when the losing streak has reached the limit                    *)
(* (risk.record_trade_result with risk.reset_breaker).                     *)
(***************************************************************************)
SerialBreakerExact ==
    ~breakerRace /\ NoBreakerHandler =>
        (breakerOpen <=> consecutiveLosses >= CircuitBreakerLosses)

(***************************************************************************)
(* "Entering live never auto-arms anything" (risk.py:64): when no handler  *)
(* is half way, a switch to LIVE finds no broker armed.                    *)
(***************************************************************************)
EnteringLiveArmsNothing ==
    [][NoModeHandler /\ mode # "live" /\ mode' = "live" => armed = {}]_vars

=============================================================================
