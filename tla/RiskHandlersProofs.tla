------------------------- MODULE RiskHandlersProofs -------------------------
(***************************************************************************)
(* SerialModeSafe and SerialBreakerExact for any set of workers, any set   *)
(* of brokers and any breaker limit.  Neither is inductive: what makes     *)
(* them so is what each half-way handler has left to do.                   *)
(***************************************************************************)
EXTENDS RiskHandlers, TLAPS

\* TypeOK in two halves: the flags, and what ranges over data.
Flags ==
    /\ emergencyStop \in BOOLEAN /\ shieldOn \in BOOLEAN
    /\ breakerOpen \in BOOLEAN /\ reconOk \in BOOLEAN
    /\ modeRace \in BOOLEAN /\ breakerRace \in BOOLEAN

Data ==
    /\ mode \in VALID_MODES
    /\ armed \subseteq Brokers \ {Paper}
    /\ consecutiveLosses \in Nat
    /\ at \in [Actors -> {"idle"} \union ModeSteps \union BreakerSteps]
    /\ arming \in [Actors -> Brokers]
    \* arm refuses the paper broker before it gets to its append.
    /\ \A t \in Actors : at[t] = "arm.append" => arming[t] # Paper

\* Every flag of the risk engine and of the history stays a Boolean.
LEMMA FlagsTyping == Spec => []Flags
<1>1. Init => Flags
  BY DEF Init, RiskInit, Flags
<1>2. Flags /\ [Next]_vars => Flags'
  <2> SUFFICES ASSUME Flags, [Next]_vars
               PROVE  Flags'
    OBVIOUS
  <2> USE DEF Flags, MarkModeRace, MarkBreakerRace, modeVars, breakerVars, riskVars
  <2>1. ASSUME NEW t \in Threads, NEW m \in VALID_MODES, SetModeCall(t, m)
        PROVE  Flags'
    BY <2>1 DEF SetModeCall
  <2>2. ASSUME NEW t \in Threads, SetModeDisarm(t) \/ SetModeStopFlag(t)
        PROVE  Flags'
    BY <2>2 DEF SetModeDisarm, SetModeStopFlag
  <2>3. ASSUME NEW t \in Threads, NEW b \in Brokers, ArmCall(t, b)
        PROVE  Flags'
    BY <2>3 DEF ArmCall
  <2>4. ASSUME NEW t \in Threads, ArmAppend(t)
        PROVE  Flags'
    BY <2>4 DEF ArmAppend
  <2>5. ASSUME NEW t \in Threads, StopCall(t) \/ StopDisarm(t) \/ StopFlag(t)
        PROVE  Flags'
    BY <2>5 DEF StopCall, StopDisarm, StopFlag
  <2>6. ASSUME NEW t \in Threads, ResetCall(t) \/ ResetClose(t)
        PROVE  Flags'
    BY <2>6 DEF ResetCall, ResetClose
  <2>7. CASE LossCall \/ LossTest \/ LossOpen
    BY <2>7 DEF LossCall, LossTest, LossOpen
  <2>8. CASE WinCall \/ WinClose
    BY <2>8 DEF WinCall, WinClose
  <2>9. CASE UNCHANGED vars
    BY <2>9 DEF vars
  <2> QED
    BY <2>1, <2>2, <2>3, <2>4, <2>5, <2>6, <2>7, <2>8, <2>9 DEF Next
<1> QED
  BY <1>1, <1>2, PTL DEF Spec

\* The rest of TypeOK, with arm.append's broker, is inductive by itself.
LEMMA DataTyping == Spec => []Data
<1> USE RiskGateAssumption, RiskHandlersAssumption
    DEF Data, VALID_MODES, RiskGateAssumption, RiskHandlersAssumption,
        Actors, ModeSteps, BreakerSteps
<1>1. Init => Data
  BY DEF Init, RiskInit
<1>2. Data /\ [Next]_vars => Data'
  <2> SUFFICES ASSUME Data, [Next]_vars
               PROVE  Data'
    OBVIOUS
  <2> USE DEF Goto, modeVars, breakerVars, riskVars
  <2>1. ASSUME NEW t \in Threads, NEW m \in VALID_MODES, SetModeCall(t, m)
        PROVE  Data'
    BY <2>1 DEF SetModeCall
  <2>2. ASSUME NEW t \in Threads, SetModeDisarm(t) \/ SetModeStopFlag(t)
        PROVE  Data'
    BY <2>2 DEF SetModeDisarm, SetModeStopFlag
  <2>3. ASSUME NEW t \in Threads, NEW b \in Brokers, ArmCall(t, b)
        PROVE  Data'
    BY <2>3 DEF ArmCall
  <2>4. ASSUME NEW t \in Threads, ArmAppend(t)
        PROVE  Data'
    BY <2>4 DEF ArmAppend
  <2>5. ASSUME NEW t \in Threads, StopCall(t) \/ StopDisarm(t) \/ StopFlag(t)
        PROVE  Data'
    BY <2>5 DEF StopCall, StopDisarm, StopFlag
  <2>6. ASSUME NEW t \in Threads, ResetCall(t) \/ ResetClose(t)
        PROVE  Data'
    BY <2>6 DEF ResetCall, ResetClose
  <2>7. CASE LossCall \/ LossTest \/ LossOpen
    BY <2>7 DEF LossCall, LossTest, LossOpen
  <2>8. CASE WinCall \/ WinClose
    BY <2>8 DEF WinCall, WinClose
  <2>9. CASE UNCHANGED vars
    BY <2>9 DEF vars
  <2> QED
    BY <2>1, <2>2, <2>3, <2>4, <2>5, <2>6, <2>7, <2>8, <2>9 DEF Next
<1> QED
  BY <1>1, <1>2, PTL DEF Spec

\* Every variable keeps its type over any interleaving of the handlers of
\* risk.py.
THEOREM Typing == Spec => []TypeOK
<1>1. Flags /\ Data => TypeOK
  BY DEF Flags, Data, TypeOK, RiskTypeOK
<1> QED
  BY <1>1, FlagsTyping, DataTyping, PTL

-----------------------------------------------------------------------------
(***************************************************************************)
(* While mode requests have not overlapped, at most one is half way, and   *)
(* what it has not yet assigned is what its position allows.               *)
(***************************************************************************)
ModeInv ==
    ~modeRace =>
        /\ \A t, u \in Actors : InMode(t) /\ InMode(u) => t = u
        /\ NoModeHandler => /\ armed # {} => mode = "live"
                            /\ emergencyStop => mode = "research"
        /\ \A t \in Actors :
            /\ at[t] = "mode.disarm" => mode # "live"
            /\ at[t] = "mode.stopflag" => (armed # {} => mode = "live")
            /\ at[t] = "arm.append" => mode = "live" /\ ~emergencyStop
            /\ at[t] = "stop.disarm" => mode = "research"
            /\ at[t] = "stop.stopflag" => mode = "research" /\ armed = {}

\* Only LIVE mode has armed brokers, and an emergency stop in force means
\* research mode, between mode requests that never overlapped.
THEOREM ModeSafety == Spec => []SerialModeSafe
<1> USE RiskHandlersAssumption
    DEF RiskHandlersAssumption, Actors, ModeSteps, BreakerSteps, InMode, NoModeHandler
<1>1. Init => ModeInv
  BY DEF Init, RiskInit, ModeInv
<1>2. Data /\ Flags /\ ModeInv /\ [Next]_vars => ModeInv'
  <2> SUFFICES ASSUME Data, Flags, ModeInv, [Next]_vars
               PROVE  ModeInv'
    OBVIOUS
  <2> USE DEF Data, Flags, ModeInv, Goto, MarkModeRace, MarkBreakerRace,
              modeVars, breakerVars, riskVars
  <2>1. ASSUME NEW t \in Threads, NEW m \in VALID_MODES, SetModeCall(t, m)
        PROVE  ModeInv'
    BY <2>1 DEF SetModeCall
  <2>2. ASSUME NEW t \in Threads, SetModeDisarm(t) \/ SetModeStopFlag(t)
        PROVE  ModeInv'
    BY <2>2 DEF SetModeDisarm, SetModeStopFlag
  <2>3. ASSUME NEW t \in Threads, NEW b \in Brokers, ArmCall(t, b)
        PROVE  ModeInv'
    BY <2>3 DEF ArmCall
  <2>4. ASSUME NEW t \in Threads, ArmAppend(t)
        PROVE  ModeInv'
    BY <2>4 DEF ArmAppend
  <2>5. ASSUME NEW t \in Threads, StopCall(t) \/ StopDisarm(t) \/ StopFlag(t)
        PROVE  ModeInv'
    BY <2>5 DEF StopCall, StopDisarm, StopFlag
  <2>6. ASSUME NEW t \in Threads, ResetCall(t) \/ ResetClose(t)
        PROVE  ModeInv'
    BY <2>6 DEF ResetCall, ResetClose
  <2>7. CASE LossCall \/ LossTest \/ LossOpen
    BY <2>7 DEF LossCall, LossTest, LossOpen
  <2>8. CASE WinCall \/ WinClose
    BY <2>8 DEF WinCall, WinClose
  <2>9. CASE UNCHANGED vars
    BY <2>9 DEF vars
  <2> QED
    BY <2>1, <2>2, <2>3, <2>4, <2>5, <2>6, <2>7, <2>8, <2>9 DEF Next
<1>3. ModeInv => SerialModeSafe
  BY DEF ModeInv, SerialModeSafe
<1> QED
  BY <1>1, <1>2, <1>3, DataTyping, FlagsTyping, PTL DEF Spec

-----------------------------------------------------------------------------
(***************************************************************************)
(* The same for the breaker: a half-way handler has already changed the    *)
(* counter, and the breaker is where the counter it found had left it.     *)
(***************************************************************************)
AtLimit == consecutiveLosses >= CircuitBreakerLosses
PastLimit == consecutiveLosses > CircuitBreakerLosses
NoLosses == consecutiveLosses = 0

BreakerInv ==
    ~breakerRace =>
        /\ \A t, u \in Actors : InBreaker(t) /\ InBreaker(u) => t = u
        /\ NoBreakerHandler => (breakerOpen <=> AtLimit)
        /\ \A t \in Actors :
            /\ at[t] = "loss.test" => (breakerOpen <=> PastLimit)
            /\ at[t] = "loss.open" => AtLimit
            /\ at[t] \in {"win.close", "reset.close"} => NoLosses

\* What the handlers of the breaker do to the counter, in terms of the limit.
LEMMA Counting ==
    ASSUME Data
    PROVE  /\ PastLimit => AtLimit
           /\ NoLosses => ~AtLimit
           /\ consecutiveLosses' = consecutiveLosses + 1 => (PastLimit' <=> AtLimit)
           /\ consecutiveLosses' = 0 => NoLosses' /\ ~AtLimit'
           /\ UNCHANGED consecutiveLosses =>
                UNCHANGED <<AtLimit, PastLimit, NoLosses>>
  BY RiskGateAssumption DEF RiskGateAssumption, Data, AtLimit, PastLimit, NoLosses

\* The breaker is open exactly when the losing streak has reached the limit,
\* between results and resets that never overlapped.
THEOREM BreakerSafety == Spec => []SerialBreakerExact
<1> USE RiskHandlersAssumption
    DEF RiskHandlersAssumption, Actors, ModeSteps, BreakerSteps, InBreaker, NoBreakerHandler
<1>1. Init => BreakerInv
  <2> SUFFICES ASSUME Init PROVE BreakerInv
    OBVIOUS
  <2>1. ~AtLimit
    BY RiskGateAssumption DEF RiskGateAssumption, Init, RiskInit, AtLimit
  <2> QED
    BY <2>1 DEF Init, RiskInit, BreakerInv
<1>2. Data /\ Flags /\ BreakerInv /\ [Next]_vars => BreakerInv'
  <2> SUFFICES ASSUME Data, Flags, BreakerInv, [Next]_vars
               PROVE  BreakerInv'
    OBVIOUS
  <2>0. at \in [Actors -> {"idle"} \union ModeSteps \union BreakerSteps]
    BY DEF Data
  <2> USE <2>0, Counting DEF Flags, BreakerInv, Goto, MarkModeRace, MarkBreakerRace,
              modeVars, breakerVars, riskVars
  <2>1. ASSUME NEW t \in Threads, NEW m \in VALID_MODES, SetModeCall(t, m)
        PROVE  BreakerInv'
    BY <2>1 DEF SetModeCall
  <2>2. ASSUME NEW t \in Threads, SetModeDisarm(t) \/ SetModeStopFlag(t)
        PROVE  BreakerInv'
    BY <2>2 DEF SetModeDisarm, SetModeStopFlag
  <2>3. ASSUME NEW t \in Threads, NEW b \in Brokers, ArmCall(t, b)
        PROVE  BreakerInv'
    BY <2>3 DEF ArmCall
  <2>4. ASSUME NEW t \in Threads, ArmAppend(t)
        PROVE  BreakerInv'
    BY <2>4 DEF ArmAppend
  <2>5. ASSUME NEW t \in Threads, StopCall(t) \/ StopDisarm(t) \/ StopFlag(t)
        PROVE  BreakerInv'
    BY <2>5 DEF StopCall, StopDisarm, StopFlag
  <2>6. ASSUME NEW t \in Threads, ResetCall(t) \/ ResetClose(t)
        PROVE  BreakerInv'
    BY <2>6 DEF ResetCall, ResetClose
  <2>7. CASE LossCall
    BY <2>7 DEF LossCall
  <2>8. CASE LossTest
    <3>1. at'[Loop] = "loss.open" => AtLimit
      BY <2>8 DEF LossTest, AtLimit
    <3>2. at'[Loop] # "loss.open" => ~AtLimit /\ at'[Loop] = "idle"
      BY <2>8 DEF LossTest, AtLimit
    <3> QED
      BY <2>8, <3>1, <3>2 DEF LossTest
  <2>9. CASE LossOpen
    BY <2>9 DEF LossOpen
  <2>10. CASE WinCall \/ WinClose
    BY <2>10 DEF WinCall, WinClose
  <2>11. CASE UNCHANGED vars
    BY <2>11 DEF vars
  <2> QED
    BY <2>1, <2>2, <2>3, <2>4, <2>5, <2>6, <2>7, <2>8, <2>9, <2>10, <2>11 DEF Next
<1>3. BreakerInv => SerialBreakerExact
  BY DEF BreakerInv, SerialBreakerExact, AtLimit
<1> QED
  BY <1>1, <1>2, <1>3, DataTyping, FlagsTyping, PTL DEF Spec

=============================================================================
