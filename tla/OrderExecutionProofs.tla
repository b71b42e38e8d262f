------------------------ MODULE OrderExecutionProofs ------------------------
(***************************************************************************)
(* What holds of OrderExecution for any number of requests, signals, keys, *)
(* brokers and restarts.                                                   *)
(***************************************************************************)
EXTENDS OrderExecution, FiniteSetTheorems, FunctionTheorems, WellFoundedInduction, TLAPS

-----------------------------------------------------------------------------
(***************************************************************************)
(* TypeOK, in parts a prover can take one at a time: the flags, the risk   *)
(* engine's data, the orders, the places of the rows, and the keys.        *)
(***************************************************************************)
Flags ==
    /\ emergencyStop \in BOOLEAN /\ shieldOn \in BOOLEAN
    /\ breakerOpen \in BOOLEAN /\ reconOk \in BOOLEAN
    /\ limitRace \in BOOLEAN

Numbers ==
    /\ mode \in VALID_MODES
    /\ armed \subseteq Brokers \ {Paper}
    /\ consecutiveLosses \in Nat
    /\ boots \in Nat

Orders ==
    /\ pc \in [Requests -> Steps]
    /\ req \in [Requests -> Inputs \union {NoInput}]
    /\ atBroker \subseteq Requests
    /\ paperOpen \subseteq atBroker
    /\ ledger \in [Requests -> Statuses \union {"ABSENT"}]
    /\ aged \subseteq Requests
    /\ db \in [Requests -> Statuses \union {"ABSENT"}]
    /\ audit \subseteq Requests
    /\ signals \in [Signals -> {"ABSENT", "ACTIVE", "REJECTED", "EXECUTED"}]
    /\ expired \subseteq Signals
    /\ causes \in [Keys -> SUBSET Causes]

Scans ==
    /\ scan \in [Passes -> PassPhases]
    /\ todo \in [Passes -> SUBSET Requests]
    /\ gateCauses \subseteq GateCauses

RowPlaces == rank \in [Requests -> Nat] /\ IsFiniteSet(Rows)

\* The flags of the risk engine and of the history stay Booleans.
LEMMA FlagsTyping == Spec => []Flags
<1>1. Init => Flags
  BY DEF Init, RiskInit, Flags
<1>2. Flags /\ [Next]_vars => Flags'
  <2> SUFFICES ASSUME Flags, [Next]_vars
               PROVE  Flags'
    OBVIOUS
  <2> USE DEF Flags, modeVars, breakerVars, riskVars, orderVars, storeVars,
              signalVars, scanVars
  <2>1. ASSUME NEW s \in Signals, OnSignal(s) \/ ExpireSignal(s)
        PROVE  Flags'
    BY <2>1 DEF OnSignal, ExpireSignal
  <2>2. ASSUME NEW r \in Requests, NEW in \in Inputs,
              Replay(r, in) \/ Refuse(r, in) \/ Reject(r, in)
        PROVE  Flags'
    BY <2>2 DEF Replay, Refuse, Reject
  <2>3. ASSUME NEW r \in Requests, NEW in \in Inputs, Admit(r, in)
        PROVE  Flags'
    BY <2>3 DEF Admit
  <2>4. ASSUME NEW r \in Requests,
              RecordOrder(r) \/ MarkOrder(r) \/ FinishOrder(r)
              \/ FinishOrderRaises(r) \/ BrokerTakes(r) \/
              BrokerFails(r) \/ BrokerFailsHalfway(r) \/
              (\E p \in Passes : MarkStale(p, r))
        PROVE  Flags'
    BY <2>4 DEF RecordOrder, MarkOrder, FinishOrder, FinishOrderRaises,
            BrokerTakes, BrokerFails, BrokerFailsHalfway, MarkStale
  <2>5. ASSUME NEW r \in Requests, NEW win \in BOOLEAN, ClosePosition(r, win)
        PROVE  Flags'
    BY <2>5 DEF ClosePosition, RecordTradeResult
  <2>6. CASE AgeOrders
    BY <2>6 DEF AgeOrders
  <2>7. ASSUME NEW p \in Passes, StartScan(p)
        PROVE  Flags'
    BY <2>7 DEF StartScan
  <2>8. ASSUME NEW p \in Passes, NEW agrees \in BOOLEAN, ListMismatches(p, agrees)
        PROVE  Flags'
    BY <2>8 DEF ListMismatches
  <2>9. ASSUME NEW p \in Passes, SetGate(p)
        PROVE  Flags'
    BY <2>9 DEF SetGate, SetReconciliationOk
  <2>10. CASE OperatorAction
    BY <2>10 DEF OperatorAction, SetMode, Arm, Stop, SetShield, ResetBreaker
  <2>11. CASE Restart
    BY <2>11 DEF Restart, Imported, Restored, RiskReset
  <2>12. CASE UNCHANGED vars
    BY <2>12 DEF vars
  <2> QED
    BY <2>1, <2>2, <2>3, <2>4, <2>5, <2>6, <2>7, <2>8, <2>9, <2>10,
       <2>11, <2>12
    DEF Next, PlaceOrder, BrokerCall, Reconcile
<1> QED
  BY <1>1, <1>2, PTL DEF Spec

\* Mode, armed brokers, losing streak and starts keep their types.
LEMMA NumbersTyping == Spec => []Numbers
<1>1. Init => Numbers
  BY RiskGateAssumption
     DEF Init, RiskInit, Numbers, RiskGateAssumption, VALID_MODES
<1>2. Numbers /\ [Next]_vars => Numbers'
  <2> SUFFICES ASSUME Numbers, [Next]_vars
               PROVE  Numbers'
    OBVIOUS
  <2> USE RiskGateAssumption DEF Numbers, VALID_MODES, RiskGateAssumption,
              modeVars, breakerVars, riskVars, orderVars, storeVars, signalVars,
              scanVars
  <2>1. ASSUME NEW s \in Signals, OnSignal(s) \/ ExpireSignal(s)
        PROVE  Numbers'
    BY <2>1 DEF OnSignal, ExpireSignal
  <2>2. ASSUME NEW r \in Requests, NEW in \in Inputs,
              Replay(r, in) \/ Refuse(r, in) \/ Reject(r, in) \/
              Admit(r, in)
        PROVE  Numbers'
    BY <2>2 DEF Replay, Refuse, Reject, Admit
  <2>3. ASSUME NEW r \in Requests,
              RecordOrder(r) \/ MarkOrder(r) \/ FinishOrder(r)
              \/ FinishOrderRaises(r) \/ BrokerTakes(r) \/
              BrokerFails(r) \/ BrokerFailsHalfway(r) \/
              (\E p \in Passes : MarkStale(p, r))
        PROVE  Numbers'
    BY <2>3 DEF RecordOrder, MarkOrder, FinishOrder, FinishOrderRaises,
            BrokerTakes, BrokerFails, BrokerFailsHalfway, MarkStale
  <2>4. ASSUME NEW r \in Requests, NEW win \in BOOLEAN, ClosePosition(r, win)
        PROVE  Numbers'
    BY <2>4 DEF ClosePosition, RecordTradeResult
  <2>5. CASE AgeOrders
    BY <2>5 DEF AgeOrders
  <2>6. ASSUME NEW p \in Passes, StartScan(p)
        PROVE  Numbers'
    BY <2>6 DEF StartScan
  <2>7. ASSUME NEW p \in Passes,
              SetGate(p) \/ \E agrees \in BOOLEAN : ListMismatches(p, agrees)
        PROVE  Numbers'
    BY <2>7 DEF ListMismatches, SetGate, SetReconciliationOk
  <2>8. CASE OperatorAction
    BY <2>8 DEF OperatorAction, SetMode, Arm, Stop, SetShield, ResetBreaker
  <2>9. CASE Restart
    BY <2>9 DEF Restart, Imported, Restored, RiskReset
  <2>10. CASE UNCHANGED vars
    BY <2>10 DEF vars
  <2> QED
    BY <2>1, <2>2, <2>3, <2>4, <2>5, <2>6, <2>7, <2>8, <2>9, <2>10
    DEF Next, PlaceOrder, BrokerCall, Reconcile
<1> QED
  BY <1>1, <1>2, PTL DEF Spec

\* What is known of requests, orders, signals and blame keeps its types.
LEMMA OrdersTyping == Spec => []Orders
<1>1. Init => Orders
  BY DEF Init, Orders, Steps, Answers, NoInput, Statuses, Causes
<1>2. Orders /\ [Next]_vars => Orders'
  <2> SUFFICES ASSUME Orders, [Next]_vars
               PROVE  Orders'
    OBVIOUS
  <2> USE DEF Orders, Steps, Answers, InFlight, Answer, Statuses, Causes, Blame,
              modeVars, breakerVars, riskVars, orderVars, storeVars, signalVars,
              scanVars
  <2>1. ASSUME NEW s \in Signals, OnSignal(s) \/ ExpireSignal(s)
        PROVE  Orders'
    BY <2>1 DEF OnSignal, ExpireSignal
  <2>2. ASSUME NEW r \in Requests, NEW in \in Inputs,
              Replay(r, in) \/ Refuse(r, in) \/ Reject(r, in)
        PROVE  Orders'
    BY <2>2 DEF Replay, Refuse, Reject
  <2>3. ASSUME NEW r \in Requests, NEW in \in Inputs, Admit(r, in)
        PROVE  Orders'
    BY <2>3 DEF Admit
  <2>4. ASSUME NEW r \in Requests, RecordOrder(r)
        PROVE  Orders'
    BY <2>4 DEF RecordOrder
  <2>5. ASSUME NEW r \in Requests, MarkOrder(r)
        PROVE  Orders'
    BY <2>5 DEF MarkOrder
  <2>6. ASSUME NEW r \in Requests, FinishOrder(r)
        PROVE  Orders'
    BY <2>6 DEF FinishOrder
  <2>7. ASSUME NEW r \in Requests, FinishOrderRaises(r)
        PROVE  Orders'
    BY <2>7 DEF FinishOrderRaises
  <2>8. ASSUME NEW r \in Requests, BrokerTakes(r)
        PROVE  Orders'
    BY <2>8 DEF BrokerTakes
  <2>9. ASSUME NEW r \in Requests, BrokerFails(r)
        PROVE  Orders'
    BY <2>9 DEF BrokerFails
  <2>10. ASSUME NEW r \in Requests, BrokerFailsHalfway(r)
        PROVE  Orders'
    BY <2>10 DEF BrokerFailsHalfway
  <2>11. ASSUME NEW r \in Requests, NEW win \in BOOLEAN, ClosePosition(r, win)
        PROVE  Orders'
    BY <2>11 DEF ClosePosition, RecordTradeResult
  <2>12. CASE AgeOrders
    BY <2>12 DEF AgeOrders
  <2>13. ASSUME NEW p \in Passes, StartScan(p)
        PROVE  Orders'
    BY <2>13 DEF StartScan
  <2>14. ASSUME NEW p \in Passes, NEW r \in Requests, MarkStale(p, r)
        PROVE  Orders'
    BY <2>14 DEF MarkStale
  <2>15. ASSUME NEW p \in Passes, SetGate(p)
        PROVE  Orders'
    BY <2>15 DEF SetGate, SetReconciliationOk
  <2>16. ASSUME NEW p \in Passes, NEW agrees \in BOOLEAN, ListMismatches(p, agrees)
        PROVE  Orders'
    BY <2>16 DEF ListMismatches
  <2>17. CASE OperatorAction
    BY <2>17 DEF OperatorAction, SetMode, Arm, Stop, SetShield, ResetBreaker
  <2>18. CASE Restart
    BY <2>18 DEF Restart, Imported, Restored, RiskReset
  <2>19. CASE UNCHANGED vars
    BY <2>19 DEF vars
  <2> QED
    BY <2>1, <2>2, <2>3, <2>4, <2>5, <2>6, <2>7, <2>8, <2>9, <2>10,
       <2>11, <2>12, <2>13, <2>14, <2>15, <2>16, <2>17, <2>18, <2>19
    DEF Next, PlaceOrder, BrokerCall, Reconcile
<1> QED
  BY <1>1, <1>2, PTL DEF Spec

\* So do the reconciliation passes.
LEMMA ScansTyping == Spec => []Scans
<1>1. Init => Scans
  BY DEF Init, Scans, PassPhases, GateCauses
<1>2. Scans /\ Orders /\ [Next]_vars => Scans'
  <2> SUFFICES ASSUME Scans, Orders, [Next]_vars
               PROVE  Scans'
    OBVIOUS
  <2> USE DEF Scans, PassPhases, GateCauses, modeVars, breakerVars, riskVars, orderVars,
              storeVars, signalVars, scanVars
  <2>1. ASSUME NEW s \in Signals, OnSignal(s) \/ ExpireSignal(s)
        PROVE  Scans'
    BY <2>1 DEF OnSignal, ExpireSignal
  <2>2. ASSUME NEW r \in Requests, NEW in \in Inputs,
              Replay(r, in) \/ Refuse(r, in) \/ Reject(r, in) \/
              Admit(r, in)
        PROVE  Scans'
    BY <2>2 DEF Replay, Refuse, Reject, Admit
  <2>3. ASSUME NEW r \in Requests, RecordOrder(r)
        PROVE  Scans'
    BY <2>3 DEF RecordOrder
  <2>4. ASSUME NEW r \in Requests,
              MarkOrder(r) \/ FinishOrder(r) \/
              FinishOrderRaises(r) \/ BrokerTakes(r) \/
              BrokerFails(r) \/ BrokerFailsHalfway(r)
        PROVE  Scans'
    BY <2>4 DEF MarkOrder, FinishOrder, FinishOrderRaises, BrokerTakes,
            BrokerFails, BrokerFailsHalfway
  <2>5. ASSUME NEW r \in Requests, NEW win \in BOOLEAN, ClosePosition(r, win)
        PROVE  Scans'
    BY <2>5 DEF ClosePosition, RecordTradeResult
  <2>6. CASE AgeOrders \/ OperatorAction
    BY <2>6 DEF AgeOrders, OperatorAction, SetMode, Arm, Stop, SetShield,
            ResetBreaker
  <2>7. ASSUME NEW p \in Passes, StartScan(p)
        PROVE  Scans'
    BY <2>7 DEF StartScan, Orders
  <2>8. ASSUME NEW p \in Passes, NEW r \in Requests, MarkStale(p, r)
        PROVE  Scans'
    BY <2>8 DEF MarkStale
  <2>9. ASSUME NEW p \in Passes, SetGate(p)
        PROVE  Scans'
    BY <2>9 DEF SetGate, SetReconciliationOk
  <2>10. ASSUME NEW p \in Passes, NEW agrees \in BOOLEAN, ListMismatches(p, agrees)
        PROVE  Scans'
    BY <2>10 DEF ListMismatches
  <2>11. CASE Restart
    BY <2>11 DEF Restart, Imported, Restored, RiskReset
  <2>12. CASE UNCHANGED vars
    BY <2>12 DEF vars
  <2> QED
    BY <2>1, <2>2, <2>3, <2>4, <2>5, <2>6, <2>7, <2>8, <2>9, <2>10,
       <2>11, <2>12
    DEF Next, PlaceOrder, BrokerCall, Reconcile
<1> QED
  BY <1>1, <1>2, OrdersTyping, PTL DEF Spec

(***************************************************************************)
(* How far a request is, what the broker, the orders table and the ledger  *)
(* know of it, and which orders a reconciliation pass may touch.           *)
(***************************************************************************)
Progress ==
    /\ audit \subseteq Rows
    /\ Rows \subseteq atBroker
    /\ \A r \in Requests : ledger[r] \in {"ABSENT", db[r]}
    /\ \A r \in aged : ledger[r] = "SUBMITTED"
    /\ \A p \in Passes : todo[p] \subseteq aged
    /\ \A r \in atBroker : pc[r] \notin {"idle", "calling"}
    /\ \A r \in Requests :
        /\ pc[r] \in {"returned", "recorded", "marked"} => r \in atBroker
        /\ pc[r] = "returned" => r \notin Rows
        /\ pc[r] \in {"recorded", "marked"} => r \in Rows
        /\ pc[r] = "recorded" => ledger[r] = "PENDING"

\* Only an order the broker took has a row, and it has one from its record on.
LEMMA OrderProgress == Spec => []Progress
<1>1. Init => Progress
  BY DEF Init, Progress, Rows
<1>2. Progress /\ Orders /\ Scans /\ [Next]_vars => Progress'
  <2> SUFFICES ASSUME Progress, Orders, Scans, [Next]_vars
               PROVE  Progress'
    OBVIOUS
  <2> USE DEF Orders, Scans, Progress, Rows, Steps, Answers, InFlight,
              Statuses, Answer, modeVars, breakerVars, riskVars, orderVars,
              storeVars, signalVars, scanVars
  <2>1. ASSUME NEW s \in Signals, OnSignal(s) \/ ExpireSignal(s)
        PROVE  Progress'
    BY <2>1 DEF OnSignal, ExpireSignal
  <2>2. ASSUME NEW r \in Requests, NEW in \in Inputs,
              Replay(r, in) \/ Refuse(r, in) \/ Reject(r, in)
        PROVE  Progress'
    BY <2>2 DEF Replay, Refuse, Reject
  <2>3. ASSUME NEW r \in Requests, NEW in \in Inputs, Admit(r, in)
        PROVE  Progress'
    <3>1. pc[r] = "idle" /\ pc' = [pc EXCEPT ![r] = "calling"]
      BY <2>3 DEF Admit, Arrives
    <3>2. UNCHANGED <<atBroker, ledger, aged, db, audit, todo>>
      BY <2>3 DEF Admit
    <3> QED
      BY <3>1, <3>2
  <2>4. ASSUME NEW r \in Requests, RecordOrder(r)
        PROVE  Progress'
    BY <2>4 DEF RecordOrder
  <2>5. ASSUME NEW r \in Requests, MarkOrder(r)
        PROVE  Progress'
    BY <2>5 DEF MarkOrder
  <2>6. ASSUME NEW r \in Requests, FinishOrder(r)
        PROVE  Progress'
    BY <2>6 DEF FinishOrder
  <2>7. ASSUME NEW r \in Requests, FinishOrderRaises(r)
        PROVE  Progress'
    BY <2>7 DEF FinishOrderRaises
  <2>8. ASSUME NEW r \in Requests, BrokerTakes(r)
        PROVE  Progress'
    BY <2>8 DEF BrokerTakes
  <2>9. ASSUME NEW r \in Requests, BrokerFails(r)
        PROVE  Progress'
    BY <2>9 DEF BrokerFails
  <2>10. ASSUME NEW r \in Requests, BrokerFailsHalfway(r)
        PROVE  Progress'
    BY <2>10 DEF BrokerFailsHalfway
  <2>11. ASSUME NEW r \in Requests, NEW win \in BOOLEAN, ClosePosition(r, win)
        PROVE  Progress'
    BY <2>11 DEF ClosePosition, RecordTradeResult
  <2>12. CASE AgeOrders
    BY <2>12 DEF AgeOrders
  <2>13. ASSUME NEW p \in Passes, StartScan(p)
        PROVE  Progress'
    BY <2>13 DEF StartScan
  <2>14. ASSUME NEW p \in Passes, NEW r \in Requests, MarkStale(p, r)
        PROVE  Progress'
    BY <2>14 DEF MarkStale
  <2>15. ASSUME NEW p \in Passes, SetGate(p)
        PROVE  Progress'
    BY <2>15 DEF SetGate, SetReconciliationOk
  <2>16. ASSUME NEW p \in Passes, NEW agrees \in BOOLEAN, ListMismatches(p, agrees)
        PROVE  Progress'
    BY <2>16 DEF ListMismatches
  <2>17. CASE OperatorAction
    BY <2>17 DEF OperatorAction, SetMode, Arm, Stop, SetShield, ResetBreaker
  <2>18. CASE Restart
    BY <2>18 DEF Restart, Imported, Restored, RiskReset
  <2>19. CASE UNCHANGED vars
    BY <2>19 DEF vars
  <2> QED
    BY <2>1, <2>2, <2>3, <2>4, <2>5, <2>6, <2>7, <2>8, <2>9, <2>10,
       <2>11, <2>12, <2>13, <2>14, <2>15, <2>16, <2>17, <2>18, <2>19
    DEF Next, PlaceOrder, BrokerCall, Reconcile
<1> QED
  BY <1>1, <1>2, OrdersTyping, ScansTyping, PTL DEF Spec

\* The orders table is finite and every row has a place.
LEMMA RowPlacesTyping == Spec => []RowPlaces
<1>1. Init => RowPlaces
  BY FS_EmptySet DEF Init, RowPlaces, Rows
<1>2. RowPlaces /\ Orders /\ Progress /\ [Next]_vars => RowPlaces'
  <2> SUFFICES ASSUME RowPlaces, Orders, Progress, [Next]_vars
               PROVE  RowPlaces'
    OBVIOUS
  <2> USE DEF RowPlaces, Rows, modeVars, breakerVars, riskVars, orderVars,
              storeVars, signalVars, scanVars
  <2>1. ASSUME NEW s \in Signals, OnSignal(s) \/ ExpireSignal(s)
        PROVE  RowPlaces'
    BY <2>1 DEF OnSignal, ExpireSignal
  <2>2. ASSUME NEW r \in Requests, NEW in \in Inputs,
              Replay(r, in) \/ Refuse(r, in) \/ Reject(r, in) \/
              Admit(r, in)
        PROVE  RowPlaces'
    BY <2>2 DEF Replay, Refuse, Reject, Admit
  <2>3. ASSUME NEW r \in Requests, RecordOrder(r)
        PROVE  RowPlaces'
    <3>1. Rows' = Rows \union {r}
      BY <2>3 DEF RecordOrder, Orders, Rows
    <3> HIDE DEF Rows
    <3>2. IsFiniteSet(Rows') /\ Cardinality(Rows) \in Nat
      BY <3>1, FS_AddElement, FS_CardinalityType
    <3>3. rank' = [rank EXCEPT ![r] = Cardinality(Rows) + 1]
      BY <2>3 DEF RecordOrder
    <3> QED
      BY <3>2, <3>3
  <2>4. ASSUME NEW r \in Requests, MarkOrder(r)
        PROVE  RowPlaces'
    <3>1. Rows' \subseteq Rows \union {r}
      BY <2>4 DEF MarkOrder, Orders, Statuses
    <3> HIDE DEF Rows
    <3> QED
      BY <3>1, <2>4, FS_AddElement, FS_Subset DEF MarkOrder
  <2>5. ASSUME NEW r \in Requests,
              FinishOrder(r) \/ FinishOrderRaises(r) \/
              BrokerTakes(r) \/ BrokerFails(r) \/
              BrokerFailsHalfway(r)
        PROVE  RowPlaces'
    BY <2>5 DEF FinishOrder, FinishOrderRaises, BrokerTakes, BrokerFails,
            BrokerFailsHalfway
  <2>6. ASSUME NEW r \in Requests, NEW win \in BOOLEAN, ClosePosition(r, win)
        PROVE  RowPlaces'
    BY <2>6 DEF ClosePosition, RecordTradeResult
  <2>7. CASE AgeOrders \/ OperatorAction
    BY <2>7 DEF AgeOrders, OperatorAction, SetMode, Arm,
            Stop, SetShield, ResetBreaker
  <2>8. ASSUME NEW p \in Passes, StartScan(p)
        PROVE  RowPlaces'
    BY <2>8 DEF StartScan
  <2>9. ASSUME NEW p \in Passes, NEW r \in Requests, MarkStale(p, r)
        PROVE  RowPlaces'
    <3>1. Rows' \subseteq Rows \union {r}
      BY <2>9 DEF MarkStale, Orders
    <3> HIDE DEF Rows
    <3> QED
      BY <3>1, <2>9, FS_AddElement, FS_Subset DEF MarkStale
  <2>10. ASSUME NEW p \in Passes,
              SetGate(p) \/ \E agrees \in BOOLEAN : ListMismatches(p, agrees)
        PROVE  RowPlaces'
    BY <2>10 DEF ListMismatches, SetGate, SetReconciliationOk
  <2>11. CASE Restart
    <3>1. Rows' = Rows
      BY <2>11 DEF Restart, Imported, Restored, Rows, Progress
    <3> QED
      BY <3>1, <2>11 DEF Restart, Imported, Restored
  <2>12. CASE UNCHANGED vars
    BY <2>12 DEF vars
  <2> QED
    BY <2>1, <2>2, <2>3, <2>4, <2>5, <2>6, <2>7, <2>8, <2>9, <2>10,
       <2>11, <2>12
    DEF Next, PlaceOrder, BrokerCall, Reconcile
<1> QED
  BY <1>1, <1>2, OrdersTyping, OrderProgress, PTL DEF Spec

\* A set of naturals has a least member.
LEMMA LeastNatural ==
    ASSUME NEW S, S \subseteq Nat, S # {}
    PROVE  \E m \in S : \A n \in S : m <= n
<1> DEFINE Less == {p \in Nat \X Nat : p[1] < p[2]}
<1>1. IsWellFoundedOn(Less, Nat)
  BY NatLessThanWellFounded DEF OpToRel
<1>2. \A m, n \in Nat : n < m => <<n, m>> \in Less
  OBVIOUS
<1> HIDE DEF Less
<1>3. PICK m \in S : \A n \in S : ~(<<n, m>> \in Less)
  BY <1>1, WFMin
<1>4. ASSUME NEW n \in S PROVE m <= n
  <2>1. ~(n < m)
    BY <1>2, <1>3
  <2> QED
    BY <2>1
<1> QED
  BY <1>4

\* The row that api._startup meets first exists.
LEMMA OldestExists ==
    ASSUME rank \in [Requests -> Nat], NEW rows, rows \subseteq Requests, rows # {}
    PROVE  Oldest(rows) \in rows
<1> DEFINE ranks == {rank[r] : r \in rows}
<1>1. PICK m \in ranks : \A n \in ranks : m <= n
  <2>1. ranks \subseteq Nat /\ ranks # {}
    OBVIOUS
  <2> HIDE DEF ranks
  <2> QED
    BY <2>1, LeastNatural
<1>2. PICK r \in rows : rank[r] = m
  OBVIOUS
<1>3. \A q \in rows : rank[r] <= rank[q]
  BY <1>1, <1>2
<1> QED
  BY <1>3 DEF Oldest

\* A stored key names a row that carries it.
KeysMap ==
    /\ placedKeys \in [Keys -> Requests \union {None}]
    /\ \A k \in Keys : placedKeys[k] # None =>
            /\ placedKeys[k] \in Rows
            /\ k \in {req[placedKeys[k]].sig, req[placedKeys[k]].cid}

\* api._placed_keys never holds the key of an order the orders table lacks.
LEMMA KeysTyping == Spec => []KeysMap
<1>1. Init => KeysMap
  BY DEF Init, KeysMap
<1>2. KeysMap /\ Orders /\ Progress /\ RowPlaces /\ [Next]_vars => KeysMap'
  <2> SUFFICES ASSUME KeysMap, Orders, Progress, RowPlaces, [Next]_vars
               PROVE  KeysMap'
    OBVIOUS
  <2> USE OrderExecutionAssumption DEF OrderExecutionAssumption, KeysMap, Orders,
              Progress, Rows, Key, modeVars, breakerVars, riskVars, orderVars,
              storeVars, signalVars, scanVars
  <2>1. ASSUME NEW s \in Signals, OnSignal(s) \/ ExpireSignal(s)
        PROVE  KeysMap'
    BY <2>1 DEF OnSignal, ExpireSignal
  <2>2. ASSUME NEW r \in Requests, NEW in \in Inputs,
              Replay(r, in) \/ Refuse(r, in) \/ Reject(r, in)
        PROVE  KeysMap'
    BY <2>2 DEF Replay, Refuse, Reject
  <2>3. ASSUME NEW r \in Requests, NEW in \in Inputs, Admit(r, in)
        PROVE  KeysMap'
    <3>1. pc[r] = "idle" /\ req' = [req EXCEPT ![r] = in]
      BY <2>3 DEF Admit, Arrives
    <3>2. UNCHANGED <<placedKeys, db>>
      BY <2>3 DEF Admit
    <3>3. r \notin Rows
      BY <3>1
    <3> QED
      BY <3>1, <3>2, <3>3
  <2>4. ASSUME NEW r \in Requests, RecordOrder(r)
        PROVE  KeysMap'
    BY <2>4 DEF RecordOrder
  <2>5. ASSUME NEW r \in Requests, MarkOrder(r)
        PROVE  KeysMap'
    BY <2>5 DEF MarkOrder
  <2>6. ASSUME NEW r \in Requests, FinishOrder(r)
        PROVE  KeysMap'
    <3> DEFINE k == Key(req[r])
    <3>1. r \in Rows /\ UNCHANGED <<req, db>>
      BY <2>6 DEF FinishOrder
    <3>2. k \in {req[r].sig, req[r].cid}
      OBVIOUS
    <3>3. placedKeys' = IF k = None THEN placedKeys ELSE [placedKeys EXCEPT ![k] = r]
      BY <2>6 DEF FinishOrder
    <3> HIDE DEF k
    <3>4. \A j \in Keys \ {k} : placedKeys'[j] = placedKeys[j]
      BY <3>3
    <3>5. k \in Keys => placedKeys'[k] \in {r, None}
      BY <3>3
    <3>6. placedKeys' \in [Keys -> Requests \union {None}]
      BY <3>3
    <3> HIDE DEF Rows
    <3>7. Rows' = Rows
      BY <3>1 DEF Rows
    <3> QED
      BY <3>1, <3>2, <3>4, <3>5, <3>6, <3>7
  <2>7. ASSUME NEW r \in Requests,
              FinishOrderRaises(r) \/ BrokerTakes(r) \/
              BrokerFails(r) \/ BrokerFailsHalfway(r)
        PROVE  KeysMap'
    BY <2>7 DEF FinishOrderRaises, BrokerTakes, BrokerFails, BrokerFailsHalfway
  <2>8. ASSUME NEW r \in Requests, NEW win \in BOOLEAN, ClosePosition(r, win)
        PROVE  KeysMap'
    BY <2>8 DEF ClosePosition, RecordTradeResult
  <2>9. CASE AgeOrders \/ OperatorAction
    BY <2>9 DEF AgeOrders, OperatorAction, SetMode, Arm,
            Stop, SetShield, ResetBreaker
  <2>10. ASSUME NEW p \in Passes, StartScan(p)
        PROVE  KeysMap'
    BY <2>10 DEF StartScan
  <2>11. ASSUME NEW p \in Passes, NEW r \in Requests, MarkStale(p, r)
        PROVE  KeysMap'
    BY <2>11 DEF MarkStale
  <2>12. ASSUME NEW p \in Passes,
              SetGate(p) \/ \E agrees \in BOOLEAN : ListMismatches(p, agrees)
        PROVE  KeysMap'
    BY <2>12 DEF ListMismatches, SetGate, SetReconciliationOk
  <2>13. CASE Restart
    <3>1. ASSUME NEW k \in Keys, Seeds(k) # {}
          PROVE  Oldest(Seeds(k)) \in Seeds(k)
      <4>1. Seeds(k) \subseteq Requests
        BY DEF Seeds, Readable, Rows
      <4>2. rank \in [Requests -> Nat]
        BY DEF RowPlaces
      <4> QED
        BY ONLY <3>1, <4>1, <4>2, OldestExists
    <3>2. placedKeys' = [k \in Keys |-> IF Seeds(k) = {} THEN None ELSE Oldest(Seeds(k))]
      BY <2>13 DEF Restart, Imported, Restored
    <3>3. req' = req /\ Rows' = Rows
      BY <2>13 DEF Restart, Imported, Restored
    <3>4. \A k \in Keys : Seeds(k) \subseteq {r \in Rows : k \in {req[r].sig, req[r].cid}}
      BY DEF Seeds, Readable
    <3> HIDE DEF Rows
    <3> QED
      BY <3>1, <3>2, <3>3, <3>4 DEF Rows
  <2>14. CASE UNCHANGED vars
    BY <2>14 DEF vars
  <2> QED
    BY <2>1, <2>2, <2>3, <2>4, <2>5, <2>6, <2>7, <2>8, <2>9, <2>10,
       <2>11, <2>12, <2>13, <2>14
    DEF Next, PlaceOrder, BrokerCall, Reconcile
<1> QED
  BY <1>1, <1>2,
     OrdersTyping, OrderProgress, RowPlacesTyping, PTL DEF Spec

-----------------------------------------------------------------------------
\* Every variable keeps its type over requests, risk endpoints, reconciliation
\* and restarts (api.place_order, risk.py, execution.py).
THEOREM Typing == Spec => []TypeOK
<1>1. Flags /\ Numbers => RiskTypeOK
  BY DEF Flags, Numbers, RiskTypeOK
<1>2. Flags /\ Numbers /\ Orders /\ Scans /\ RowPlaces /\ KeysMap => TypeOK
  BY <1>1 DEF Flags, Numbers, Orders, Scans, RowPlaces, KeysMap, TypeOK
<1> QED
  BY <1>2, FlagsTyping, NumbersTyping, OrdersTyping, ScansTyping, RowPlacesTyping,
     KeysTyping, PTL

-----------------------------------------------------------------------------
KeysKept ==
    \A k \in Keys : placedKeys[k] # None =>
        placedKeys'[k] # None \/ "truncated" \in causes'[k]

\* A stored idempotency key is never forgotten, over any number of restarts,
\* unless a restart read fewer rows than the orders table holds.
THEOREM KeysAreKept == Spec => KeysSurvive
<1>1. Orders /\ RowPlaces /\ KeysMap /\ [Next]_vars => KeysKept
  <2> SUFFICES ASSUME Orders, RowPlaces, KeysMap, [Next]_vars
               PROVE  KeysKept
    OBVIOUS
  <2> USE OrderExecutionAssumption DEF OrderExecutionAssumption, KeysKept, Orders,
              KeysMap, modeVars, breakerVars, riskVars, orderVars, storeVars,
              signalVars, scanVars
  <2>1. ASSUME NEW s \in Signals, OnSignal(s) \/ ExpireSignal(s)
        PROVE  KeysKept
    BY <2>1 DEF OnSignal, ExpireSignal
  <2>2. ASSUME NEW r \in Requests, NEW in \in Inputs,
              Replay(r, in) \/ Refuse(r, in) \/ Reject(r, in) \/
              Admit(r, in)
        PROVE  KeysKept
    BY <2>2 DEF Replay, Refuse, Reject, Admit
  <2>3. ASSUME NEW r \in Requests,
              RecordOrder(r) \/ MarkOrder(r) \/
              FinishOrderRaises(r) \/ BrokerTakes(r) \/
              BrokerFails(r) \/ BrokerFailsHalfway(r) \/
              (\E p \in Passes : MarkStale(p, r))
        PROVE  KeysKept
    BY <2>3 DEF RecordOrder, MarkOrder, FinishOrderRaises, BrokerTakes,
            BrokerFails, BrokerFailsHalfway, MarkStale
  <2>4. ASSUME NEW r \in Requests, FinishOrder(r)
        PROVE  KeysKept
    BY <2>4 DEF FinishOrder
  <2>5. ASSUME NEW r \in Requests, NEW win \in BOOLEAN, ClosePosition(r, win)
        PROVE  KeysKept
    BY <2>5 DEF ClosePosition, RecordTradeResult
  <2>6. CASE AgeOrders \/ OperatorAction
    BY <2>6 DEF AgeOrders, OperatorAction, SetMode, Arm,
            Stop, SetShield, ResetBreaker
  <2>7. ASSUME NEW p \in Passes, StartScan(p)
        PROVE  KeysKept
    BY <2>7 DEF StartScan
  <2>8. ASSUME NEW p \in Passes,
              SetGate(p) \/ \E agrees \in BOOLEAN : ListMismatches(p, agrees)
        PROVE  KeysKept
    BY <2>8 DEF ListMismatches, SetGate, SetReconciliationOk
  <2>9. CASE Restart
    <3>1. ASSUME NEW k \in Keys, Seeds(k) # {}
          PROVE  Oldest(Seeds(k)) \in Seeds(k)
      <4>1. Seeds(k) \subseteq Requests
        BY DEF Seeds, Readable, Rows
      <4>2. rank \in [Requests -> Nat]
        BY DEF RowPlaces
      <4> QED
        BY ONLY <3>1, <4>1, <4>2, OldestExists
    <3>2. ASSUME NEW k \in Keys, placedKeys[k] # None
          PROVE  Seeds(k) # {} \/ \E r \in Rows \ Readable : k \in {req[r].sig, req[r].cid}
      BY <3>2 DEF Seeds
    <3>3. ASSUME NEW k \in Keys, Seeds(k) # {}
          PROVE  placedKeys'[k] # None
      BY <3>1, <3>3, <2>9 DEF Restart, Imported, Restored, Seeds, Readable, Rows
    <3>4. ASSUME NEW k \in Keys, NEW r \in Rows \ Readable, k \in {req[r].sig, req[r].cid}
          PROVE  "truncated" \in causes'[k]
      BY <3>4, <2>9 DEF Restart, Imported, Restored
    <3> QED
      BY <3>2, <3>3, <3>4
  <2>10. CASE UNCHANGED vars
    BY <2>10 DEF vars
  <2> QED
    BY <2>1, <2>2, <2>3, <2>4, <2>5, <2>6, <2>7, <2>8, <2>9, <2>10
    DEF Next, PlaceOrder, BrokerCall, Reconcile
<1> QED
  BY <1>1, OrdersTyping, RowPlacesTyping, KeysTyping, PTL DEF Spec, KeysSurvive, KeysKept

-----------------------------------------------------------------------------
(***************************************************************************)
(* Why an unblamed key is executed at most once.  It has one request       *)
(* between check and answer; an order placed under it is either that       *)
(* request's or has left its key behind; and while a request is with the   *)
(* broker there is no such order yet.                                      *)
(***************************************************************************)
Holds(r, k) == pc[r] \in InFlight /\ Key(req[r]) = k

OnceFor(k) ==
    causes[k] = {} =>
        /\ \A r, q \in Requests : Holds(r, k) /\ Holds(q, k) => r = q
        /\ \A r \in Placed(k) : pc[r] \in InFlight \/ placedKeys[k] # None
        /\ \A r \in Requests : pc[r] = "calling" /\ Holds(r, k) => Placed(k) = {}
        /\ \A r, q \in Placed(k) : r = q

OnceInv == \A k \in Keys : OnceFor(k)

\* One idempotency key reaches the broker at most once, unless one of the five
\* events of Causes has happened to it (api.place_order, api._startup).
THEOREM AtMostOnceHolds == Spec => []AtMostOnceUnlessBlamed
<1>1. Init => OnceInv
  BY DEF Init, OnceInv, OnceFor, Holds, Placed, InFlight
<1>2. OnceInv /\ Orders /\ Progress /\ RowPlaces /\ KeysMap /\ [Next]_vars => OnceInv'
  <2> SUFFICES ASSUME OnceInv, Orders, Progress, RowPlaces, KeysMap, [Next]_vars
               PROVE  OnceInv'
    OBVIOUS
  <2> USE OrderExecutionAssumption DEF OrderExecutionAssumption, OnceInv, OnceFor,
              Holds, Placed, Orders, Progress, KeysMap, InFlight, Steps, Answer,
              Blame, modeVars, breakerVars, riskVars, orderVars, storeVars,
              signalVars, scanVars
  <2>1. ASSUME NEW s \in Signals, OnSignal(s) \/ ExpireSignal(s)
        PROVE  OnceInv'
    BY <2>1 DEF OnSignal, ExpireSignal
  <2>2. ASSUME NEW r \in Requests, NEW in \in Inputs,
              Replay(r, in) \/ Refuse(r, in) \/ Reject(r, in)
        PROVE  OnceInv'
    <3>1. pc[r] = "idle"
      BY <2>2 DEF Replay, Refuse, Reject, Arrives
    <3>2. PICK a \in Answers : pc' = [pc EXCEPT ![r] = a]
      BY <2>2 DEF Replay, Refuse, Reject, Answers
    <3>3. UNCHANGED <<req, atBroker, placedKeys, causes>>
      BY <2>2 DEF Replay, Refuse, Reject
    <3> QED
      BY <3>1, <3>2, <3>3 DEF Answers
  <2>3. ASSUME NEW r \in Requests, NEW in \in Inputs, Admit(r, in)
        PROVE  OnceInv'
    <3>1. pc[r] = "idle" /\ r \notin atBroker
      BY <2>3 DEF Admit, Arrives
    <3>2. /\ pc' = [pc EXCEPT ![r] = "calling"]
          /\ req' = [req EXCEPT ![r] = in]
          /\ UNCHANGED <<atBroker, placedKeys>>
      BY <2>3 DEF Admit
    <3>3. SUFFICES ASSUME NEW k \in Keys, causes'[k] = {}
                   PROVE  OnceFor(k)'
      OBVIOUS
    <3>4. causes[k] = {} /\ (Key(in) = k => \A q \in Requests : ~Holds(q, k))
      BY <3>3, <2>3 DEF Admit
    <3>5. CASE Key(in) = k
      <4>1. placedKeys[k] = None
        BY <3>5, <2>3 DEF Admit, IsReplay
      <4>2. Placed(k) = {}
        BY <3>4, <3>5, <4>1
      <4> QED
        BY <3>1, <3>2, <3>4, <3>5, <4>2
    <3>6. CASE Key(in) # k
      BY <3>1, <3>2, <3>4, <3>6
    <3> QED
      BY <3>5, <3>6
  <2>4. ASSUME NEW r \in Requests, RecordOrder(r)
        PROVE  OnceInv'
    BY <2>4 DEF RecordOrder
  <2>5. ASSUME NEW r \in Requests, MarkOrder(r)
        PROVE  OnceInv'
    BY <2>5 DEF MarkOrder
  <2>6. ASSUME NEW r \in Requests, FinishOrder(r)
        PROVE  OnceInv'
    BY <2>6 DEF FinishOrder
  <2>7. ASSUME NEW r \in Requests, FinishOrderRaises(r)
        PROVE  OnceInv'
    <3> DEFINE s == req[r].sig
    <3>1. pc[r] = "marked" /\ pc' = [pc EXCEPT ![r] = "errored"]
      BY <2>7 DEF FinishOrderRaises
    <3>2. UNCHANGED <<req, atBroker, placedKeys>>
      BY <2>7 DEF FinishOrderRaises
    <3>3. s # None /\ Key(req[r]) = s
      BY <2>7 DEF FinishOrderRaises, Key
    <3>4. \A k \in Keys : causes'[k] = {} => causes[k] = {} /\ Key(req[r]) # k
      BY <3>3, <2>7 DEF FinishOrderRaises
    <3> HIDE DEF s
    <3> QED
      BY <3>1, <3>2, <3>4
  <2>8. ASSUME NEW r \in Requests, BrokerTakes(r)
        PROVE  OnceInv'
    BY <2>8 DEF BrokerTakes
  <2>9. ASSUME NEW r \in Requests, BrokerFails(r)
        PROVE  OnceInv'
    BY <2>9 DEF BrokerFails
  <2>10. ASSUME NEW r \in Requests, BrokerFailsHalfway(r)
        PROVE  OnceInv'
    <3>1. /\ pc[r] = "calling"
          /\ pc' = [pc EXCEPT ![r] = "errored"]
          /\ atBroker' = atBroker \union {r}
          /\ UNCHANGED <<req, placedKeys>>
      BY <2>10 DEF BrokerFailsHalfway
    <3>2. \A k \in Keys : causes'[k] = {} => causes[k] = {} /\ Key(req[r]) # k
      BY <2>10 DEF BrokerFailsHalfway
    <3> QED
      BY <3>1, <3>2
  <2>11. ASSUME NEW r \in Requests, NEW win \in BOOLEAN, ClosePosition(r, win)
        PROVE  OnceInv'
    BY <2>11 DEF ClosePosition, RecordTradeResult
  <2>12. CASE AgeOrders
    BY <2>12 DEF AgeOrders
  <2>13. ASSUME NEW p \in Passes, StartScan(p)
        PROVE  OnceInv'
    BY <2>13 DEF StartScan
  <2>14. ASSUME NEW p \in Passes, NEW r \in Requests, MarkStale(p, r)
        PROVE  OnceInv'
    BY <2>14 DEF MarkStale
  <2>15. ASSUME NEW p \in Passes, SetGate(p)
        PROVE  OnceInv'
    BY <2>15 DEF SetGate, SetReconciliationOk
  <2>16. ASSUME NEW p \in Passes, NEW agrees \in BOOLEAN, ListMismatches(p, agrees)
        PROVE  OnceInv'
    BY <2>16 DEF ListMismatches
  <2>17. CASE OperatorAction
    BY <2>17 DEF OperatorAction, SetMode, Arm, Stop, SetShield, ResetBreaker
  <2>18. CASE Restart
    <3>1. /\ pc' = [r \in Requests |-> IF pc[r] \in InFlight THEN "lost" ELSE pc[r]]
          /\ UNCHANGED <<req, atBroker>>
      BY <2>18 DEF Restart, Imported, Restored
    <3>2. SUFFICES ASSUME NEW k \in Keys, causes'[k] = {}
                   PROVE  OnceFor(k)'
      OBVIOUS
    <3>3. /\ causes[k] = {}
          /\ \A r \in Requests : ~(pc[r] = "returned" /\ Key(req[r]) = k)
          /\ \A r \in Rows \ Readable : k \notin {req[r].sig, req[r].cid}
      BY <3>2, <2>18 DEF Restart, Imported, Restored
    <3>4. \A r \in Requests : pc'[r] \notin InFlight
      BY <3>1
    <3>5. ASSUME NEW r \in Placed(k)
          PROVE  placedKeys'[k] # None
      <4>1. Seeds(k) # {}
        <5>1. CASE pc[r] \in {"recorded", "marked"}
          BY <5>1, <3>3 DEF Seeds, Key
        <5>2. CASE placedKeys[k] # None
          BY <5>2, <3>3 DEF Seeds
        <5>3. pc[r] # "calling" /\ pc[r] # "returned"
          BY <3>3
        <5> QED
          BY <5>1, <5>2, <5>3, <3>3
      <4>2. Oldest(Seeds(k)) \in Requests
        <5>1. Seeds(k) \subseteq Requests
          BY DEF Seeds, Readable, Rows
        <5>2. rank \in [Requests -> Nat]
          BY DEF RowPlaces
        <5> QED
          BY ONLY <4>1, <5>1, <5>2, OldestExists
      <4> QED
        BY <4>1, <4>2, <2>18 DEF Restart, Imported, Restored
    <3> QED
      BY <3>1, <3>3, <3>4, <3>5
  <2>19. CASE UNCHANGED vars
    BY <2>19 DEF vars
  <2> QED
    BY <2>1, <2>2, <2>3, <2>4, <2>5, <2>6, <2>7, <2>8, <2>9, <2>10,
       <2>11, <2>12, <2>13, <2>14, <2>15, <2>16, <2>17, <2>18, <2>19
    DEF Next, PlaceOrder, BrokerCall, Reconcile
<1>3. OnceInv => AtMostOnceUnlessBlamed
  BY DEF OnceInv, OnceFor, AtMostOnceUnlessBlamed
<1> QED
  BY <1>1, <1>2, <1>3,
     OrdersTyping, OrderProgress, RowPlacesTyping, KeysTyping, PTL DEF Spec

-----------------------------------------------------------------------------
\* A signal shown as EXECUTED can be replayed, and one whose order can be
\* replayed is not shown as REJECTED (api.place_order, api._update_signal).
THEOREM SignalAgreement == Spec => []SignalAgreesWithKey
<1>1. Init => SignalAgreesWithKey
  BY DEF Init, SignalAgreesWithKey, Keys
<1>2. SignalAgreesWithKey /\ Orders /\ KeysMap /\ [Next]_vars => SignalAgreesWithKey'
  <2> SUFFICES ASSUME SignalAgreesWithKey, Orders, KeysMap, [Next]_vars
               PROVE  SignalAgreesWithKey'
    OBVIOUS
  <2> USE OrderExecutionAssumption DEF OrderExecutionAssumption,
              SignalAgreesWithKey, Orders, KeysMap, Keys, Key, InputType, NoInput,
              modeVars, breakerVars, riskVars, orderVars, storeVars, signalVars,
              scanVars
  <2>1. ASSUME NEW s \in Signals, OnSignal(s) \/ ExpireSignal(s)
        PROVE  SignalAgreesWithKey'
    BY <2>1 DEF OnSignal, ExpireSignal
  <2>2. ASSUME NEW r \in Requests, NEW in \in Inputs,
              Replay(r, in) \/ Refuse(r, in) \/ Admit(r, in)
        PROVE  SignalAgreesWithKey'
    BY <2>2 DEF Replay, Refuse, Admit
  <2>3. ASSUME NEW r \in Requests, NEW in \in Inputs, Reject(r, in)
        PROVE  SignalAgreesWithKey'
    <3>1. UNCHANGED placedKeys
      BY <2>3 DEF Reject
    <3>2. CASE signals' = signals
      BY <3>1, <3>2
    <3>3. CASE signals' # signals
      <4>1. in.sig # None /\ signals' = [signals EXCEPT ![in.sig] = "REJECTED"]
        BY <3>3, <2>3 DEF Reject
      <4>2. placedKeys[in.sig] = None
        BY <4>1, <2>3 DEF Reject, IsReplay
      <4> QED
        BY <3>1, <4>1, <4>2
    <3> QED
      BY <3>2, <3>3
  <2>4. ASSUME NEW r \in Requests,
              RecordOrder(r) \/ MarkOrder(r) \/
              FinishOrderRaises(r) \/ BrokerTakes(r) \/
              BrokerFails(r) \/ BrokerFailsHalfway(r) \/
              (\E p \in Passes : MarkStale(p, r))
        PROVE  SignalAgreesWithKey'
    BY <2>4 DEF RecordOrder, MarkOrder, FinishOrderRaises, BrokerTakes,
            BrokerFails, BrokerFailsHalfway, MarkStale
  <2>5. ASSUME NEW r \in Requests, FinishOrder(r)
        PROVE  SignalAgreesWithKey'
    BY <2>5 DEF FinishOrder
  <2>6. ASSUME NEW r \in Requests, NEW win \in BOOLEAN, ClosePosition(r, win)
        PROVE  SignalAgreesWithKey'
    BY <2>6 DEF ClosePosition, RecordTradeResult
  <2>7. CASE AgeOrders \/ OperatorAction
    BY <2>7 DEF AgeOrders, OperatorAction, SetMode, Arm,
            Stop, SetShield, ResetBreaker
  <2>8. ASSUME NEW p \in Passes, StartScan(p)
        PROVE  SignalAgreesWithKey'
    BY <2>8 DEF StartScan
  <2>9. ASSUME NEW p \in Passes,
              SetGate(p) \/ \E agrees \in BOOLEAN : ListMismatches(p, agrees)
        PROVE  SignalAgreesWithKey'
    BY <2>9 DEF ListMismatches, SetGate, SetReconciliationOk
  <2>10. CASE Restart
    BY <2>10 DEF Restart, Imported, Restored, RiskReset
  <2>11. CASE UNCHANGED vars
    BY <2>11 DEF vars
  <2> QED
    BY <2>1, <2>2, <2>3, <2>4, <2>5, <2>6, <2>7, <2>8, <2>9, <2>10,
       <2>11
    DEF Next, PlaceOrder, BrokerCall, Reconcile
<1> QED
  BY <1>1, <1>2, OrdersTyping, KeysTyping, PTL DEF Spec

(***************************************************************************)
(* Why an unexplained UNKNOWN order closes the gate.  A pass that would    *)
(* open the gate although the order is there listed the ledger before the  *)
(* order was marked, which is an overlap; and while the gate is open some  *)
(* pass is on its way to close it, the one that marked the order first.    *)
(***************************************************************************)
Closing(p) == scan[p] \in {"reading", "closing"}

GateInv ==
    Unknown # {} /\ gateCauses = {} =>
        /\ \A p \in Passes : scan[p] # "opening"
        /\ reconOk => \E p \in Passes : Closing(p)

\* No step but marking a stale order and a start makes an order UNKNOWN, and
\* none takes one back while the process runs (execution.mark, restore).
LEMMA UnknownSteps ==
    ASSUME Orders, Scans, Progress, [Next]_vars, Unknown' # Unknown
    PROVE  Restart \/ \E p \in Passes, r \in Requests : MarkStale(p, r)
<1> USE DEF Orders, Scans, Progress, Unknown, modeVars, breakerVars, riskVars,
            orderVars, storeVars, signalVars, scanVars
<1>1. ASSUME NEW r \in Requests, RecordOrder(r)
      PROVE  Unknown' = Unknown
  BY <1>1 DEF RecordOrder, Rows
<1>2. ASSUME NEW r \in Requests, MarkOrder(r)
      PROVE  Unknown' = Unknown
  BY <1>2 DEF MarkOrder
<1>3. ASSUME NEW r \in Requests,
            FinishOrder(r) \/ FinishOrderRaises(r) \/ BrokerCall(r)
      PROVE  ledger' = ledger
  BY <1>3 DEF FinishOrder, FinishOrderRaises, BrokerCall, BrokerTakes, BrokerFails,
              BrokerFailsHalfway
<1>4. ASSUME NEW r \in Requests, NEW in \in Inputs,
            Replay(r, in) \/ Refuse(r, in) \/ Reject(r, in) \/ Admit(r, in)
      PROVE  ledger' = ledger
  BY <1>4 DEF Replay, Refuse, Reject, Admit
<1>5. ASSUME NEW s \in Signals, OnSignal(s) \/ ExpireSignal(s)
      PROVE  ledger' = ledger
  BY <1>5 DEF OnSignal, ExpireSignal
<1>6. ASSUME NEW r \in Requests, NEW win \in BOOLEAN, ClosePosition(r, win)
      PROVE  ledger' = ledger
  BY <1>6 DEF ClosePosition
<1>7. ASSUME NEW p \in Passes,
            StartScan(p) \/ SetGate(p) \/ \E agrees \in BOOLEAN : ListMismatches(p, agrees)
      PROVE  ledger' = ledger
  BY <1>7 DEF StartScan, SetGate, ListMismatches
<1>8. AgeOrders \/ OperatorAction \/ UNCHANGED vars => ledger' = ledger
  BY DEF AgeOrders, OperatorAction, vars
<1>9. ledger' # ledger
  OBVIOUS
<1> HIDE DEF Orders, Scans, Progress, Unknown
<1> QED
  BY <1>1, <1>2, <1>3, <1>4, <1>5, <1>6, <1>7, <1>8, <1>9
     DEF Next, PlaceOrder, Reconcile

\* With no pass under way an UNKNOWN order keeps the gate for real brokers
\* closed, however passes overlap, but for the three events of GateCauses
\* (execution.reconcile, stale_unknown_orders).
THEOREM UnknownKeepsGateClosed == Spec => []UnknownClosesGate
<1>1. Init => GateInv
  BY DEF Init, GateInv, Unknown
<1>2. GateInv /\ Orders /\ Scans /\ Progress /\ [Next]_vars => GateInv'
  <2> SUFFICES ASSUME GateInv, Orders, Scans, Progress, [Next]_vars
               PROVE  GateInv'
    OBVIOUS
  <2> USE DEF Scans, PassPhases, Closing, modeVars, breakerVars, riskVars,
              orderVars, storeVars, signalVars, scanVars
  <2>1. ASSUME UNCHANGED <<scan, gateCauses, reconOk>>, Unknown' = Unknown
        PROVE  GateInv'
    BY <2>1 DEF GateInv
  <2>2. ASSUME NEW p \in Passes, NEW r \in Requests, MarkStale(p, r)
        PROVE  GateInv'
    <3>1. Closing(p)' /\ scan' = scan
      BY <2>2 DEF MarkStale
    <3>2. gateCauses' = {} => \A q \in Passes : scan[q] # "opening"
      BY <2>2 DEF MarkStale
    <3> QED
      BY <3>1, <3>2 DEF GateInv
  <2>3. CASE Restart
    <3>1. /\ Unknown' = {r \in Requests : Restored[r] = "UNKNOWN"}
          /\ gateCauses' = {c \in {"restart"} : \E r \in Requests : Restored[r] = "UNKNOWN"}
      BY <2>3 DEF Restart, Unknown
    <3> QED
      BY <3>1 DEF GateInv
  <2> SUFFICES ASSUME Unknown' = Unknown PROVE GateInv'
    BY <2>2, <2>3, UnknownSteps
  <2>4. ASSUME NEW r \in Requests, RecordOrder(r)
        PROVE  GateInv'
    <3>1. PICK raising \in SUBSET Reading :
            /\ scan' = [p \in Passes |-> IF p \in raising THEN "idle" ELSE scan[p]]
            /\ gateCauses' = gateCauses \union
                    {c \in {"raised"} : raising # {} /\ Unknown # {}}
      BY <2>4 DEF RecordOrder
    <3>2. reconOk' = reconOk
      BY <2>4 DEF RecordOrder
    <3>3. CASE raising = {}
      BY <3>1, <3>2, <3>3 DEF GateInv
    <3>4. CASE raising # {}
      BY <3>1, <3>4 DEF GateInv
    <3> QED
      BY <3>3, <3>4
  <2>5. ASSUME NEW p \in Passes, StartScan(p)
        PROVE  GateInv'
    BY <2>5 DEF StartScan, GateInv
  <2>6. ASSUME NEW p \in Passes, NEW agrees \in BOOLEAN, ListMismatches(p, agrees)
        PROVE  GateInv'
    <3>1. /\ UNCHANGED <<gateCauses, reconOk>>
          /\ Unknown # {} => scan' = [scan EXCEPT ![p] = "closing"]
      BY <2>6 DEF ListMismatches
    <3> QED
      BY <3>1 DEF GateInv
  <2>7. ASSUME NEW p \in Passes, SetGate(p)
        PROVE  GateInv'
    <3>1. /\ scan[p] \in {"opening", "closing"}
          /\ scan' = [scan EXCEPT ![p] = "idle"]
          /\ reconOk' = (scan[p] = "opening")
          /\ gateCauses' = IF Unknown # {} /\ \E q \in Passes : scan[q] = "opening"
                           THEN gateCauses ELSE {}
      BY <2>7 DEF SetGate, SetReconciliationOk
    <3>2. CASE \E q \in Passes : scan[q] = "opening"
      BY <3>1, <3>2 DEF GateInv
    <3>3. CASE \A q \in Passes : scan[q] # "opening"
      BY <3>1, <3>3 DEF GateInv
    <3> QED
      BY <3>2, <3>3
  <2>8. ASSUME NEW r \in Requests,
              MarkOrder(r) \/ FinishOrder(r) \/ FinishOrderRaises(r) \/ BrokerCall(r)
        PROVE  GateInv'
    BY <2>8, <2>1 DEF MarkOrder, FinishOrder, FinishOrderRaises, BrokerCall,
            BrokerTakes, BrokerFails, BrokerFailsHalfway
  <2>9. ASSUME NEW r \in Requests, NEW in \in Inputs,
              Replay(r, in) \/ Refuse(r, in) \/ Reject(r, in) \/ Admit(r, in)
        PROVE  GateInv'
    BY <2>9, <2>1 DEF Replay, Refuse, Reject, Admit
  <2>10. ASSUME NEW s \in Signals, OnSignal(s) \/ ExpireSignal(s)
         PROVE  GateInv'
    BY <2>10, <2>1 DEF OnSignal, ExpireSignal
  <2>11. ASSUME NEW r \in Requests, NEW win \in BOOLEAN, ClosePosition(r, win)
         PROVE  GateInv'
    BY <2>11, <2>1 DEF ClosePosition, RecordTradeResult
  <2>12. CASE AgeOrders \/ OperatorAction
    BY <2>12, <2>1 DEF AgeOrders, OperatorAction, SetMode, Arm, Stop, SetShield,
            ResetBreaker
  <2>13. CASE UNCHANGED vars
    BY <2>13, <2>1 DEF vars
  <2> QED
    BY <2>2, <2>3, <2>4, <2>5, <2>6, <2>7, <2>8, <2>9, <2>10, <2>11, <2>12, <2>13
    DEF Next, PlaceOrder, Reconcile
<1>3. GateInv => UnknownClosesGate
  BY DEF GateInv, UnknownClosesGate, Closing
<1> QED
  BY <1>1, <1>2, <1>3, OrdersTyping, ScansTyping, OrderProgress, PTL DEF Spec

-----------------------------------------------------------------------------
Durable ==
    /\ boots' = boots =>
            \A r \in Requests : ledger[r] \in Settled => ledger'[r] = ledger[r]
    /\ \A r \in Requests : ledger'[r] \in {"ABSENT", db'[r]}

\* While the process runs a FILLED, REJECTED, CANCELLED or UNKNOWN order stays
\* so, and at every step the orders table says what the ledger says
\* (execution.mark, stale_unknown_orders and their write-through).
THEOREM LedgerDurability == Spec => LedgerIsDurable
<1>1. Numbers /\ Orders /\ Scans /\ Progress /\ [Next]_vars => Durable
  <2> SUFFICES ASSUME Numbers, Orders, Scans, Progress, [Next]_vars
               PROVE  Durable
    OBVIOUS
  <2> USE DEF Numbers, Orders, Scans, Progress, Durable, Settled,
              modeVars, breakerVars, riskVars, orderVars, storeVars, signalVars,
              scanVars
  <2>1. ASSUME NEW s \in Signals, OnSignal(s) \/ ExpireSignal(s)
        PROVE  Durable
    BY <2>1 DEF OnSignal, ExpireSignal
  <2>2. ASSUME NEW r \in Requests, NEW in \in Inputs,
              Replay(r, in) \/ Refuse(r, in) \/ Reject(r, in) \/
              Admit(r, in)
        PROVE  Durable
    BY <2>2 DEF Replay, Refuse, Reject, Admit
  <2>3. ASSUME NEW r \in Requests, RecordOrder(r)
        PROVE  Durable
    <3>1. ledger[r] = "ABSENT"
      BY <2>3 DEF RecordOrder, Rows
    <3>2. /\ ledger' = [ledger EXCEPT ![r] = "PENDING"]
          /\ db' = [db EXCEPT ![r] = "PENDING"]
      BY <2>3 DEF RecordOrder
    <3> QED
      BY <3>1, <3>2
  <2>4. ASSUME NEW r \in Requests, MarkOrder(r)
        PROVE  Durable
    BY <2>4 DEF MarkOrder
  <2>5. ASSUME NEW r \in Requests,
              FinishOrder(r) \/ FinishOrderRaises(r) \/
              BrokerTakes(r) \/ BrokerFails(r) \/
              BrokerFailsHalfway(r)
        PROVE  Durable
    BY <2>5 DEF FinishOrder, FinishOrderRaises, BrokerTakes, BrokerFails,
            BrokerFailsHalfway
  <2>6. ASSUME NEW r \in Requests, NEW win \in BOOLEAN, ClosePosition(r, win)
        PROVE  Durable
    BY <2>6 DEF ClosePosition, RecordTradeResult
  <2>7. CASE AgeOrders \/ OperatorAction
    BY <2>7 DEF AgeOrders, OperatorAction, SetMode, Arm,
            Stop, SetShield, ResetBreaker
  <2>8. ASSUME NEW p \in Passes, StartScan(p)
        PROVE  Durable
    BY <2>8 DEF StartScan
  <2>9. ASSUME NEW p \in Passes, NEW r \in Requests, MarkStale(p, r)
        PROVE  Durable
    BY <2>9 DEF MarkStale
  <2>10. ASSUME NEW p \in Passes,
              SetGate(p) \/ \E agrees \in BOOLEAN : ListMismatches(p, agrees)
        PROVE  Durable
    BY <2>10 DEF ListMismatches, SetGate, SetReconciliationOk
  <2>11. CASE Restart
    BY <2>11 DEF Restart, Imported, Restored, RiskReset
  <2>12. CASE UNCHANGED vars
    BY <2>12 DEF vars
  <2> QED
    BY <2>1, <2>2, <2>3, <2>4, <2>5, <2>6, <2>7, <2>8, <2>9, <2>10,
       <2>11, <2>12
    DEF Next, PlaceOrder, BrokerCall, Reconcile
<1> QED
  BY <1>1, 
     NumbersTyping, OrdersTyping, ScansTyping, OrderProgress, PTL DEF Spec, LedgerIsDurable, Durable

-----------------------------------------------------------------------------
(***************************************************************************)
(* The bound on paper positions.  While two paper orders have not been     *)
(* with the broker together, the one that is counts as a position already. *)
(***************************************************************************)
PaperCalls == {r \in Requests : pc[r] = "calling" /\ req[r].broker = Paper}

LimitInv ==
    /\ IsFiniteSet(paperOpen)
    /\ ~limitRace =>
        /\ \A r, q \in PaperCalls : r = q
        /\ Cardinality(paperOpen) <= MaxOpenPositions
        /\ PaperCalls # {} => Cardinality(paperOpen) < MaxOpenPositions

\* MAX_OPEN_POSITIONS bounds the open paper positions while no two paper orders
\* were with the broker together (risk.enforce_limits, api.place_order).
THEOREM PositionLimitHolds == Spec => []PositionLimit
<1>1. Init => LimitInv
  <2> SUFFICES ASSUME Init PROVE LimitInv
    OBVIOUS
  <2>1. paperOpen = {} /\ PaperCalls = {}
    BY DEF Init, PaperCalls
  <2> QED
    BY <2>1, FS_EmptySet, OrderExecutionAssumption DEF LimitInv, OrderExecutionAssumption
<1>2. LimitInv /\ Flags /\ Orders /\ [Next]_vars => LimitInv'
  <2> SUFFICES ASSUME LimitInv, Flags, Orders, [Next]_vars
               PROVE  LimitInv'
    OBVIOUS
  <2> USE DEF modeVars, breakerVars, riskVars, orderVars, storeVars, signalVars,
              scanVars
  <2>1. ASSUME NEW s \in Signals, OnSignal(s) \/ ExpireSignal(s)
        PROVE  LimitInv'
    <3>1. PaperCalls' \subseteq PaperCalls /\ UNCHANGED <<paperOpen, limitRace>>
      BY <2>1 DEF OnSignal, ExpireSignal, PaperCalls, Orders, Answer, Steps
    <3> QED
      BY <3>1 DEF LimitInv
  <2>2. ASSUME NEW r \in Requests, NEW in \in Inputs,
              Replay(r, in) \/ Refuse(r, in) \/ Reject(r, in)
        PROVE  LimitInv'
    <3>1. PaperCalls' \subseteq PaperCalls /\ UNCHANGED <<paperOpen, limitRace>>
      BY <2>2 DEF Replay, Refuse, Reject, PaperCalls, Orders, Answer, Steps
    <3> QED
      BY <3>1 DEF LimitInv
  <2>3. ASSUME NEW r \in Requests, NEW in \in Inputs, Admit(r, in)
        PROVE  LimitInv'
    <3>0. IsFiniteSet(paperOpen) /\ Cardinality(paperOpen) \in Nat
      BY FS_CardinalityType DEF LimitInv
    <3>1. /\ PaperCalls' \subseteq PaperCalls \union {r}
          /\ in.broker # Paper => r \notin PaperCalls'
          /\ UNCHANGED paperOpen
          /\ pc[r] = "idle" /\ r \notin PaperCalls
      BY <2>3 DEF Admit, PaperCalls, Orders, Answer, Arrives
    <3>2. ~limitRace' => ~limitRace /\ (in.broker = Paper => PaperCalls = {})
      <4>1. limitRace' = (limitRace \/ (in.broker = Paper /\
                \E q \in Requests : pc[q] = "calling" /\ req[q].broker = Paper))
        BY <2>3 DEF Admit
      <4> QED
        BY <4>1 DEF PaperCalls
    <3>3. in.broker = Paper => Cardinality(paperOpen) < MaxOpenPositions
      BY <2>3 DEF Admit, Gate, PositionsOk
    <3>4. limitRace \in BOOLEAN /\ limitRace' \in BOOLEAN
      BY <2>3 DEF Admit, Flags
    <3>5. ~limitRace' =>
            /\ \A p, q \in PaperCalls' : p = q
            /\ PaperCalls' # {} => Cardinality(paperOpen) < MaxOpenPositions
      BY <3>1, <3>2, <3>3, <3>4 DEF LimitInv
    <3> QED
      BY <3>1, <3>2, <3>4, <3>5 DEF LimitInv
  <2>4. ASSUME NEW r \in Requests,
              RecordOrder(r) \/ MarkOrder(r) \/ FinishOrder(r)
              \/ FinishOrderRaises(r) \/ BrokerFails(r) \/
              BrokerFailsHalfway(r) \/ (\E p \in Passes : MarkStale(p, r))
        PROVE  LimitInv'
    <3>1. PaperCalls' \subseteq PaperCalls /\ UNCHANGED <<paperOpen, limitRace>>
      BY <2>4 DEF RecordOrder, MarkOrder, FinishOrder, FinishOrderRaises,
                 BrokerFails, BrokerFailsHalfway, MarkStale, PaperCalls, Orders, Answer, Steps
    <3> QED
      BY <3>1 DEF LimitInv
  <2>5. ASSUME NEW r \in Requests, BrokerTakes(r)
        PROVE  LimitInv'
    <3>0. IsFiniteSet(paperOpen) /\ Cardinality(paperOpen) \in Nat
      BY FS_CardinalityType DEF LimitInv
    <3>1. /\ PaperCalls' = PaperCalls \ {r}
          /\ UNCHANGED limitRace
          /\ req[r].broker = Paper => r \in PaperCalls /\ paperOpen' = paperOpen \union {r}
          /\ req[r].broker # Paper => paperOpen' = paperOpen
      BY <2>5 DEF BrokerTakes, PaperCalls, Orders, Answer
    <3>2. CASE req[r].broker = Paper
      <4>1. /\ IsFiniteSet(paperOpen')
            /\ Cardinality(paperOpen') \in {Cardinality(paperOpen), Cardinality(paperOpen) + 1}
        BY <3>0, <3>1, <3>2, FS_AddElement
      <4>2. ~limitRace => PaperCalls' = {}
        BY <3>1, <3>2 DEF LimitInv
      <4> QED
        BY <3>0, <3>1, <3>2, <4>1, <4>2, OrderExecutionAssumption
           DEF LimitInv, OrderExecutionAssumption
    <3>3. CASE req[r].broker # Paper
      BY <3>1, <3>3 DEF LimitInv
    <3> QED
      BY <3>2, <3>3
  <2>6. ASSUME NEW r \in Requests, NEW win \in BOOLEAN, ClosePosition(r, win)
        PROVE  LimitInv'
    <3>0. IsFiniteSet(paperOpen) /\ Cardinality(paperOpen) \in Nat
      BY FS_CardinalityType DEF LimitInv
    <3>1. /\ PaperCalls' = PaperCalls /\ UNCHANGED limitRace
          /\ paperOpen' = paperOpen \ {r}
      BY <2>6 DEF ClosePosition, PaperCalls
    <3>2. IsFiniteSet(paperOpen') /\ Cardinality(paperOpen') <= Cardinality(paperOpen)
          /\ Cardinality(paperOpen') \in Nat
      BY <3>0, <3>1, FS_Subset, FS_CardinalityType
    <3> QED
      BY <3>0, <3>1, <3>2, OrderExecutionAssumption DEF LimitInv, OrderExecutionAssumption
  <2>7. CASE AgeOrders \/ OperatorAction
    <3>1. PaperCalls' \subseteq PaperCalls /\ UNCHANGED <<paperOpen, limitRace>>
      BY <2>7 DEF AgeOrders, OperatorAction, SetMode,
                 Arm, Stop, SetShield, ResetBreaker, PaperCalls, Orders, Answer, Steps
    <3> QED
      BY <3>1 DEF LimitInv
  <2>8. ASSUME NEW p \in Passes, StartScan(p)
        PROVE  LimitInv'
    <3>1. PaperCalls' \subseteq PaperCalls /\ UNCHANGED <<paperOpen, limitRace>>
      BY <2>8 DEF StartScan, PaperCalls, Orders, Answer, Steps
    <3> QED
      BY <3>1 DEF LimitInv
  <2>9. ASSUME NEW p \in Passes,
              SetGate(p) \/ \E agrees \in BOOLEAN : ListMismatches(p, agrees)
        PROVE  LimitInv'
    <3>1. PaperCalls' \subseteq PaperCalls /\ UNCHANGED <<paperOpen, limitRace>>
      BY <2>9 DEF ListMismatches, SetGate, SetReconciliationOk, PaperCalls, Orders, Answer, Steps
    <3> QED
      BY <3>1 DEF LimitInv
  <2>10. CASE Restart
    <3>1. PaperCalls' = {} /\ paperOpen' = {}
      BY <2>10 DEF Restart, Imported, Restored, PaperCalls, InFlight
    <3>2. IsFiniteSet(paperOpen') /\ Cardinality(paperOpen') = 0
      BY <3>1, FS_EmptySet
    <3> QED
      BY <3>1, <3>2, OrderExecutionAssumption DEF LimitInv, OrderExecutionAssumption
  <2>11. CASE UNCHANGED vars
    BY <2>11 DEF vars, LimitInv, PaperCalls
  <2> QED
    BY <2>1, <2>2, <2>3, <2>4, <2>5, <2>6, <2>7, <2>8, <2>9, <2>10,
       <2>11
    DEF Next, PlaceOrder, BrokerCall, Reconcile
<1>3. LimitInv => PositionLimit
  BY DEF LimitInv, PositionLimit
<1> QED
  BY <1>1, <1>2, <1>3, FlagsTyping, OrdersTyping, PTL DEF Spec

-----------------------------------------------------------------------------
(***************************************************************************)
(* Why a start that cannot read every row reads exactly ReadLimit of them: *)
(* the places of the rows are 1, 2, ... without a gap or a double.  A row  *)
(* within the limit is never forgotten, for its place never changes.       *)
(***************************************************************************)
Ranked ==
    /\ \A r \in Rows : rank[r] \in 1..Cardinality(Rows)
    /\ \A r, q \in Rows : rank[r] = rank[q] => r = q
    /\ \A n \in 1..Cardinality(Rows) : \E r \in Rows : rank[r] = n
    /\ \A r \in Requests \ Rows : rank[r] = 0
    /\ \A r \in Readable : ledger[r] # "ABSENT"

\* A step that leaves the rows and their places alone, and takes no entry out
\* of the ledger, leaves the places in order.
LEMMA RankedKept ==
    ASSUME Ranked, Rows' = Rows, rank' = rank,
           \A r \in Requests : ledger[r] # "ABSENT" => ledger'[r] # "ABSENT"
    PROVE  Ranked'
<1>1. Readable' = Readable /\ Readable \subseteq Requests
  BY DEF Readable, Rows
<1> QED
  BY <1>1 DEF Ranked

\* The rows of the orders table are numbered from one on (db.read_orders).
LEMMA RankedHolds == Spec => []Ranked
<1>1. Init => Ranked
  <2> SUFFICES ASSUME Init PROVE Ranked
    OBVIOUS
  <2>1. Rows = {} /\ Cardinality(Rows) = 0
    BY FS_EmptySet DEF Init, Rows
  <2> QED
    BY <2>1 DEF Init, Ranked, Readable
<1>2. Ranked /\ Orders /\ Scans /\ Progress /\ RowPlaces /\ [Next]_vars => Ranked'
  <2> SUFFICES ASSUME Ranked, Orders, Scans, Progress, RowPlaces, [Next]_vars
               PROVE  Ranked'
    OBVIOUS
  <2> USE DEF modeVars, breakerVars, riskVars, orderVars, storeVars, signalVars,
              scanVars
  <2>1. ASSUME UNCHANGED <<db, rank, ledger>>
        PROVE  Ranked'
    BY <2>1, RankedKept DEF Rows
  <2>2. ASSUME NEW r \in Requests, RecordOrder(r)
        PROVE  Ranked'
    <3> DEFINE n == Cardinality(Rows)
    <3>1. /\ Rows' = Rows \union {r}
          /\ r \notin Rows
      BY <2>2 DEF RecordOrder, Orders, Progress, Rows
    <3>2. n \in Nat /\ Cardinality(Rows') = n + 1
      BY <3>1, FS_AddElement, FS_CardinalityType DEF RowPlaces
    <3>3. /\ rank' = [rank EXCEPT ![r] = n + 1]
          /\ ledger' = [ledger EXCEPT ![r] = "PENDING"]
      BY <2>2 DEF RecordOrder
    <3> HIDE DEF n
    <3>4. /\ rank'[r] = n + 1
          /\ \A q \in Requests \ {r} : rank'[q] = rank[q] /\ ledger'[q] = ledger[q]
          /\ ledger'[r] = "PENDING"
      BY <3>3 DEF RowPlaces, Orders
    <3>5. Rows \subseteq Requests
      BY DEF Rows
    <3>6. /\ \A q \in Rows : rank[q] \in 1..n
          /\ \A q, p \in Rows : rank[q] = rank[p] => q = p
          /\ \A i \in 1..n : \E q \in Rows : rank[q] = i
          /\ \A q \in Requests \ Rows : rank[q] = 0
          /\ \A q \in Rows : rank[q] <= ReadLimit => ledger[q] # "ABSENT"
      BY DEF Ranked, Readable, n
    <3>7. 1..(n + 1) = (1..n) \union {n + 1} /\ n + 1 \notin 1..n
      BY <3>2
    <3>8. \A q \in Rows : q # r /\ rank'[q] = rank[q] /\ ledger'[q] = ledger[q]
      BY <3>1, <3>4, <3>5
    <3>9. \A q \in Rows' : rank'[q] \in 1..(n + 1)
      BY <3>1, <3>4, <3>6, <3>7, <3>8
    <3>10. \A q, p \in Rows' : rank'[q] = rank'[p] => q = p
      BY <3>1, <3>4, <3>6, <3>7, <3>8
    <3>11. \A i \in 1..(n + 1) : \E q \in Rows' : rank'[q] = i
      BY <3>1, <3>4, <3>6, <3>7, <3>8
    <3>12. \A q \in Requests \ Rows' : rank'[q] = 0
      BY <3>1, <3>4, <3>6
    <3>13. \A q \in Readable' : ledger'[q] # "ABSENT"
      BY <3>1, <3>4, <3>6, <3>8 DEF Readable
    <3> QED
      BY <3>2, <3>9, <3>10, <3>11, <3>12, <3>13 DEF Ranked
  <2>3. ASSUME NEW r \in Requests, MarkOrder(r) \/ (\E p \in Passes : MarkStale(p, r))
        PROVE  Ranked'
    <3>1. ledger[r] \notin {"ABSENT"} /\ ledger[r] = db[r] /\ UNCHANGED rank
      BY <2>3 DEF MarkOrder, MarkStale, Progress, Scans
    <3>2. PICK status \in Statuses : /\ ledger' = [ledger EXCEPT ![r] = status]
                                     /\ db' = [db EXCEPT ![r] = status]
      BY <2>3 DEF MarkOrder, MarkStale, Statuses
    <3>3. Rows' = Rows
      BY <3>1, <3>2 DEF Rows, Orders, Statuses
    <3>4. \A q \in Requests : ledger[q] # "ABSENT" => ledger'[q] # "ABSENT"
      BY <3>2 DEF Orders, Statuses
    <3> QED
      BY <3>1, <3>3, <3>4, RankedKept
  <2>4. CASE Restart
    <3>1. Rows' = Rows /\ UNCHANGED rank
      BY <2>4 DEF Restart, Imported, Rows, Progress
    <3>2. Readable' = Readable
      BY <3>1 DEF Readable
    <3>3. \A r \in Readable : ledger'[r] # "ABSENT"
      BY <2>4 DEF Restart, Imported, Restored, Readable, Rows
    <3> QED
      BY <3>1, <3>2, <3>3 DEF Ranked
  <2>5. ASSUME NEW s \in Signals, OnSignal(s) \/ ExpireSignal(s)
        PROVE  UNCHANGED <<db, rank, ledger>>
    BY <2>5 DEF OnSignal, ExpireSignal
  <2>6. ASSUME NEW r \in Requests, NEW in \in Inputs,
              Replay(r, in) \/ Refuse(r, in) \/ Reject(r, in) \/ Admit(r, in)
        PROVE  UNCHANGED <<db, rank, ledger>>
    BY <2>6 DEF Replay, Refuse, Reject, Admit
  <2>7. ASSUME NEW r \in Requests,
              FinishOrder(r) \/ FinishOrderRaises(r) \/
              BrokerTakes(r) \/ BrokerFails(r) \/ BrokerFailsHalfway(r)
        PROVE  UNCHANGED <<db, rank, ledger>>
    BY <2>7 DEF FinishOrder, FinishOrderRaises, BrokerTakes, BrokerFails,
            BrokerFailsHalfway
  <2>8. ASSUME NEW r \in Requests, NEW win \in BOOLEAN, ClosePosition(r, win)
        PROVE  UNCHANGED <<db, rank, ledger>>
    BY <2>8 DEF ClosePosition
  <2>9. CASE AgeOrders \/ OperatorAction
    BY <2>9, <2>1 DEF AgeOrders, OperatorAction
  <2>10. ASSUME NEW p \in Passes, StartScan(p)
         PROVE  UNCHANGED <<db, rank, ledger>>
    BY <2>10 DEF StartScan
  <2>11. ASSUME NEW p \in Passes,
               SetGate(p) \/ \E agrees \in BOOLEAN : ListMismatches(p, agrees)
         PROVE  UNCHANGED <<db, rank, ledger>>
    BY <2>11 DEF ListMismatches, SetGate
  <2>12. CASE UNCHANGED vars
    BY <2>12, <2>1 DEF vars
  <2> QED
    BY <2>1, <2>2, <2>3, <2>4, <2>5, <2>6, <2>7, <2>8, <2>9, <2>10,
       <2>11, <2>12
    DEF Next, PlaceOrder, BrokerCall, Reconcile
<1> QED
  BY <1>1, <1>2, OrdersTyping, ScansTyping, OrderProgress, RowPlacesTyping, PTL DEF Spec

\* The rows a start reads are all rows, or ReadLimit of them (db.read_orders).
LEMMA ReadableRows ==
    ASSUME Ranked, RowPlaces, Readable # Rows
    PROVE  Cardinality(Readable) = ReadLimit
<1> DEFINE n == Cardinality(Rows)
           f == [r \in Readable |-> rank[r]]
<1>1. n \in Nat /\ ReadLimit \in Nat /\ Readable \subseteq Rows /\ Rows \subseteq Requests
  BY FS_CardinalityType, OrderExecutionAssumption
     DEF RowPlaces, Readable, Rows, OrderExecutionAssumption
<1>2. /\ \A r \in Rows : rank[r] \in 1..n
      /\ \A r, q \in Rows : rank[r] = rank[q] => r = q
      /\ \A i \in 1..n : \E r \in Rows : rank[r] = i
      /\ \A r \in Rows : r \in Readable <=> rank[r] <= ReadLimit
  BY DEF Ranked, Readable
<1> HIDE DEF n
<1>3. ReadLimit < n
  <2>1. PICK r \in Rows : r \notin Readable
    BY <1>1
  <2> QED
    BY <2>1, <1>1, <1>2
<1>4. f \in Bijection(Readable, 1..ReadLimit)
  <2>1. \A r \in Readable : f[r] \in 1..ReadLimit
    BY <1>1, <1>2
  <2>2. f \in [Readable -> 1..ReadLimit]
    BY <2>1
  <2>3. \A r, q \in Readable : f[r] = f[q] => r = q
    BY <1>1, <1>2
  <2>4. \A i \in 1..ReadLimit : \E r \in Readable : f[r] = i
    BY <1>1, <1>2, <1>3
  <2> HIDE DEF f
  <2> QED
    BY <2>2, <2>3, <2>4, Fun_IsBij
<1>5. IsFiniteSet(Readable)
  BY <1>1, FS_Subset DEF RowPlaces
<1>6. Cardinality(1..ReadLimit) = ReadLimit
  BY <1>1, FS_Interval
<1>7. ExistsBijection(Readable, 1..ReadLimit)
  BY <1>4, Fun_ExistsBij
<1> QED
  BY <1>5, <1>6, <1>7, FS_Bijection

\* OrderTracking counts as this module does.
LEMMA CountingAgrees == \A S : Tracking!Cardinality(S) = Cardinality(S)
  BY Zenon DEF Tracking!Cardinality, Cardinality

\* What each clause of Fate asks of a request.
LEMMA FateCases ==
    ASSUME NEW r \in Requests
    PROVE  /\ Fate[r] = "tracked" <=> ledger[r] # "ABSENT"
           /\ Fate[r] = "none" <=> ledger[r] = "ABSENT" /\ r \notin atBroker
           /\ Fate[r] = "placed" <=>
                ledger[r] = "ABSENT" /\ r \in atBroker /\ pc[r] = "returned"
           /\ Fate[r] = "forgotten" <=>
                ledger[r] = "ABSENT" /\ r \in atBroker /\ pc[r] # "returned" /\ rank[r] > 0
           /\ Fate[r] = "orphaned" <=>
                ledger[r] = "ABSENT" /\ r \in atBroker /\ pc[r] # "returned" /\ ~(rank[r] > 0)
  BY DEF Fate

\* Two states in which every request meets the same clause have the same fate.
LEMMA SameFate ==
    ASSUME \A r \in Requests : Fate'[r] = Fate[r]
    PROVE  Fate' = Fate
  BY DEF Fate

\* A step that gives one request another fate, and only that one.
LEMMA NewFate ==
    ASSUME NEW r \in Requests, NEW f, Fate'[r] = f,
           \A q \in Requests \ {r} : Fate'[q] = Fate[q]
    PROVE  Tracking!Becomes(r, f)
<1>1. /\ Fate = [q \in Requests |-> Fate[q]]
      /\ Fate' = [q \in Requests |-> Fate'[q]]
  BY DEF Fate
<1>2. Fate' = [Fate EXCEPT ![r] = f]
  BY <1>1
<1> QED
  BY <1>2 DEF Tracking!Becomes

\* A start keeps all ledger entries or ReadLimit of them, and loses track of an
\* order that was placed and not recorded (execution.restore, db.read_orders).
LEMMA RestartRefines ==
    ASSUME Restart, Ranked, Orders, Progress, RowPlaces
    PROVE  Tracking!Restart
<1> DEFINE tracked == {r \in Requests : Fate[r] = "tracked"}
           kept == tracked \intersect Readable
<1>1. /\ UNCHANGED <<atBroker, rank>>
      /\ \A r \in Requests : pc'[r] # "returned"
      /\ \A r \in Requests : ledger'[r] = "ABSENT" <=> r \notin Readable
      /\ Readable \subseteq Rows /\ Rows \subseteq atBroker
  BY DEF Restart, Imported, Restored, Readable, Rows, Progress, Orders, InFlight
<1>2. \A r \in Requests :
        /\ r \in Readable => ledger[r] # "ABSENT"
        /\ ledger[r] # "ABSENT" => r \in Rows
        /\ r \in Rows <=> rank[r] > 0
        /\ pc[r] = "returned" => rank[r] = 0
  BY FS_CardinalityType DEF Ranked, RowPlaces, Progress, Rows, Readable
<1>3. kept # tracked => Cardinality(kept) = ReadLimit
  <2> SUFFICES ASSUME kept # tracked PROVE Cardinality(kept) = ReadLimit
    OBVIOUS
  <2>1. kept = Readable
    BY <1>1, <1>2, FateCases DEF Readable, Rows
  <2>2. Readable # Rows
    BY <1>2, FateCases
  <2> QED
    BY <2>1, <2>2, ReadableRows
<1>4. ASSUME NEW r \in Requests
      PROVE  Fate'[r] = CASE Fate[r] = "placed" -> "orphaned"
                          [] Fate[r] = "tracked" /\ r \notin kept -> "forgotten"
                          [] OTHER -> Fate[r]
  <2>1. r \in Readable => Fate'[r] = "tracked" /\ Fate[r] = "tracked" /\ r \in kept
    BY <1>1, <1>2, FateCases DEF Fate
  <2>2. r \in Rows \ Readable =>
            /\ Fate'[r] = "forgotten"
            /\ Fate[r] \in {"tracked", "forgotten"}
            /\ r \notin kept
    BY <1>1, <1>2, FateCases DEF Fate
  <2>3. r \notin Rows => 
            /\ r \notin atBroker => Fate'[r] = "none" /\ Fate[r] = "none"
            /\ r \in atBroker => Fate'[r] = "orphaned" /\ Fate[r] \in {"placed", "orphaned"}
    BY <1>1, <1>2, FateCases DEF Fate
  <2> QED
    BY <2>1, <2>2, <2>3
<1>5. Fate' = [r \in Requests |->
                CASE Fate[r] = "placed" -> "orphaned"
                  [] Fate[r] = "tracked" /\ r \notin kept -> "forgotten"
                  [] OTHER -> Fate[r]]
  BY <1>4 DEF Fate
<1>6. kept \in SUBSET tracked
  OBVIOUS
<1> QED
  BY <1>3, <1>5, <1>6, CountingAgrees DEF Tracking!Restart, Tracking!With

\* The order path implements OrderTracking, for any requests, brokers, keys,
\* starts and any limit of read_orders: an order the broker took is entered in
\* the ledger and stays there, but for the three gaps OrderTracking names.
THEOREM OrdersAreTracked == Spec => ImplementsTracking
<1>1. Init => Tracking!Init
  BY DEF Init, Tracking!Init, Fate
<1>2. Ranked /\ Orders /\ Scans /\ Progress /\ RowPlaces /\ [Next]_vars
        => [Tracking!Next]_Fate
  <2> SUFFICES ASSUME Ranked, Orders, Scans, Progress, RowPlaces, [Next]_vars
               PROVE  [Tracking!Next]_Fate
    OBVIOUS
  <2> USE DEF modeVars, breakerVars, riskVars, orderVars, storeVars, signalVars,
              scanVars
  <2>1. ASSUME UNCHANGED <<ledger, atBroker, rank>>,
              \A q \in Requests : pc'[q] = "returned" <=> pc[q] = "returned"
        PROVE  Fate' = Fate
    BY <2>1, SameFate DEF Fate
  <2>2. ASSUME NEW r \in Requests, BrokerTakes(r)
        PROVE  Tracking!Take(r)
    <3>0. ledger[r] = "ABSENT" /\ r \notin atBroker
      BY <2>2 DEF BrokerTakes, Progress, Rows
    <3>1. Fate[r] = "none" /\ Fate'[r] = "placed"
      BY <2>2, <3>0 DEF BrokerTakes, Fate, Orders, Answer
    <3>2. \A q \in Requests \ {r} : Fate'[q] = Fate[q]
      BY <2>2 DEF BrokerTakes, Fate, Orders, Answer
    <3> QED
      BY <3>1, <3>2, NewFate DEF Tracking!Take
  <2>3. ASSUME NEW r \in Requests, BrokerFailsHalfway(r)
        PROVE  Tracking!TakeAndFail(r)
    <3>0. ledger[r] = "ABSENT" /\ rank[r] = 0 /\ r \notin atBroker
      BY <2>3 DEF BrokerFailsHalfway, Progress, Rows, Ranked
    <3>1. Fate[r] = "none" /\ Fate'[r] = "orphaned"
      BY <2>3, <3>0 DEF BrokerFailsHalfway, Fate, Orders, Answer
    <3>2. \A q \in Requests \ {r} : Fate'[q] = Fate[q]
      BY <2>3 DEF BrokerFailsHalfway, Fate, Orders, Answer
    <3> QED
      BY <3>1, <3>2, NewFate DEF Tracking!TakeAndFail
  <2>4. ASSUME NEW r \in Requests, RecordOrder(r)
        PROVE  Tracking!Track(r)
    <3>0. ledger[r] = "ABSENT" /\ r \in atBroker /\ pc[r] = "returned"
      BY <2>4 DEF RecordOrder, Progress, Rows
    <3>1. Fate[r] = "placed" /\ Fate'[r] = "tracked"
      BY <2>4, <3>0 DEF RecordOrder, Fate, Orders
    <3>2. \A q \in Requests \ {r} : Fate'[q] = Fate[q]
      BY <2>4 DEF RecordOrder, Fate, Orders, RowPlaces, Answer
    <3> QED
      BY <3>1, <3>2, NewFate DEF Tracking!Track
  <2>5. ASSUME NEW r \in Requests, MarkOrder(r) \/ (\E p \in Passes : MarkStale(p, r))
        PROVE  Fate' = Fate
    <3>1. /\ ledger[r] # "ABSENT" /\ UNCHANGED <<atBroker, rank>>
          /\ \A q \in Requests : pc'[q] = "returned" <=> pc[q] = "returned"
      BY <2>5 DEF MarkOrder, MarkStale, Progress, Scans, Orders, Answer
    <3>2. PICK status \in Statuses : ledger' = [ledger EXCEPT ![r] = status]
      BY <2>5 DEF MarkOrder, MarkStale, Statuses
    <3>3. \A q \in Requests : ledger'[q] = "ABSENT" <=> ledger[q] = "ABSENT"
      BY <3>1, <3>2 DEF Orders, Statuses
    <3>4. \A q \in Requests : Fate'[q] = Fate[q]
      BY <3>1, <3>3 DEF Fate
    <3> QED
      BY <3>4, SameFate
  <2>6. ASSUME NEW s \in Signals, OnSignal(s) \/ ExpireSignal(s)
        PROVE  Fate' = Fate
    BY <2>1, <2>6 DEF OnSignal, ExpireSignal
  <2>7. ASSUME NEW r \in Requests, NEW in \in Inputs,
              Replay(r, in) \/ Refuse(r, in) \/ Reject(r, in) \/ Admit(r, in)
        PROVE  Fate' = Fate
    BY <2>1, <2>7 DEF Replay, Refuse, Reject, Admit, Arrives, Answer, Orders
  <2>8. ASSUME NEW r \in Requests,
              FinishOrder(r) \/ FinishOrderRaises(r) \/ BrokerFails(r)
        PROVE  Fate' = Fate
    BY <2>1, <2>8 DEF FinishOrder, FinishOrderRaises, BrokerFails, Answer, Orders
  <2>9. ASSUME NEW r \in Requests, NEW win \in BOOLEAN, ClosePosition(r, win)
        PROVE  Fate' = Fate
    BY <2>1, <2>9 DEF ClosePosition
  <2>10. CASE AgeOrders \/ OperatorAction
    BY <2>1, <2>10 DEF AgeOrders, OperatorAction
  <2>11. ASSUME NEW p \in Passes, StartScan(p)
         PROVE  Fate' = Fate
    BY <2>1, <2>11 DEF StartScan
  <2>12. ASSUME NEW p \in Passes,
               SetGate(p) \/ \E agrees \in BOOLEAN : ListMismatches(p, agrees)
         PROVE  Fate' = Fate
    BY <2>1, <2>12 DEF ListMismatches, SetGate
  <2>13. CASE Restart
    BY <2>13, RestartRefines DEF Tracking!Next
  <2>14. CASE UNCHANGED vars
    BY <2>1, <2>14 DEF vars
  <2> QED
    BY <2>2, <2>3, <2>4, <2>5, <2>6, <2>7, <2>8, <2>9, <2>10, <2>11,
       <2>12, <2>13, <2>14
    DEF Next, PlaceOrder, BrokerCall, Reconcile, Tracking!Next
<1> QED
  BY <1>1, <1>2, RankedHolds, OrdersTyping, ScansTyping, OrderProgress, RowPlacesTyping,
     PTL DEF Spec, ImplementsTracking, Tracking!Spec

=============================================================================
