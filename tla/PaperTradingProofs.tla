------------------------- MODULE PaperTradingProofs -------------------------
(***************************************************************************)
(* What holds of PaperTrading for any number of positions, of any quantity *)
(* and any number of targets, over any bars and restarts.                  *)
(***************************************************************************)
EXTENDS PaperTrading, FiniteSetTheorems, SequenceTheorems, TLAPS

-----------------------------------------------------------------------------
(***************************************************************************)
(* _exit_fraction: the quantity by number of targets, rounded.             *)
(***************************************************************************)
\* Division with a remainder, as Python's // and % give it.
LEMMA Division ==
    ASSUME NEW a \in Nat, NEW b \in Nat \ {0}
    PROVE  /\ a \div b \in Nat /\ a % b \in 0..(b - 1)
           /\ a = b * (a \div b) + (a % b)
<1>1. a \in Int /\ b \in Int /\ b > 0
  OBVIOUS
<1>2. a = b * (a \div b) + (a % b)
  BY <1>1, Z3T(30)
<1>3. a \div b \in Nat /\ a % b \in 0..(b - 1)
  BY <1>1, SMT
<1> QED
  BY <1>2, <1>3

\* Rounding misses the exact quotient by half a unit at most, so the targets
\* together miss the quantity by half a unit each.
LEMMA Rounding ==
    ASSUME NEW a \in Nat, NEW b \in Nat \ {0}
    PROVE  /\ RoundHalfEven(a, b) \in Nat
           /\ 2 * (a - b * RoundHalfEven(a, b)) <= b
<1> DEFINE q == a \div b
           m == a % b
<1>1. q \in Nat /\ m \in 0..(b - 1) /\ a = b * q + m
  BY Division
<1>2. RoundHalfEven(a, b) = IF 2 * m < b \/ (2 * m = b /\ q % 2 = 0) THEN q ELSE q + 1
  BY DEF RoundHalfEven
<1> HIDE DEF q, m
<1>3. CASE 2 * m < b \/ (2 * m = b /\ q % 2 = 0)
  <2>1. RoundHalfEven(a, b) = q /\ 2 * m <= b
    BY <1>1, <1>2, <1>3
  <2>2. a - b * q = m
    BY <1>1
  <2> QED
    BY <1>1, <2>1, <2>2
<1>4. CASE ~(2 * m < b \/ (2 * m = b /\ q % 2 = 0))
  <2>1. RoundHalfEven(a, b) = q + 1
    BY <1>2, <1>4
  <2>2. b * (q + 1) = b * q + b
    BY <1>1
  <2>3. a - b * (q + 1) = m - b
    BY <1>1, <2>2
  <2> QED
    BY <1>1, <2>1, <2>3
<1> QED
  BY <1>3, <1>4

\* A level gives up a whole unit at least, and the levels together leave half
\* a unit each at most.
LEMMA FractionBounds ==
    ASSUME NEW q, q.qty \in Nat, q.tps \in Nat \ {0}
    PROVE  /\ Fraction(q) \in Nat \ {0}
           /\ 2 * (q.qty - q.tps * Fraction(q)) <= q.tps
<1> DEFINE n == RoundHalfEven(q.qty, q.tps)
<1>1. n \in Nat /\ 2 * (q.qty - q.tps * n) <= q.tps
  BY Rounding
<1>2. Fraction(q) = IF n > 1 THEN n ELSE 1
  BY DEF Fraction
<1> HIDE DEF n
<1>3. CASE n > 1
  BY <1>1, <1>2, <1>3
<1>4. CASE n = 1
  BY <1>1, <1>2, <1>4
<1>5. CASE n = 0
  <2>1. q.tps * n = 0 /\ q.tps * 1 = q.tps
    BY <1>5
  <2> QED
    BY <1>1, <1>2, <1>5, <2>1
<1> QED
  BY <1>1, <1>3, <1>4, <1>5

-----------------------------------------------------------------------------
(***************************************************************************)
(* A position and its exits.  An open position has filled its targets in   *)
(* order, one fraction each; what a closed one gave up too much is less    *)
(* than a fraction.                                                        *)
(***************************************************************************)
PositionType ==
    [status: {"none", "open", "closed", "lost"},
     qty: Nat, tps: Nat, filled: Nat, remaining: Int]

Ordered(s) ==
    \A i \in 1..Len(s) : s[i].level = i \/ (s[i].level = StopLevel /\ i = Len(s))

Climbing(p) ==
    LET q == position[p] IN
    /\ q.remaining \in Nat \ {0}
    /\ q.remaining = q.qty - q.filled * Fraction(q)
    /\ Len(exits[p]) = q.filled
    /\ \A i \in 1..Len(exits[p]) : exits[p][i].level = i

Covered(p) ==
    LET q == position[p] IN
    /\ q.remaining <= 0
    /\ q.remaining > -Fraction(q)
    /\ exits[p][Len(exits[p])].level = StopLevel => q.remaining = 0

Ladder(p) ==
    LET q == position[p] IN
    /\ q.status = "none" => q = NoPosition /\ exits[p] = <<>>
    /\ q.status # "none" => q.qty # 0 /\ q.tps # 0 /\ q.filled <= q.tps
    /\ q.status = "open" => Climbing(p)
    /\ q.status = "closed" => Covered(p)
    /\ Ordered(exits[p])

Ladders ==
    /\ position \in [Positions -> PositionType]
    /\ exits \in [Positions -> Seq(ExitType)]
    /\ \A p \in Positions : Ladder(p)

\* What a bar does to one open position: a stop or the next target.
LEMMA BarExit ==
    ASSUME NEW stopped \in SUBSET Positions, NEW hit \in SUBSET Positions,
           OnBar(stopped, hit), Ladders, NEW p \in stopped \union hit
    PROVE  \E outcome \in {"stop", "target"} :
                LET e == Exit(p, outcome) IN
                /\ Open(p)
                /\ outcome = "target" => position[p].filled < position[p].tps
                /\ position'[p] = After(position[p], e)
                /\ exits'[p] = Append(exits[p], [level |-> e.level, qty |-> e.qty])
<1> DEFINE made == {Exit(r, "stop") : r \in stopped} \union {Exit(r, "target") : r \in hit}
           of == CHOOSE e \in made : e.pos = p
           outcome == IF p \in stopped THEN "stop" ELSE "target"
<1>1. of = Exit(p, outcome)
  <2>1. Exit(p, outcome) \in made /\ Exit(p, outcome).pos = p
    BY DEF Exit
  <2>2. \A e \in made : e.pos = p => e = Exit(p, outcome)
    BY DEF Exit, OnBar
  <2> HIDE DEF made
  <2> QED
    BY <2>1, <2>2
<1>2. /\ position'[p] = After(position[p], of)
      /\ exits'[p] = Append(exits[p], [level |-> of.level, qty |-> of.qty])
  BY DEF OnBar
<1>3. Open(p) /\ (outcome = "target" => position[p].filled < position[p].tps)
  BY DEF OnBar
<1> HIDE DEF of, outcome
<1>4. outcome \in {"stop", "target"}
  BY DEF outcome
<1> QED
  BY <1>1, <1>2, <1>3, <1>4

\* Exits that followed the targets in order still do with one exit more.
LEMMA OrderedAppend ==
    ASSUME NEW s \in Seq(ExitType), NEW e \in ExitType,
           \A i \in 1..Len(s) : s[i].level = i,
           e.level \in {StopLevel, Len(s) + 1}
    PROVE  LET t == Append(s, e) IN
           /\ t \in Seq(ExitType) /\ Len(t) = Len(s) + 1 /\ t[Len(t)] = e
           /\ Ordered(t)
           /\ e.level # StopLevel => \A i \in 1..Len(t) : t[i].level = i
<1> DEFINE t == Append(s, e)
<1>1. /\ t \in Seq(ExitType) /\ Len(t) = Len(s) + 1 /\ t[Len(t)] = e
      /\ Len(s) \in Nat
      /\ \A i \in 1..Len(s) : t[i] = s[i]
  BY AppendProperties, LenProperties
<1> HIDE DEF t
<1>2. \A i \in 1..Len(t) : i \in 1..Len(s) \/ i = Len(t)
  BY <1>1
<1>3. Ordered(t)
  BY <1>1, <1>2 DEF Ordered
<1>4. e.level # StopLevel => \A i \in 1..Len(t) : t[i].level = i
  BY <1>1, <1>2
<1> QED
  BY <1>1, <1>3, <1>4 DEF t

\* The step of one position at a bar keeps its ladder.
LEMMA BarKeepsLadder ==
    ASSUME Ladders, NEW p \in Positions, NEW outcome \in {"stop", "target"},
           Open(p),
           outcome = "target" => position[p].filled < position[p].tps,
           position'[p] = After(position[p], Exit(p, outcome)),
           exits'[p] = Append(exits[p], [level |-> Exit(p, outcome).level,
                                         qty |-> Exit(p, outcome).qty])
    PROVE  position'[p] \in PositionType /\ exits'[p] \in Seq(ExitType) /\ Ladder(p)'
<1> DEFINE q == position[p]
           e == Exit(p, outcome)
           x == [level |-> e.level, qty |-> e.qty]
           f == Fraction(q)
<1>1. /\ q \in PositionType /\ q.status = "open" /\ q.qty \in Nat \ {0}
      /\ q.tps \in Nat \ {0} /\ q.filled \in Nat /\ q.filled <= q.tps
      /\ q.remaining \in Nat \ {0} /\ q.remaining = q.qty - q.filled * f
      /\ exits[p] \in Seq(ExitType) /\ Len(exits[p]) = q.filled
      /\ \A i \in 1..Len(exits[p]) : exits[p][i].level = i
  BY DEF Ladders, Ladder, Climbing, Open, PositionType
<1>2. f \in Nat \ {0}
  BY <1>1, FractionBounds
<1>3. /\ e.level = IF outcome = "stop" THEN StopLevel ELSE q.filled + 1
      /\ e.qty = IF outcome = "stop" THEN q.remaining ELSE f
      /\ e.final = (e.qty >= q.remaining)
  BY DEF Exit
<1> DEFINE z == position'[p]
           still == IF e.final THEN "closed" ELSE "open"
<1>4. z = [q EXCEPT !.status = still,
                    !.remaining = @ - e.qty,
                    !.filled = IF e.level = StopLevel THEN @ ELSE @ + 1]
  BY DEF After
<1> HIDE DEF q, e, f, z
<1>5. still = IF e.qty >= q.remaining THEN "closed" ELSE "open"
  BY <1>3
<1> HIDE DEF still
<1>6. e.level \in Nat /\ e.qty \in Nat /\ e.level \in {StopLevel, Len(exits[p]) + 1}
  BY <1>1, <1>2, <1>3 DEF StopLevel
<1>7. /\ z.qty = q.qty /\ z.tps = q.tps
      /\ z.status = IF e.qty >= q.remaining THEN "closed" ELSE "open"
      /\ z.remaining = q.remaining - e.qty
      /\ z.filled = IF e.level = StopLevel THEN q.filled ELSE q.filled + 1
      /\ z \in PositionType
  <2>1. q \in [status: {"none", "open", "closed", "lost"},
               qty: Nat, tps: Nat, filled: Nat, remaining: Int]
    BY <1>1 DEF PositionType
  <2>2. /\ z.qty = q.qty /\ z.tps = q.tps
        /\ z.status = still /\ z.remaining = q.remaining - e.qty
        /\ z.filled = IF e.level = StopLevel THEN q.filled ELSE q.filled + 1
    BY <1>4, <2>1
  <2>3. still \in {"closed", "open"} /\ q.remaining - e.qty \in Int /\ q.filled + 1 \in Nat
    BY <1>1, <1>6, <1>5
  <2>4. z \in PositionType
    BY <1>4, <2>1, <2>3 DEF PositionType
  <2> QED
    BY <1>5, <2>2, <2>4
<1>8. x \in ExitType /\ x.level = e.level
  BY <1>6 DEF ExitType
<1> HIDE DEF x
<1>9. /\ exits'[p] \in Seq(ExitType) /\ Len(exits'[p]) = Len(exits[p]) + 1
      /\ exits'[p][Len(exits'[p])] = x
      /\ Ordered(exits'[p])
      /\ e.level # StopLevel => \A i \in 1..Len(exits'[p]) : exits'[p][i].level = i
  <2>1. exits'[p] = Append(exits[p], x)
    BY DEF x, e
  <2> QED
    BY <1>1, <1>6, <1>8, <2>1, OrderedAppend
<1>10. Fraction(z) = f
  BY <1>7 DEF Fraction, f
<1>11. CASE outcome = "stop"
  <2>1. z.remaining = 0 /\ z.filled = q.filled /\ z.status = "closed"
    BY <1>1, <1>3, <1>7, <1>11
  <2>2. Covered(p)'
    BY <1>2, <1>10, <2>1 DEF Covered, z
  <2> QED
    BY <1>1, <1>7, <1>9, <2>1, <2>2 DEF Ladder, PositionType, z
<1>12. CASE outcome = "target"
  <2>1. /\ e.level = q.filled + 1 /\ e.level # StopLevel /\ e.qty = f
        /\ z.filled = q.filled + 1 /\ z.filled <= z.tps
        /\ z.remaining = q.remaining - f
    <3>1. e.level = q.filled + 1 /\ e.qty = f
      BY <1>3, <1>12
    <3>2. q.filled < q.tps
      BY <1>12 DEF q
    <3> QED
      BY <1>1, <1>2, <1>7, <3>1, <3>2 DEF StopLevel
  <2>2. CASE e.qty >= q.remaining
    <3>1. z.status = "closed" /\ z.remaining <= 0 /\ z.remaining > -f
      BY <1>1, <1>2, <1>3, <1>7, <2>1, <2>2
    <3>2. Covered(p)'
      BY <1>8, <1>9, <1>10, <2>1, <3>1 DEF Covered, z
    <3> QED
      BY <1>1, <1>7, <1>9, <2>1, <3>1, <3>2 DEF Ladder, PositionType, z
  <2>3. CASE ~(e.qty >= q.remaining)
    <3>1. z.status = "open" /\ z.remaining \in Nat \ {0}
      BY <1>1, <1>2, <1>3, <1>7, <2>1, <2>3
    <3>2. z.remaining = z.qty - z.filled * f
      <4>1. (q.filled + 1) * f = q.filled * f + f
        BY <1>1, <1>2
      <4> QED
        BY <1>1, <1>2, <1>7, <2>1, <4>1
    <3>3. Climbing(p)'
      BY <1>1, <1>9, <1>10, <2>1, <3>1, <3>2 DEF Climbing, z
    <3> QED
      BY <1>1, <1>7, <1>9, <2>1, <3>1, <3>3 DEF Ladder, PositionType, z
  <2> QED
    BY <2>2, <2>3
<1> QED
  BY <1>11, <1>12

\* Every position keeps its ladder over bars and restarts (paper.place_bracket,
\* on_bar and _exit_fraction).
LEMMA LaddersHold == Spec => []Ladders
<1>1. Init => Ladders
  BY DEF Init, Ladders, Ladder, NoPosition, PositionType, Ordered, ExitType
<1>2. Ladders /\ [Next]_vars => Ladders'
  <2> SUFFICES ASSUME Ladders, [Next]_vars
               PROVE  Ladders'
    OBVIOUS
  <2>1. ASSUME NEW p \in Positions, NEW body \in Bodies, PlaceBracket(p, body)
        PROVE  Ladders'
    <3> DEFINE z == [status |-> "open", qty |-> body.qty, tps |-> body.tps,
                     filled |-> 0, remaining |-> body.qty]
    <3>1. body.qty \in Nat \ {0} /\ body.tps \in Nat \ {0}
      BY PaperTradingAssumption DEF PaperTradingAssumption
    <3>2. position' = [position EXCEPT ![p] = z] /\ exits' = exits
      BY <2>1 DEF PlaceBracket
    <3>3. z \in PositionType /\ position'[p] = z
      BY <3>1, <3>2 DEF Ladders, PositionType
    <3>4. exits[p] = <<>>
      BY <2>1 DEF PlaceBracket, Ladders, Ladder, NoPosition
    <3>5. Fraction(z) \in Nat
      BY <3>1, FractionBounds
    <3>6. 0 * Fraction(z) = 0
      BY <3>5
    <3>7. Climbing(p)'
      BY <3>1, <3>2, <3>3, <3>4, <3>6 DEF Climbing
    <3>8. Ladder(p)'
      BY <3>1, <3>2, <3>3, <3>4, <3>7 DEF Ladder, Ordered
    <3>9. \A r \in Positions \ {p} : Ladder(r)'
      BY <3>2 DEF Ladders, Ladder, Climbing, Covered
    <3> HIDE DEF z
    <3> QED
      BY <3>2, <3>3, <3>8, <3>9 DEF Ladders
  <2>2. ASSUME NEW stopped \in SUBSET Positions, NEW hit \in SUBSET Positions,
              OnBar(stopped, hit)
        PROVE  Ladders'
    <3>1. ASSUME NEW p \in stopped \union hit
          PROVE  position'[p] \in PositionType /\ exits'[p] \in Seq(ExitType) /\ Ladder(p)'
      BY <2>2, <3>1, BarExit, BarKeepsLadder
    <3>2. ASSUME NEW p \in Positions \ (stopped \union hit)
          PROVE  /\ position'[p] \in PositionType /\ exits'[p] \in Seq(ExitType)
                 /\ Ladder(p)'
      <4>1. position'[p] = position[p] /\ exits'[p] = exits[p]
        BY <2>2, <3>2 DEF OnBar
      <4> QED
        BY <4>1 DEF Ladders, Ladder, Climbing, Covered
    <3>3. /\ position' = [p \in Positions |-> position'[p]]
          /\ exits' = [p \in Positions |-> exits'[p]]
      BY <2>2 DEF OnBar
    <3> QED
      BY <3>1, <3>2, <3>3 DEF Ladders
  <2>3. CASE Restart
    <3>1. ASSUME NEW p \in Positions
          PROVE  position'[p] \in PositionType /\ Ladder(p)'
      <4>1. exits'[p] = exits[p]
        BY <2>3 DEF Restart
      <4>2. CASE position[p] = NoPosition
        <5>1. position'[p] = NoPosition
          BY <2>3, <4>2 DEF Restart
        <5> QED
          BY <4>1, <4>2, <5>1 DEF Ladders, Ladder, NoPosition, PositionType
      <4>3. CASE position[p] # NoPosition
        <5>1. position'[p] = [position[p] EXCEPT !.status = "lost"]
          BY <2>3, <4>3 DEF Restart
        <5>2. position[p] \in PositionType /\ position[p].status # "none"
          BY <4>3 DEF Ladders, Ladder
        <5> QED
          BY <4>1, <5>1, <5>2 DEF Ladders, Ladder, PositionType
      <4> QED
        BY <4>2, <4>3
    <3>2. /\ position' = [p \in Positions |-> position'[p]]
          /\ exits' = exits
      BY <2>3 DEF Restart
    <3> QED
      BY <3>1, <3>2 DEF Ladders
  <2>4. CASE UNCHANGED <<position, exits>>
    BY <2>4 DEF Ladders, Ladder, Climbing, Covered
  <2>5. ASSUME NEW e, NEW win \in BOOLEAN, BookTrade(e, win) \/ WriteEvent(e)
        PROVE  UNCHANGED <<position, exits>>
    BY <2>5 DEF BookTrade, WriteEvent
  <2>6. OperatorReset \/ UNCHANGED vars => UNCHANGED <<position, exits>>
    BY DEF OperatorReset, vars
  <2> QED
    BY <2>1, <2>2, <2>3, <2>4, <2>5, <2>6 DEF Next
<1> QED
  BY <1>1, <1>2, PTL DEF Spec

\* A position that closed gave up all of its quantity and at most a fraction
\* less one more, a stopped one exactly all (paper.on_bar, _exit_fraction).
THEOREM ExitsCover == Spec => []ExitsCoverPosition
<1>1. Ladders => ExitsCoverPosition
  BY DEF Ladders, Ladder, Covered, ExitsCoverPosition
<1> QED
  BY <1>1, LaddersHold, PTL

\* A position takes its targets in order, each once, and nothing after its stop
\* (paper.on_bar).
THEOREM LadderIsOrdered == Spec => []LadderOrder
<1>1. Ladders => LadderOrder
  BY DEF Ladders, Ladder, Ordered, LadderOrder
<1> QED
  BY <1>1, LaddersHold, PTL

\* What rounding leaves of a position after its last target is at most half a
\* unit for each target, for any quantity and number of targets (paper.on_bar).
THEOREM RunnerStaysSmall == Spec => []RunnerIsSmall
<1>1. Ladders => RunnerIsSmall
  <2> SUFFICES ASSUME Ladders, NEW p \in Positions, Open(p),
                      position[p].filled = position[p].tps
               PROVE  2 * position[p].remaining <= position[p].tps
    BY DEF RunnerIsSmall
  <2>1. /\ position[p].qty \in Nat /\ position[p].tps \in Nat \ {0}
        /\ position[p].remaining =
                position[p].qty - position[p].tps * Fraction(position[p])
    BY DEF Ladders, Ladder, Climbing, Open, PositionType
  <2> QED
    BY <2>1, FractionBounds
<1> QED
  BY <1>1, LaddersHold, PTL

-----------------------------------------------------------------------------
(***************************************************************************)
(* The risk engine's numbers, and the bookkeeping of exits: what is still  *)
(* to be booked closed its position and has no trade; what closed a        *)
(* position is booked before it is written.                                *)
(***************************************************************************)
Flags ==
    /\ emergencyStop \in BOOLEAN /\ shieldOn \in BOOLEAN
    /\ breakerOpen \in BOOLEAN /\ reconOk \in BOOLEAN

Numbers ==
    /\ mode \in VALID_MODES
    /\ armed \subseteq Brokers \ {Paper}
    /\ consecutiveLosses \in Nat
    /\ boots \in Nat

\* The risk engine's flags stay Booleans.
LEMMA FlagsTyping == Spec => []Flags
<1> USE DEF Flags, modeVars, breakerVars, riskVars
<1>1. Init => Flags
  BY DEF Init, RiskInit
<1>2. Flags /\ [Next]_vars => Flags'
  <2> SUFFICES ASSUME Flags, [Next]_vars
               PROVE  Flags'
    OBVIOUS
  <2>1. ASSUME NEW p \in Positions, NEW body \in Bodies, PlaceBracket(p, body)
        PROVE  Flags'
    BY <2>1 DEF PlaceBracket
  <2>2. ASSUME NEW stopped \in SUBSET Positions, NEW hit \in SUBSET Positions,
              OnBar(stopped, hit)
        PROVE  Flags'
    BY <2>2 DEF OnBar
  <2>3. ASSUME NEW e, NEW win \in BOOLEAN, BookTrade(e, win)
        PROVE  Flags'
    BY <2>3 DEF BookTrade, RecordTradeResult
  <2>4. ASSUME NEW e, WriteEvent(e)
        PROVE  Flags'
    BY <2>4 DEF WriteEvent
  <2>5. CASE Restart
    BY <2>5 DEF Restart, RiskReset
  <2>6. CASE OperatorReset
    BY <2>6 DEF OperatorReset, ResetBreaker
  <2>7. CASE UNCHANGED vars
    BY <2>7 DEF vars
  <2> QED
    BY <2>1, <2>2, <2>3, <2>4, <2>5, <2>6, <2>7 DEF Next
<1> QED
  BY <1>1, <1>2, PTL DEF Spec

\* Mode, armed brokers, losing streak and starts keep their types.
LEMMA NumbersTyping == Spec => []Numbers
<1> USE RiskGateAssumption DEF RiskGateAssumption, VALID_MODES, Numbers, modeVars,
        breakerVars, riskVars
<1>1. Init => Numbers
  BY DEF Init, RiskInit
<1>2. Numbers /\ [Next]_vars => Numbers'
  <2> SUFFICES ASSUME Numbers, [Next]_vars
               PROVE  Numbers'
    OBVIOUS
  <2>1. ASSUME NEW p \in Positions, NEW body \in Bodies, PlaceBracket(p, body)
        PROVE  Numbers'
    BY <2>1 DEF PlaceBracket
  <2>2. ASSUME NEW stopped \in SUBSET Positions, NEW hit \in SUBSET Positions,
              OnBar(stopped, hit)
        PROVE  Numbers'
    BY <2>2 DEF OnBar
  <2>3. ASSUME NEW e, NEW win \in BOOLEAN, BookTrade(e, win)
        PROVE  Numbers'
    BY <2>3 DEF BookTrade, RecordTradeResult
  <2>4. ASSUME NEW e, WriteEvent(e)
        PROVE  Numbers'
    BY <2>4 DEF WriteEvent
  <2>5. CASE Restart
    BY <2>5 DEF Restart, RiskReset
  <2>6. CASE OperatorReset
    BY <2>6 DEF OperatorReset, ResetBreaker
  <2>7. CASE UNCHANGED vars
    BY <2>7 DEF vars
  <2> QED
    BY <2>1, <2>2, <2>3, <2>4, <2>5, <2>6, <2>7 DEF Next
<1> QED
  BY <1>1, <1>2, PTL DEF Spec

Booked == {p \in Positions : trades[p] # <<>>}

Tables ==
    /\ trades \in [Positions -> Seq(Seq(ExitType))]
    /\ closed \in [Positions -> Seq(EventType)]
    /\ row \in [Positions -> EventType \union {None}]
    /\ toBook \subseteq EventType
    /\ toWrite \subseteq EventType

Booking ==
    /\ \A e \in toBook : position[e.pos].status = "closed" /\ trades[e.pos] = <<>>
    /\ \A e, f \in toBook : e.pos = f.pos => e = f
    /\ \A e \in toWrite : e.final => position[e.pos].status = "closed"
    /\ \A p \in Positions :
        /\ Len(trades[p]) <= 1
        /\ trades[p] # <<>> => position[p].status \in {"closed", "lost"}
        /\ position[p].status = "closed" =>
                trades[p] # <<>> \/ \E e \in toBook : e.pos = p
        /\ row[p] # None /\ row[p].final => trades[p] # <<>>

Streak == IsFiniteSet(Booked) /\ consecutiveLosses <= Cardinality(Booked)

\* What a bar makes of one open position, seen by the bookkeeping.
LEMMA BarEvents ==
    ASSUME NEW stopped \in SUBSET Positions, NEW hit \in SUBSET Positions,
           OnBar(stopped, hit), Ladders
    PROVE  /\ toWrite' \subseteq EventType
           /\ toBook' = {e \in toWrite' : e.final}
           /\ \A e \in toWrite' : e.pos \in stopped \union hit
           /\ \A e, f \in toWrite' : e.pos = f.pos => e = f
           /\ \A p \in stopped \union hit : \E e \in toWrite' :
                /\ e.pos = p
                /\ position'[p] = After(position[p], e)
           /\ \A p \in Positions \ (stopped \union hit) : position'[p] = position[p]
<1> DEFINE made == {Exit(r, "stop") : r \in stopped} \union {Exit(r, "target") : r \in hit}
<1>1. toWrite' = made /\ toBook' = {e \in made : e.final}
  BY DEF OnBar, Closing
<1>2. ASSUME NEW p \in stopped \union hit, NEW outcome \in {"stop", "target"}
      PROVE  Exit(p, outcome) \in EventType /\ Exit(p, outcome).pos = p
  <2>1. Open(p) /\ p \in Positions
    BY DEF OnBar
  <2>2. /\ position[p].remaining \in Nat /\ position[p].filled \in Nat
        /\ position[p].qty \in Nat /\ position[p].tps \in Nat \ {0}
    BY <2>1 DEF Ladders, Ladder, Climbing, Open, PositionType
  <2>3. Fraction(position[p]) \in Nat
    BY <2>2, FractionBounds
  <2> QED
    BY <2>1, <2>2, <2>3 DEF Exit, EventType, StopLevel
<1>3. stopped \intersect hit = {}
  BY DEF OnBar
<1>4. \A e \in made : e \in EventType /\ e.pos \in stopped \union hit
  BY <1>2
<1>5. \A e, f \in made : e.pos = f.pos => e = f
  BY <1>2, <1>3
<1>6. ASSUME NEW p \in stopped \union hit
      PROVE  \E e \in made : e.pos = p /\ position'[p] = After(position[p], e)
  <2> DEFINE of == CHOOSE e \in made : e.pos = p
  <2>1. \E e \in made : e.pos = p
    BY <1>2
  <2>2. position'[p] = After(position[p], of)
    BY DEF OnBar
  <2> HIDE DEF made
  <2> QED
    BY <2>1, <2>2
<1>7. \A p \in Positions \ (stopped \union hit) : position'[p] = position[p]
  BY DEF OnBar
<1> HIDE DEF made
<1> QED
  BY <1>1, <1>4, <1>5, <1>6, <1>7

\* The tables keep their types.
LEMMA TablesTyping == Spec => []Tables
<1>1. Init => Tables
  BY DEF Init, Tables
<1>2. Tables /\ Ladders /\ [Next]_vars => Tables'
  <2> SUFFICES ASSUME Tables, Ladders, [Next]_vars
               PROVE  Tables'
    OBVIOUS
  <2>1. ASSUME NEW p \in Positions, NEW body \in Bodies, PlaceBracket(p, body)
        PROVE  Tables'
    BY <2>1 DEF PlaceBracket, Tables
  <2>2. ASSUME NEW stopped \in SUBSET Positions, NEW hit \in SUBSET Positions,
              OnBar(stopped, hit)
        PROVE  Tables'
    <3>1. toWrite' \subseteq EventType /\ toBook' \subseteq EventType
      BY <2>2, BarEvents
    <3> QED
      BY <2>2, <3>1 DEF OnBar, Tables
  <2>3. ASSUME NEW e \in toBook, NEW win \in BOOLEAN, BookTrade(e, win)
        PROVE  Tables'
    <3> DEFINE trade == <<[level |-> e.level, qty |-> position[e.pos].qty]>>
    <3>1. e.pos \in Positions /\ e.level \in Nat
      BY DEF Tables, EventType
    <3>2. position[e.pos].qty \in Nat
      BY <3>1 DEF Ladders, PositionType
    <3>3. trade \in Seq(ExitType)
      BY <3>1, <3>2 DEF ExitType
    <3>4. trades' = [trades EXCEPT ![e.pos] = Append(@, trade)]
      BY <2>3 DEF BookTrade
    <3> HIDE DEF trade
    <3>5. Append(trades[e.pos], trade) \in Seq(Seq(ExitType))
      BY <3>1, <3>3, AppendProperties DEF Tables
    <3> QED
      BY <2>3, <3>1, <3>4, <3>5 DEF BookTrade, Tables
  <2>4. ASSUME NEW e \in toWrite, WriteEvent(e)
        PROVE  Tables'
    <3>1. e.pos \in Positions /\ e \in EventType
      BY DEF Tables, EventType
    <3>2. Append(closed[e.pos], e) \in Seq(EventType)
      BY <3>1, AppendProperties DEF Tables
    <3> QED
      BY <2>4, <3>1, <3>2 DEF WriteEvent, Tables
  <2>5. CASE Restart
    <3>1. \A p \in Positions :
            (IF row[p] = None THEN <<>> ELSE <<row[p]>>) \in Seq(EventType)
      BY DEF Tables
    <3> QED
      BY <2>5, <3>1 DEF Restart, Tables
  <2>6. CASE OperatorReset \/ UNCHANGED vars
    BY <2>6 DEF OperatorReset, vars, Tables
  <2> QED
    BY <2>1, <2>2, <2>3, <2>4, <2>5, <2>6 DEF Next
<1> QED
  BY <1>1, <1>2, LaddersHold, PTL DEF Spec

\* Every variable keeps its type over bars, bookings and restarts (paper.py,
\* execution.record_closed_trade, risk.record_trade_result).
THEOREM Typing == Spec => []TypeOK
<1>1. Flags /\ Numbers => RiskTypeOK
  BY DEF Flags, Numbers, RiskTypeOK
<1>2. ASSUME Ladders, NEW p \in Positions
      PROVE  /\ position[p].status \in {"none", "open", "closed", "lost"}
             /\ Open(p) => position[p].remaining \in Nat \ {0}
             /\ position[p].filled <= position[p].tps
             /\ exits[p] \in Seq(ExitType)
  BY <1>2 DEF Ladders, Ladder, Climbing, Open, PositionType, NoPosition
<1>3. Flags /\ Numbers /\ Ladders /\ Tables => TypeOK
  BY <1>1, <1>2 DEF Numbers, Tables, TypeOK
<1> QED
  BY <1>3, FlagsTyping, NumbersTyping, LaddersHold, TablesTyping, PTL

\* No position is booked twice, and what closed is booked or about to be.
LEMMA BookingHolds == Spec => []Booking
<1>1. Init => Booking
  BY DEF Init, Booking, NoPosition
<1>2. Booking /\ Tables /\ Ladders /\ [Next]_vars => Booking'
  <2> SUFFICES ASSUME Booking, Tables, Ladders, [Next]_vars
               PROVE  Booking'
    OBVIOUS
  <2>1. ASSUME NEW p \in Positions, NEW body \in Bodies, PlaceBracket(p, body)
        PROVE  Booking'
    <3>1. /\ position[p].status = "none" /\ position'[p].status = "open"
          /\ \A r \in Positions \ {p} : position'[r] = position[r]
          /\ UNCHANGED <<toBook, toWrite, trades, row>>
      BY <2>1 DEF PlaceBracket, NoPosition, Ladders
    <3>2. \A e \in toBook \union toWrite : e.pos \in Positions
      BY DEF Tables, EventType
    <3>3. /\ \A e \in toBook : e.pos # p
          /\ \A e \in toWrite : e.final => e.pos # p
          /\ trades[p] = <<>>
      BY <3>1 DEF Booking
    <3> QED
      BY <3>1, <3>2, <3>3 DEF Booking
  <2>2. ASSUME NEW stopped \in SUBSET Positions, NEW hit \in SUBSET Positions,
              OnBar(stopped, hit)
        PROVE  Booking'
    <3>1. /\ toWrite' \subseteq EventType
          /\ toBook' = {e \in toWrite' : e.final}
          /\ \A e \in toWrite' : e.pos \in stopped \union hit
          /\ \A e, f \in toWrite' : e.pos = f.pos => e = f
          /\ \A p \in stopped \union hit : \E e \in toWrite' :
                e.pos = p /\ position'[p] = After(position[p], e)
          /\ \A p \in Positions \ (stopped \union hit) : position'[p] = position[p]
      BY <2>2, BarEvents
    <3>2. /\ toBook = {} /\ UNCHANGED <<trades, row>>
          /\ \A p \in stopped \union hit : position[p].status = "open"
      BY <2>2 DEF OnBar, Idle, Open
    <3>3. \A p \in stopped \union hit : trades[p] = <<>>
      BY <3>2 DEF Booking
    <3>4. ASSUME NEW e \in toWrite'
          PROVE  position'[e.pos].status = IF e.final THEN "closed" ELSE "open"
      <4>1. e.pos \in stopped \union hit /\ position[e.pos] \in PositionType
        BY <3>1 DEF Ladders
      <4>2. position'[e.pos] = After(position[e.pos], e)
        BY <3>1, <4>1
      <4> QED
        BY <4>1, <4>2 DEF After, PositionType
    <3>5. \A p \in stopped \union hit : \E e \in toWrite' : e.pos = p
      BY <3>1
    <3>6. ASSUME NEW e \in toWrite' PROVE e.final \in BOOLEAN
      BY <3>1 DEF EventType
    <3> QED
      BY <3>1, <3>2, <3>3, <3>4, <3>5, <3>6 DEF Booking
  <2>3. ASSUME NEW e \in toBook, NEW win \in BOOLEAN, BookTrade(e, win)
        PROVE  Booking'
    <3> DEFINE trade == <<[level |-> e.level, qty |-> position[e.pos].qty]>>
    <3>1. /\ toBook' = toBook \ {e} /\ UNCHANGED <<position, toWrite, row>>
          /\ trades' = [trades EXCEPT ![e.pos] = Append(@, trade)]
      BY <2>3 DEF BookTrade
    <3>2. e.pos \in Positions /\ trades[e.pos] = <<>> /\ position[e.pos].status = "closed"
      BY DEF Booking, Tables, EventType
    <3> HIDE DEF trade
    <3>3. trades'[e.pos] = <<trade>> /\ \A p \in Positions \ {e.pos} : trades'[p] = trades[p]
      BY <3>1, <3>2 DEF Tables
    <3>4. Len(trades'[e.pos]) = 1 /\ trades'[e.pos] # <<>>
      BY <3>3
    <3>5. \A f \in toBook' : f.pos \in Positions \ {e.pos}
      BY <3>1 DEF Booking, Tables, EventType
    <3> QED
      BY <3>1, <3>2, <3>3, <3>4, <3>5 DEF Booking
  <2>4. ASSUME NEW e \in toWrite, WriteEvent(e)
        PROVE  Booking'
    <3>1. /\ toBook = {} /\ toWrite' = toWrite \ {e} /\ UNCHANGED <<position, toBook, trades>>
          /\ row' = [row EXCEPT ![e.pos] = e]
      BY <2>4 DEF WriteEvent
    <3>2. e.pos \in Positions
      BY DEF Tables, EventType
    <3>3. e.final => trades[e.pos] # <<>>
      BY <3>1, <3>2 DEF Booking
    <3>4. row'[e.pos] = e /\ \A p \in Positions \ {e.pos} : row'[p] = row[p]
      BY <3>1, <3>2 DEF Tables
    <3> QED
      BY <3>1, <3>2, <3>3, <3>4 DEF Booking
  <2>5. CASE Restart
    <3>1. toBook' = {} /\ toWrite' = {} /\ UNCHANGED <<trades, row>>
      BY <2>5 DEF Restart
    <3>2. ASSUME NEW p \in Positions
          PROVE  /\ position'[p].status \in {"none", "lost"}
                 /\ position[p].status # "none" => position'[p].status = "lost"
      <4>1. position[p] \in PositionType
        BY DEF Ladders
      <4>2. position'[p] = IF position[p] = NoPosition THEN NoPosition
                           ELSE [position[p] EXCEPT !.status = "lost"]
        BY <2>5 DEF Restart
      <4> QED
        BY <4>1, <4>2 DEF NoPosition, PositionType
    <3> QED
      BY <3>1, <3>2 DEF Booking
  <2>6. CASE OperatorReset \/ UNCHANGED vars
    BY <2>6 DEF OperatorReset, vars, Booking
  <2> QED
    BY <2>1, <2>2, <2>3, <2>4, <2>5, <2>6 DEF Next
<1> QED
  BY <1>1, <1>2, LaddersHold, TablesTyping, PTL DEF Spec

\* A sequence of one element at most that is not empty has one.
LEMMA OneElement ==
    ASSUME NEW S, NEW s \in Seq(S), s # <<>>, Len(s) <= 1
    PROVE  Len(s) = 1
<1> DEFINE n == Len(s)
<1>1. n \in Nat /\ n # 0
  BY EmptySeq, LenProperties
<1>2. n <= 1
  OBVIOUS
<1> HIDE DEF n
<1>3. n = 1
  BY <1>1, <1>2
<1> QED
  BY <1>3 DEF n

\* However many exits a position takes and wherever the process dies, it is
\* booked once at most, and once when its closing bar has been handled
\* (paper._book_closed_trades, execution.record_closed_trade).
THEOREM BookedOnce == Spec => []OneTradePerPosition
<1>1. Booking /\ Tables => OneTradePerPosition
  <2> SUFFICES ASSUME Booking, Tables, NEW p \in Positions
               PROVE  /\ Len(trades[p]) <= 1
                      /\ Idle /\ position[p].status = "closed" => Len(trades[p]) = 1
    BY DEF OneTradePerPosition
  <2>1. Idle /\ position[p].status = "closed" => trades[p] # <<>>
    BY DEF Booking, Idle
  <2>2. Len(trades[p]) <= 1
    BY DEF Booking
  <2>3. trades[p] # <<>> => Len(trades[p]) = 1
    BY <2>2, OneElement DEF Tables
  <2> QED
    BY <2>1, <2>2, <2>3
<1> QED
  BY <1>1, BookingHolds, TablesTyping, PTL

\* The positions table never shows a position as closed that the trades table
\* does not know, wherever the process died (paper.on_bar, api.on_position_close).
THEOREM RowsHaveTrades == Spec => []RowsImplyTrade
<1>1. Booking /\ Tables => RowsImplyTrade
  <2> SUFFICES ASSUME Booking, Tables, NEW p \in Positions, row[p] # None, row[p].final
               PROVE  Len(trades[p]) = 1
    BY DEF RowsImplyTrade
  <2>1. trades[p] # <<>> /\ Len(trades[p]) <= 1
    BY DEF Booking
  <2> QED
    BY <2>1, OneElement DEF Tables
<1> QED
  BY <1>1, BookingHolds, TablesTyping, PTL

\* The circuit breaker's streak is never longer than the positions booked: it
\* counts positions, not exits (risk.record_trade_result).
THEOREM BreakerCounts == Spec => []BreakerCountsPositions
<1>1. Init => Streak
  <2> SUFFICES ASSUME Init PROVE Streak
    OBVIOUS
  <2>1. Booked = {} /\ consecutiveLosses = 0
    BY DEF Init, RiskInit, Booked
  <2> QED
    BY <2>1, FS_EmptySet DEF Streak
<1>2. Streak /\ Numbers /\ Tables /\ Booking /\ [Next]_vars => Streak'
  <2> SUFFICES ASSUME Streak, Numbers, Tables, Booking, [Next]_vars
               PROVE  Streak'
    OBVIOUS
  <2>0. Cardinality(Booked) \in Nat /\ consecutiveLosses \in Nat
    BY FS_CardinalityType DEF Streak, Numbers
  <2>1. ASSUME UNCHANGED trades, consecutiveLosses' \in {0, consecutiveLosses}
        PROVE  Streak'
    BY <2>0, <2>1 DEF Streak, Booked
  <2>2. ASSUME NEW e \in toBook, NEW win \in BOOLEAN, BookTrade(e, win)
        PROVE  Streak'
    <3> DEFINE trade == <<[level |-> e.level, qty |-> position[e.pos].qty]>>
    <3>1. trades' = [trades EXCEPT ![e.pos] = Append(@, trade)]
      BY <2>2 DEF BookTrade
    <3>2. e.pos \in Positions /\ trades[e.pos] = <<>>
      BY DEF Booking, Tables, EventType
    <3> HIDE DEF trade
    <3>3. trades'[e.pos] # <<>> /\ \A p \in Positions \ {e.pos} : trades'[p] = trades[p]
      BY <3>1, <3>2 DEF Tables
    <3>4. Booked' = Booked \union {e.pos} /\ e.pos \notin Booked
      BY <3>2, <3>3 DEF Booked
    <3>5. IsFiniteSet(Booked') /\ Cardinality(Booked') = Cardinality(Booked) + 1
      BY <3>4, FS_AddElement DEF Streak
    <3>6. consecutiveLosses' \in {0, consecutiveLosses + 1}
      BY <2>2 DEF BookTrade, RecordTradeResult
    <3> QED
      BY <2>0, <3>5, <3>6 DEF Streak
  <2>3. ASSUME NEW p \in Positions, NEW body \in Bodies, PlaceBracket(p, body)
        PROVE  Streak'
    BY <2>1, <2>3 DEF PlaceBracket, riskVars, breakerVars
  <2>4. ASSUME NEW stopped \in SUBSET Positions, NEW hit \in SUBSET Positions,
              OnBar(stopped, hit)
        PROVE  Streak'
    BY <2>1, <2>4 DEF OnBar, riskVars, breakerVars
  <2>5. ASSUME NEW e \in toWrite, WriteEvent(e)
        PROVE  Streak'
    BY <2>1, <2>5 DEF WriteEvent, riskVars, breakerVars
  <2>6. CASE Restart \/ OperatorReset \/ UNCHANGED vars
    BY <2>1, <2>6 DEF Restart, RiskReset, OperatorReset, ResetBreaker, vars,
            riskVars, breakerVars
  <2> QED
    BY <2>2, <2>3, <2>4, <2>5, <2>6 DEF Next
<1>3. Streak => BreakerCountsPositions
  BY DEF Streak, Booked, BreakerCountsPositions
<1> QED
  BY <1>1, <1>2, <1>3, NumbersTyping, TablesTyping, BookingHolds, PTL DEF Spec

=============================================================================
