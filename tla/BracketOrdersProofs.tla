------------------------ MODULE BracketOrdersProofs ------------------------
(***************************************************************************)
(* What holds of BracketOrders for any number of live orders, of passes    *)
(* and of restarts, on any of the three adapters.                          *)
(***************************************************************************)
EXTENDS BracketOrders, SequenceTheorems, TLAPS

-----------------------------------------------------------------------------
OrderSet ==
    [at: {"new", "placing", "returned", "recorded", "marked", "ended"},
     broker: Brokers \union {None}, todo: Seq(SUBSET Legs), good: SUBSET Legs,
     code: {None, "200", "403", "500", "502"}, gtt: BOOLEAN, id: Ids \union {None}]

Types ==
    /\ order \in [Requests -> OrderSet]
    /\ taken \in [Requests -> SUBSET Legs]
    /\ position \in [Requests -> {"none", "held", "closed", "reversed"}]

\* The calls of an adapter that sends the legs one after the other.
Three == <<{"entry"}, {"tp"}, {"sl"}>>
Two == <<{"tp"}, {"sl"}>>
One == <<{"sl"}>>

(***************************************************************************)
(* How far a request has come.  Only OpenAlgo goes on after a leg that was *)
(* not accepted; with the others, what is left to send is what is missing. *)
(***************************************************************************)
Progress(o) ==
    \/ o.broker = "kite" /\ o.todo = <<Legs>> /\ o.good = {}
    \/ o.broker = "openalgo" /\ o.todo \in {Three, Two, One}
    \/ o.broker = "binance" /\ o.todo = Three /\ o.good = {}
    \/ o.broker = "binance" /\ o.todo = Two /\ o.good = {"entry"}
    \/ o.broker = "binance" /\ o.todo = One /\ o.good = {"entry", "tp"}

Whole(o) == o.broker # "openalgo" => o.good = Legs

(***************************************************************************)
(* The inductive invariant, request by request.  A leg the adapter counts  *)
(* as accepted was taken; a request returns to place_order, and is         *)
(* answered 200, with every leg accepted, OpenAlgo's apart.                *)
(***************************************************************************)
RequestInv(o, legs) ==
    /\ o.good \subseteq legs
    /\ o.gtt => Exits \subseteq o.good
    /\ o.at # "ended" => o.code = None
    /\ o.at = "placing" => Progress(o)
    /\ o.at \in {"returned", "recorded", "marked"} => Whole(o)
    /\ o.code = "200" => Whole(o)

BracketInv ==
    /\ Types
    /\ \A r \in Requests : RequestInv(order[r], taken[r])

-----------------------------------------------------------------------------
\* The rest of a sequence of three calls, and of two.
LEMMA TailOfThree ==
    ASSUME NEW S, NEW a \in S, NEW b \in S, NEW c \in S
    PROVE  Tail(<<a, b, c>>) = <<b, c>>
<1> DEFINE s == <<a, b, c>>
<1>1. s \in Seq(S) /\ s # <<>> /\ Len(s) = 3
  OBVIOUS
<1>2. Tail(s) \in Seq(S) /\ Len(Tail(s)) = 2
  BY <1>1
<1>3. <<b, c>> \in Seq(S) /\ Len(<<b, c>>) = 2
  OBVIOUS
<1>4. \A i \in 1..2 : Tail(s)[i] = <<b, c>>[i]
  BY <1>1
<1>. QED
  BY <1>2, <1>3, <1>4, SeqEqual

\* What is left of a sequence of two.
LEMMA TailOfTwo ==
    ASSUME NEW S, NEW a \in S, NEW b \in S
    PROVE  Tail(<<a, b>>) = <<b>>
<1> DEFINE s == <<a, b>>
<1>1. s \in Seq(S) /\ s # <<>> /\ Len(s) = 2
  OBVIOUS
<1>2. Tail(s) \in Seq(S) /\ Len(Tail(s)) = 1
  BY <1>1
<1>3. <<b>> \in Seq(S) /\ Len(<<b>>) = 1
  OBVIOUS
<1>4. \A i \in 1..1 : Tail(s)[i] = <<b>>[i]
  BY <1>1
<1>. QED
  BY <1>2, <1>3, <1>4, SeqEqual

\* Nothing is left of a sequence of one.
LEMMA TailOfOne ==
    ASSUME NEW S, NEW a \in S
    PROVE  Tail(<<a>>) = <<>>
<1> DEFINE s == <<a>>
<1>1. s \in Seq(S) /\ s # <<>> /\ Len(s) = 1
  OBVIOUS
<1>2. Tail(s) \in Seq(S) /\ Len(Tail(s)) = 0
  BY <1>1
<1>. QED
  BY <1>2

\* The calls of the adapters, taken apart.
LEMMA CallsTaken ==
    /\ Three \in Seq(SUBSET Legs) /\ Two \in Seq(SUBSET Legs)
    /\ One \in Seq(SUBSET Legs) /\ <<Legs>> \in Seq(SUBSET Legs) /\ <<>> \in Seq(SUBSET Legs)
    /\ Head(Three) = {"entry"} /\ Head(Two) = {"tp"} /\ Head(One) = {"sl"} /\ Head(<<Legs>>) = Legs
    /\ Tail(Three) = Two /\ Tail(Two) = One /\ Tail(One) = <<>> /\ Tail(<<Legs>>) = <<>>
    /\ Three # <<>> /\ Two # <<>> /\ One # <<>>
    /\ Len(Three) = 3 /\ Len(Two) = 2 /\ Len(One) = 1
<1>1. {"entry"} \in SUBSET Legs /\ {"tp"} \in SUBSET Legs /\ {"sl"} \in SUBSET Legs /\ Legs \in SUBSET Legs
  BY DEF Legs
<1>2. Tail(Three) = Two
  BY <1>1, TailOfThree DEF Three, Two
<1>3. Tail(Two) = One
  BY <1>1, TailOfTwo DEF Two, One
<1>4. Tail(One) = <<>> /\ Tail(<<Legs>>) = <<>>
  BY <1>1, TailOfOne DEF One
<1>5. /\ Three \in Seq(SUBSET Legs) /\ Two \in Seq(SUBSET Legs)
      /\ One \in Seq(SUBSET Legs) /\ <<Legs>> \in Seq(SUBSET Legs) /\ <<>> \in Seq(SUBSET Legs)
  BY <1>1 DEF Three, Two, One
<1>6. Head(Three) = {"entry"} /\ Head(Two) = {"tp"} /\ Head(One) = {"sl"} /\ Head(<<Legs>>) = Legs
  BY DEF Three, Two, One
<1>7. /\ Three # <<>> /\ Two # <<>> /\ One # <<>>
      /\ Len(Three) = 3 /\ Len(Two) = 2 /\ Len(One) = 1
  BY DEF Three, Two, One
<1>. QED
  BY <1>2, <1>3, <1>4, <1>5, <1>6, <1>7

-----------------------------------------------------------------------------
\* The invariant holds when nothing has been ordered yet.
LEMMA BracketInvInit == Init => BracketInv
<1>. SUFFICES ASSUME Init PROVE BracketInv
  OBVIOUS
<1>1. Fresh \in OrderSet
  BY CallsTaken DEF Fresh, OrderSet
<1>2. Types
  BY <1>1 DEF Init, Types
<1>3. ASSUME NEW r \in Requests PROVE RequestInv(order[r], taken[r])
  BY BracketAssumption DEF Init, RequestInv, Fresh, Exits, Progress, Whole
<1>. QED
  BY <1>2, <1>3 DEF BracketInv

\* A step of one request keeps the invariant when it keeps it of that request.
LEMMA OneRequest ==
    ASSUME BracketInv, NEW r \in Requests, NEW o \in OrderSet,
           order' = [order EXCEPT ![r] = o],
           taken' \in [Requests -> SUBSET Legs],
           \A q \in Requests : q # r => taken'[q] = taken[q],
           position' \in [Requests -> {"none", "held", "closed", "reversed"}],
           RequestInv(o, taken'[r])
    PROVE  BracketInv'
<1>1. Types'
  BY DEF BracketInv, Types
<1>2. ASSUME NEW q \in Requests
      PROVE  RequestInv(order'[q], taken'[q])
  <2>1. CASE q = r
    BY <2>1 DEF BracketInv, Types
  <2>2. CASE q # r
    <3>1. order'[q] = order[q] /\ taken'[q] = taken[q]
      BY <2>2 DEF BracketInv, Types
    <3>2. RequestInv(order[q], taken[q])
      BY DEF BracketInv
    <3>. QED
      BY <3>1, <3>2 DEF RequestInv
  <2>. QED
    BY <2>1, <2>2
<1>. QED
  BY <1>1, <1>2 DEF BracketInv

\* A request that starts its worker has all calls before it (api.place_order).
LEMMA PlaceKeeps ==
    ASSUME BracketInv, NEW r \in Requests, NEW b \in Brokers, Place(r, b)
    PROVE  BracketInv'
<1>0. /\ Types /\ RequestInv(order[r], taken[r]) /\ order[r].at = "new"
      /\ UNCHANGED <<taken, position>>
  BY DEF BracketInv, Place
<1>1. CASE Request(r, [Fresh EXCEPT !.at = "placing", !.broker = b, !.todo = Calls(b)])
  <2> DEFINE o == [Fresh EXCEPT !.at = "placing", !.broker = b, !.todo = Calls(b)]
  <2>1. o \in OrderSet
    BY CallsTaken DEF Fresh, OrderSet, Calls, Three
  <2>2. Progress(o)
    BY BracketAssumption DEF Progress, Fresh, Calls, Three
  <2>3. RequestInv(o, taken'[r])
    BY <1>0, <2>2, BracketAssumption DEF Fresh, RequestInv
  <2>. QED
    BY <1>0, <1>1, <2>1, <2>3, OneRequest DEF Request, Types
<1>2. ASSUME NEW code \in {"403", "500"},
             Request(r, [Fresh EXCEPT !.at = "ended", !.broker = b, !.code = code])
      PROVE  BracketInv'
  <2> DEFINE o == [Fresh EXCEPT !.at = "ended", !.broker = b, !.code = code]
  <2>1. o \in OrderSet
    BY CallsTaken DEF Fresh, OrderSet
  <2>2. RequestInv(o, taken'[r])
    BY <1>0 DEF Fresh, RequestInv, Types
  <2>. QED
    BY <1>0, <1>2, <2>1, <2>2, OneRequest DEF Request, Types
<1>. QED
  BY <1>1, <1>2 DEF Place

\* Fails(r, code) leaves what the adapter was told, and is not an answer of 200.
LEMMA FailsKeeps ==
    ASSUME BracketInv, NEW r \in Requests, NEW code \in {"500", "502"},
           order[r].at \in {"placing", "recorded"}, Fails(r, code),
           taken' \in [Requests -> SUBSET Legs], taken[r] \subseteq taken'[r],
           \A q \in Requests : q # r => taken'[q] = taken[q],
           position' \in [Requests -> {"none", "held", "closed", "reversed"}]
    PROVE  BracketInv'
<1> DEFINE o == [order[r] EXCEPT !.at = "ended", !.code = code]
<1>0. Types /\ RequestInv(order[r], taken[r]) /\ order[r] \in OrderSet
  BY DEF BracketInv, Types
<1>1. o \in OrderSet
  BY <1>0 DEF OrderSet
<1>2. /\ o.good = order[r].good /\ o.gtt = order[r].gtt /\ o.at = "ended"
      /\ o.code = code /\ o.broker = order[r].broker
  BY <1>0 DEF OrderSet
<1>3. RequestInv(o, taken'[r])
  BY <1>0, <1>2 DEF RequestInv
<1>. QED
  BY <1>0, <1>1, <1>3, OneRequest DEF Fails, Request, Types

\* The exchange takes legs of a request.
LEMMA TakesKeeps ==
    ASSUME BracketInv, NEW r \in Requests, NEW legs \in SUBSET Legs, Takes(r, legs)
    PROVE  /\ taken' \in [Requests -> SUBSET Legs]
           /\ taken'[r] = taken[r] \union legs
           /\ \A q \in Requests : q # r => taken'[q] = taken[q]
           /\ position' \in [Requests -> {"none", "held", "closed", "reversed"}]
<1>1. Types
  BY DEF BracketInv
<1>. QED
  BY <1>1 DEF Takes, Types

-----------------------------------------------------------------------------
\* What is left to send of a request under way, by its first call.
LEMMA UnderWay ==
    ASSUME BracketInv, NEW r \in Requests, order[r].at = "placing"
    PROVE  /\ order[r] \in OrderSet
           /\ Head(order[r].todo) \in SUBSET Legs
           /\ Tail(order[r].todo) \in Seq(SUBSET Legs)
           /\ Progress(order[r])
<1>1. Types /\ RequestInv(order[r], taken[r])
  BY DEF BracketInv
<1>2. order[r] \in OrderSet /\ Progress(order[r])
  BY <1>1 DEF Types, RequestInv
<1>3. order[r].todo \in {<<Legs>>, Three, Two, One}
  BY <1>2 DEF Progress
<1>4. Head(order[r].todo) \in SUBSET Legs
  BY <1>3, CallsTaken DEF Legs
<1>5. Tail(order[r].todo) \in Seq(SUBSET Legs)
  BY <1>3, CallsTaken
<1>. QED
  BY <1>2, <1>4, <1>5

\* An accepted leg leaves the request under way, or the bracket whole.
LEMMA AcceptedProgress ==
    ASSUME BracketInv, NEW r \in Requests, order[r].at = "placing", NEW o \in OrderSet,
           o.broker = order[r].broker,
           o.good = order[r].good \union Head(order[r].todo),
           o.todo = Tail(order[r].todo)
    PROVE  /\ o.todo # <<>> => Progress(o)
           /\ o.todo = <<>> => Whole(o)
<1>1. Progress(order[r])
  BY UnderWay
<1>2. CASE order[r].broker = "kite" /\ order[r].todo = <<Legs>> /\ order[r].good = {}
  BY <1>2, CallsTaken DEF Whole
<1>3. CASE order[r].broker = "openalgo" /\ order[r].todo \in {Three, Two, One}
  BY <1>3, CallsTaken DEF Whole, Progress
<1>4. CASE order[r].broker = "binance" /\ order[r].todo = Three /\ order[r].good = {}
  BY <1>4, CallsTaken DEF Progress
<1>5. CASE order[r].broker = "binance" /\ order[r].todo = Two /\ order[r].good = {"entry"}
  BY <1>5, CallsTaken DEF Progress
<1>6. CASE order[r].broker = "binance" /\ order[r].todo = One /\ order[r].good = {"entry", "tp"}
  BY <1>6, CallsTaken DEF Whole, Legs
<1>. QED
  BY <1>1, <1>2, <1>3, <1>4, <1>5, <1>6 DEF Progress

\* A call that is taken and answered takes its leg from the program.
LEMMA AcceptedKeeps ==
    ASSUME BracketInv, NEW r \in Requests, order[r].at = "placing",
           Takes(r, Head(order[r].todo)), Attached(r)
    PROVE  BracketInv'
<1> DEFINE good == order[r].good \union Head(order[r].todo)
           rest == Tail(order[r].todo)
           o == [order[r] EXCEPT !.good = good, !.todo = rest,
                    !.at = IF rest = <<>> THEN "returned" ELSE "placing",
                    !.gtt = order[r].broker = "openalgo" /\ Exits \subseteq good]
<1>0. Types /\ RequestInv(order[r], taken[r])
  BY DEF BracketInv
<1>1. /\ order[r] \in OrderSet /\ Head(order[r].todo) \in SUBSET Legs
      /\ rest \in Seq(SUBSET Legs)
  BY UnderWay
<1>2. /\ o.good = good /\ o.todo = rest /\ o.broker = order[r].broker /\ o.code = order[r].code
      /\ o.at = IF rest = <<>> THEN "returned" ELSE "placing"
      /\ o.gtt = (order[r].broker = "openalgo" /\ Exits \subseteq good)
  BY <1>1 DEF OrderSet
<1>3. good \in SUBSET Legs
  BY <1>1 DEF OrderSet
<1>4. o \in OrderSet
  BY <1>1, <1>3 DEF OrderSet
<1>5. (rest # <<>> => Progress(o)) /\ (rest = <<>> => Whole(o))
  <2>1. /\ o.todo # <<>> => Progress(o)
        /\ o.todo = <<>> => Whole(o)
    <3> HIDE DEF o
    <3>. QED
      BY <1>2, <1>4, AcceptedProgress
  <2>. QED
    BY <1>2, <2>1
<1>6. /\ taken' \in [Requests -> SUBSET Legs]
      /\ taken'[r] = taken[r] \union Head(order[r].todo)
      /\ \A q \in Requests : q # r => taken'[q] = taken[q]
      /\ position' \in [Requests -> {"none", "held", "closed", "reversed"}]
  BY <1>1, TakesKeeps
<1>7. o.good \subseteq taken'[r]
  BY <1>0, <1>2, <1>6 DEF RequestInv
<1>8. order[r].code # "200"
  BY <1>0, BracketAssumption DEF RequestInv
<1>9. RequestInv(o, taken'[r])
  <2> HIDE DEF o
  <2>1. o.code = None /\ o.code # "200"
    BY <1>0, <1>2, <1>8 DEF RequestInv
  <2>2. o.gtt => Exits \subseteq o.good
    BY <1>2
  <2>. QED
    BY <1>2, <1>5, <1>7, <2>1, <2>2 DEF RequestInv
<1>10. order' = [order EXCEPT ![r] = o]
  BY DEF Attached, Accepted, Request
<1>. HIDE DEF o
<1>. QED
  BY <1>0, <1>4, <1>6, <1>9, <1>10, OneRequest DEF Types

\* An answer that sends the rest away, OpenAlgo's only: what was accepted stays.
LEMMA PassedKeeps ==
    ASSUME BracketInv, NEW r \in Requests, order[r].at = "placing",
           NEW todo \in Seq(SUBSET Legs), NEW at \in {"placing", "returned"},
           order[r].broker = "openalgo",
           at = "placing" => todo \in {Three, Two, One},
           Request(r, [order[r] EXCEPT !.at = at, !.todo = todo]),
           taken' \in [Requests -> SUBSET Legs], taken[r] \subseteq taken'[r],
           \A q \in Requests : q # r => taken'[q] = taken[q],
           position' \in [Requests -> {"none", "held", "closed", "reversed"}]
    PROVE  BracketInv'
<1> DEFINE o == [order[r] EXCEPT !.at = at, !.todo = todo]
<1>0. Types /\ RequestInv(order[r], taken[r]) /\ order[r] \in OrderSet
  BY DEF BracketInv, Types
<1>1. o \in OrderSet
  BY <1>0 DEF OrderSet
<1>2. /\ o.good = order[r].good /\ o.gtt = order[r].gtt /\ o.at = at
      /\ o.code = order[r].code /\ o.broker = "openalgo" /\ o.todo = todo
  BY <1>0 DEF OrderSet
<1>3. order' = [order EXCEPT ![r] = o]
  BY DEF Request
<1> HIDE DEF o
<1>4. Whole(o) /\ (o.at = "placing" => Progress(o))
  BY <1>2 DEF Whole, Progress
<1>5. RequestInv(o, taken'[r])
  BY <1>0, <1>2, <1>4 DEF RequestInv
<1>. QED
  BY <1>0, <1>1, <1>3, <1>5, OneRequest DEF Types

\* A refusal ends the request, or is read like any answer by OpenAlgo.
LEMMA RefusedKeeps ==
    ASSUME BracketInv, NEW r \in Requests, order[r].at = "placing",
           Untaken, Answer(r)
    PROVE  BracketInv'
<1>0. Types
  BY DEF BracketInv
<1>1. /\ taken' \in [Requests -> SUBSET Legs] /\ taken[r] \subseteq taken'[r]
      /\ \A q \in Requests : q # r => taken'[q] = taken[q]
      /\ position' \in [Requests -> {"none", "held", "closed", "reversed"}]
  BY <1>0 DEF Untaken, Types
<1>2. CASE order[r].broker # "openalgo"
  <2>1. Fails(r, "502")
    BY <1>2 DEF Answer, Refused
  <2>. QED
    BY <1>1, <2>1, FailsKeeps
<1>3. CASE order[r].broker = "openalgo" /\ (order[r].good = {} \/ Len(order[r].todo) = 1)
  <2>1. Request(r, [order[r] EXCEPT !.at = "returned", !.todo = <<>>])
    BY <1>3 DEF Answer, Refused
  <2>. QED
    BY <1>1, <1>3, <2>1, CallsTaken, PassedKeeps
<1>4. CASE order[r].broker = "openalgo" /\ ~(order[r].good = {} \/ Len(order[r].todo) = 1)
  <2>1. Request(r, [order[r] EXCEPT !.todo = Tail(@)])
    BY <1>4 DEF Answer, Refused
  <2>2. order[r] \in OrderSet /\ order[r].todo \in {Three, Two}
    BY <1>4, UnderWay, CallsTaken DEF Progress
  <2>3. Tail(order[r].todo) \in {Two, One}
    BY <2>2, CallsTaken
  <2>4. [order[r] EXCEPT !.todo = Tail(@)]
          = [order[r] EXCEPT !.at = "placing", !.todo = Tail(order[r].todo)]
    BY <2>2 DEF OrderSet
  <2>. QED
    BY <1>1, <1>4, <2>1, <2>3, <2>4, CallsTaken, PassedKeeps
<1>. QED
  BY <1>2, <1>3, <1>4

\* A call without a usable answer ends the request, taken or not.
LEMMA UnansweredKeeps ==
    ASSUME BracketInv, NEW r \in Requests, order[r].at = "placing",
           Unanswered(r),
           taken' \in [Requests -> SUBSET Legs], taken[r] \subseteq taken'[r],
           \A q \in Requests : q # r => taken'[q] = taken[q],
           position' \in [Requests -> {"none", "held", "closed", "reversed"}]
    PROVE  BracketInv'
<1>1. CASE /\ order[r].broker = "openalgo"
           /\ Request(r, [order[r] EXCEPT !.at = "returned", !.todo = <<>>])
  BY <1>1, CallsTaken, PassedKeeps
<1>2. CASE Fails(r, "502") \/ Fails(r, "500")
  BY <1>2, FailsKeeps
<1>. QED
  BY <1>1, <1>2 DEF Unanswered

\* Every call of a broker keeps the invariant.
LEMMA CallKeeps ==
    ASSUME BracketInv, NEW r \in Requests, Call(r)
    PROVE  BracketInv'
<1>0. Types /\ order[r].at = "placing"
  BY DEF BracketInv, Call
<1>1. CASE Takes(r, Head(order[r].todo)) /\ Attached(r)
  BY <1>0, <1>1, AcceptedKeeps
<1>2. CASE Takes(r, Head(order[r].todo)) /\ Unanswered(r)
  <2>1. Head(order[r].todo) \in SUBSET Legs
    BY <1>0, UnderWay
  <2>2. /\ taken' \in [Requests -> SUBSET Legs]
        /\ taken'[r] = taken[r] \union Head(order[r].todo)
        /\ \A q \in Requests : q # r => taken'[q] = taken[q]
        /\ position' \in [Requests -> {"none", "held", "closed", "reversed"}]
    BY <1>2, <2>1, TakesKeeps
  <2>. QED
    BY <1>0, <1>2, <2>2, UnansweredKeeps
<1>3. CASE Untaken /\ Answer(r)
  BY <1>0, <1>3, RefusedKeeps
<1>4. CASE Untaken /\ Unanswered(r)
  BY <1>0, <1>4, UnansweredKeeps DEF Untaken, Types
<1>. QED
  BY <1>1, <1>2, <1>3, <1>4 DEF Call

\* What place_order does once the worker is back keeps the invariant: it moves
\* the request on, with what the adapter returned.
LEMMA LaterKeeps ==
    ASSUME BracketInv, NEW r \in Requests,
           (\E id \in Ids : Record(r, id)) \/ Mark(r) \/ Finish(r)
    PROVE  BracketInv'
<1>0. /\ Types /\ RequestInv(order[r], taken[r]) /\ order[r] \in OrderSet
      /\ UNCHANGED <<taken, position>>
  BY DEF BracketInv, Types, Record, Mark, Finish
<1>1. ASSUME NEW o \in OrderSet, order' = [order EXCEPT ![r] = o],
             order[r].at \in {"returned", "recorded", "marked"},
             o.good = order[r].good, o.gtt = order[r].gtt, o.broker = order[r].broker,
             o.at # "ended" => o.code = None,
             o.at \notin {"new", "placing"}
      PROVE  BracketInv'
  <2>1. RequestInv(o, taken'[r])
    BY <1>0, <1>1 DEF RequestInv, Whole
  <2> QED
    BY <1>0, <1>1, <2>1, OneRequest DEF Types
<1>2. ASSUME NEW id \in Ids, Record(r, id)
      PROVE  BracketInv'
  <2> DEFINE o == [order[r] EXCEPT !.at = "recorded", !.id = id]
  <2>1. /\ o \in OrderSet /\ o.good = order[r].good /\ o.gtt = order[r].gtt
        /\ o.broker = order[r].broker /\ o.at = "recorded" /\ o.code = order[r].code
    BY <1>0 DEF OrderSet
  <2>2. order' = [order EXCEPT ![r] = o] /\ order[r].at = "returned"
    BY <1>2 DEF Record, Request
  <2>3. order[r].code = None
    BY <1>0, <2>2 DEF RequestInv
  <2> HIDE DEF o
  <2> QED
    BY <1>1, <2>1, <2>2, <2>3
<1>3. CASE Mark(r)
  <2>1. CASE Request(r, [order[r] EXCEPT !.at = "marked"])
    <3> DEFINE o == [order[r] EXCEPT !.at = "marked"]
    <3>1. /\ o \in OrderSet /\ o.good = order[r].good /\ o.gtt = order[r].gtt
          /\ o.broker = order[r].broker /\ o.at = "marked" /\ o.code = order[r].code
      BY <1>0 DEF OrderSet
    <3>2. order' = [order EXCEPT ![r] = o] /\ order[r].at = "recorded"
      BY <1>3, <2>1 DEF Mark, Request
    <3>3. order[r].code = None
      BY <1>0, <3>2 DEF RequestInv
    <3> HIDE DEF o
    <3> QED
      BY <1>1, <3>1, <3>2, <3>3
  <2>2. CASE Fails(r, "500")
    BY <1>0, <1>3, <2>2, FailsKeeps DEF Mark, Types
  <2> QED
    BY <1>3, <2>1, <2>2 DEF Mark
<1>4. CASE Finish(r)
  <2> DEFINE o == [order[r] EXCEPT !.at = "ended", !.code = "200"]
  <2>1. /\ o \in OrderSet /\ o.good = order[r].good /\ o.gtt = order[r].gtt
        /\ o.broker = order[r].broker /\ o.at = "ended"
    BY <1>0 DEF OrderSet
  <2>2. order' = [order EXCEPT ![r] = o] /\ order[r].at = "marked"
    BY <1>4 DEF Finish, Fails, Request
  <2> HIDE DEF o
  <2> QED
    BY <1>1, <2>1, <2>2
<1> QED
  BY <1>2, <1>3, <1>4

\* An exit that trades at the exchange touches no request.
LEMMA ExitKeeps ==
    ASSUME BracketInv, NEW r \in Requests, NEW leg \in Exits, ExitTrades(r, leg)
    PROVE  BracketInv'
BY DEF BracketInv, Types, RequestInv, ExitTrades

\* A pass of reconciliation touches no request.
LEMMA PassKeeps ==
    ASSUME NEW p \in Passes, Reconcile(p)
    PROVE  UNCHANGED <<order, taken, resting, position>>
BY DEF Reconcile, StartPass, Ask, ListUnknown, SetGate

\* A start ends the requests under way.
LEMMA RestartKeeps ==
    ASSUME BracketInv, Restart
    PROVE  BracketInv'
<1>0. Types /\ UNCHANGED <<taken, position>>
  BY DEF BracketInv, Restart
<1>1. ASSUME NEW r \in Requests
      PROVE  /\ order'[r] \in OrderSet
             /\ RequestInv(order'[r], taken'[r])
  <2>0. RequestInv(order[r], taken[r]) /\ order[r] \in OrderSet
    BY <1>0 DEF BracketInv, Types
  <2>1. CASE order[r].at \notin {"new", "ended"}
    <3> DEFINE o == [order[r] EXCEPT !.at = "ended", !.todo = <<>>]
    <3>1. order'[r] = o
      BY <2>1 DEF Restart
    <3>2. o \in OrderSet
      BY <2>0, CallsTaken DEF OrderSet
    <3>3. /\ o.good = order[r].good /\ o.gtt = order[r].gtt /\ o.at = "ended"
          /\ o.code = order[r].code /\ o.broker = order[r].broker
      BY <2>0 DEF OrderSet
    <3> HIDE DEF o
    <3>4. RequestInv(o, taken[r])
      BY <2>0, <2>1, <3>3, BracketAssumption DEF RequestInv
    <3>. QED
      BY <1>0, <3>1, <3>2, <3>4
  <2>2. CASE order[r].at \in {"new", "ended"}
    <3>1. order'[r] = order[r]
      BY <2>2 DEF Restart
    <3>. QED
      BY <1>0, <2>0, <3>1
  <2>. QED
    BY <2>1, <2>2
<1>2. Types'
  <2>1. order' \in [Requests -> OrderSet]
    BY <1>1 DEF Restart
  <2>. QED
    BY <1>0, <2>1 DEF Types
<1>. QED
  BY <1>1, <1>2 DEF BracketInv

-----------------------------------------------------------------------------
\* A leg an adapter counts as accepted is a leg the exchange took, and what
\* place_order answers rests on it: BracketInv holds of every state, whatever
\* the broker refuses, loses or fills late and however often the process dies.
THEOREM BracketInvariant == Spec => []BracketInv
<1>1. Init => BracketInv
  BY BracketInvInit
<1>2. BracketInv /\ [Next]_vars => BracketInv'
  <2> SUFFICES ASSUME BracketInv, [Next]_vars PROVE BracketInv'
    OBVIOUS
  <2>1. ASSUME NEW r \in Requests, NEW b \in Brokers, Place(r, b) PROVE BracketInv'
    BY <2>1, PlaceKeeps
  <2>2. ASSUME NEW r \in Requests, Call(r) PROVE BracketInv'
    BY <2>2, CallKeeps
  <2>3. ASSUME NEW r \in Requests, (\E id \in Ids : Record(r, id)) \/ Mark(r) \/ Finish(r)
        PROVE  BracketInv'
    BY <2>3, LaterKeeps
  <2>4. ASSUME NEW r \in Requests, NEW leg \in Exits, ExitTrades(r, leg) PROVE BracketInv'
    BY <2>4, ExitKeeps
  <2>5. ASSUME NEW p \in Passes, Reconcile(p) PROVE BracketInv'
    BY <2>5, PassKeeps DEF BracketInv, Types, RequestInv
  <2>6. CASE Restart
    BY <2>6, RestartKeeps
  <2>7. CASE UNCHANGED vars
    BY <2>7 DEF BracketInv, Types, RequestInv, vars
  <2>. QED
    BY <2>1, <2>2, <2>3, <2>4, <2>5, <2>6, <2>7 DEF Next
<1>. QED
  BY <1>1, <1>2, PTL DEF Spec

\* place_order answers 200 for Kite and Binance only when the whole bracket
\* stands at the exchange, for any number of orders, passes and restarts.
THEOREM AcceptedWhole == Spec => []AcceptedIsWhole
<1>1. BracketInv => AcceptedIsWhole
  <2> SUFFICES ASSUME BracketInv, NEW r \in Requests,
                      order[r].code = "200", order[r].broker # "openalgo"
               PROVE  taken[r] = Legs
    BY DEF AcceptedIsWhole
  <2>1. order[r].good = Legs /\ order[r].good \subseteq taken[r]
    BY DEF BracketInv, RequestInv, Whole
  <2>2. taken[r] \subseteq Legs
    BY DEF BracketInv, Types
  <2>. QED
    BY <2>1, <2>2
<1>. QED
  BY <1>1, BracketInvariant, PTL

\* OpenAlgo's gttAttached is only true of two exits the exchange has taken.
THEOREM GttClaim == Spec => []GttClaimTrue
<1>1. BracketInv => GttClaimTrue
  BY DEF BracketInv, Types, RequestInv, GttClaimTrue
<1>. QED
  BY <1>1, BracketInvariant, PTL

-----------------------------------------------------------------------------
(***************************************************************************)
(* The exchange.  Every adapter sends the entry first, and goes on only    *)
(* when it was accepted: no exit is anywhere without its entry.  And an    *)
(* exit that rests at Kite is one of a position that is held.              *)
(***************************************************************************)
EntryFirst(o) == "entry" \in o.good \/ (o.good = {} /\ o.todo \in {<<Legs>>, Three})

\* What the exchange holds for one request, whose order o is.
Stands(o, legs, exits, held) ==
    /\ exits \subseteq legs
    /\ legs # {} \/ held # "none" => "entry" \in legs
    /\ o.at = "new" => legs = {}
    /\ o.at = "placing" => EntryFirst(o)
    /\ o.broker = "kite" /\ exits # {} => held = "held"

ExchangeInv ==
    /\ resting \in [Requests -> SUBSET Exits]
    /\ \A r \in Requests : Stands(order[r], taken[r], resting[r], position[r])

\* The legs of the call that comes next hold the entry, unless it was taken.
LEMMA NextCallHasEntry ==
    ASSUME BracketInv, ExchangeInv, NEW r \in Requests, order[r].at = "placing"
    PROVE  "entry" \in taken[r] \/ "entry" \in Head(order[r].todo)
<1>1. EntryFirst(order[r]) /\ order[r].good \subseteq taken[r]
  BY DEF BracketInv, RequestInv, ExchangeInv, Stands
<1>2. "entry" \in Head(Three) /\ "entry" \in Head(<<Legs>>)
  BY CallsTaken DEF Legs
<1> QED
  BY <1>1, <1>2 DEF EntryFirst

\* What a call may make of its request: it is not answered 200 by it.
Onward(before, after) ==
    /\ after.broker = before.broker
    /\ after.at \in {"placing", "returned", "ended"}
    /\ after.at = "placing" => EntryFirst(after)
    /\ after.code # "200"

\* What a call makes of its request: OpenAlgo goes on after a refused exit only.
LEMMA CallGoesOn ==
    ASSUME BracketInv, ExchangeInv, NEW r \in Requests, Call(r)
    PROVE  /\ order' \in [Requests -> OrderSet]
           /\ \A q \in Requests \ {r} : order'[q] = order[q]
           /\ Onward(order[r], order'[r])
<1>1. /\ order \in [Requests -> OrderSet] /\ order[r] \in OrderSet /\ order[r].at = "placing"
      /\ EntryFirst(order[r]) /\ Progress(order[r])
  BY UnderWay DEF Call, BracketInv, Types, ExchangeInv, Stands
<1>7. order[r].code = None
  BY <1>1 DEF BracketInv, RequestInv
<1>2. order' \in [Requests -> OrderSet]
  BY CallKeeps DEF BracketInv, Types
<1>3. ASSUME NEW o, Request(r, o), Onward(order[r], o)
      PROVE  /\ \A q \in Requests \ {r} : order'[q] = order[q]
             /\ Onward(order[r], order'[r])
  BY <1>1, <1>3 DEF Request
<1>4. ASSUME Attached(r)
      PROVE  \E o : Request(r, o) /\ Onward(order[r], o)
  <2> DEFINE good == order[r].good \union Head(order[r].todo)
             rest == Tail(order[r].todo)
             o == [order[r] EXCEPT !.good = good, !.todo = rest,
                    !.at = IF rest = <<>> THEN "returned" ELSE "placing",
                    !.gtt = order[r].broker = "openalgo" /\ Exits \subseteq good]
  <2>1. Request(r, o)
    BY <1>4 DEF Attached, Accepted
  <2>2. "entry" \in good
    <3>1. "entry" \in Head(Three) /\ "entry" \in Head(<<Legs>>)
      BY CallsTaken DEF Legs
    <3> QED
      BY <1>1, <3>1 DEF EntryFirst
  <2>3. /\ o.good = good /\ o.broker = order[r].broker /\ o.code = None
        /\ o.at \in {"placing", "returned"}
    BY <1>1, <1>7 DEF OrderSet
  <2> HIDE DEF o, good
  <2> QED
    BY <2>1, <2>2, <2>3, BracketAssumption DEF Onward, EntryFirst
<1>5. ASSUME Answer(r)
      PROVE  \E o : Request(r, o) /\ Onward(order[r], o)
  <2>1. CASE order[r].broker # "openalgo"
    <3> DEFINE o == [order[r] EXCEPT !.at = "ended", !.code = "502"]
    <3>1. Request(r, o) /\ o.at = "ended" /\ o.broker = order[r].broker /\ o.code = "502"
      BY <1>1, <1>5, <2>1 DEF Answer, Refused, Fails, OrderSet
    <3> HIDE DEF o
    <3> QED
      BY <3>1 DEF Onward
  <2>2. CASE order[r].broker = "openalgo" /\ (order[r].good = {} \/ Len(order[r].todo) = 1)
    <3> DEFINE o == [order[r] EXCEPT !.at = "returned", !.todo = <<>>]
    <3>1. Request(r, o) /\ o.at = "returned" /\ o.broker = order[r].broker /\ o.code = None
      BY <1>1, <1>5, <1>7, <2>2 DEF Answer, Refused, OrderSet
    <3> HIDE DEF o
    <3> QED
      BY <3>1, BracketAssumption DEF Onward
  <2>3. CASE order[r].broker = "openalgo" /\ ~(order[r].good = {} \/ Len(order[r].todo) = 1)
    <3> DEFINE o == [order[r] EXCEPT !.todo = Tail(@)]
    <3>1. /\ Request(r, o) /\ o.good = order[r].good /\ o.broker = order[r].broker
          /\ o.at = "placing" /\ o.code = None
      BY <1>1, <1>5, <1>7, <2>3 DEF Answer, Refused, OrderSet
    <3> HIDE DEF o
    <3>2. EntryFirst(o)
      BY <1>1, <2>3, <3>1 DEF EntryFirst
    <3> QED
      BY <3>1, <3>2, BracketAssumption DEF Onward
  <2> QED
    BY <2>1, <2>2, <2>3
<1>6. ASSUME Unanswered(r)
      PROVE  \E o : Request(r, o) /\ Onward(order[r], o)
  <2>1. ASSUME NEW code, code # "200", Fails(r, code)
        PROVE  \E o : Request(r, o) /\ Onward(order[r], o)
    <3> DEFINE o == [order[r] EXCEPT !.at = "ended", !.code = code]
    <3>1. Request(r, o) /\ o.at = "ended" /\ o.broker = order[r].broker /\ o.code = code
      BY <1>1, <2>1 DEF Fails, OrderSet
    <3> HIDE DEF o
    <3> QED
      BY <2>1, <3>1 DEF Onward
  <2>2. CASE Request(r, [order[r] EXCEPT !.at = "returned", !.todo = <<>>])
    <3> DEFINE o == [order[r] EXCEPT !.at = "returned", !.todo = <<>>]
    <3>1. Request(r, o) /\ o.at = "returned" /\ o.broker = order[r].broker /\ o.code = None
      BY <1>1, <1>7, <2>2 DEF OrderSet
    <3> HIDE DEF o
    <3> QED
      BY <3>1, BracketAssumption DEF Onward
  <2> QED
    BY <1>6, <2>1, <2>2 DEF Unanswered
<1> QED
  BY <1>2, <1>3, <1>4, <1>5, <1>6 DEF Call

\* Where what follows the worker leaves its request.
LEMMA LaterMoves ==
    ASSUME BracketInv, NEW r \in Requests,
           (\E id \in Ids : Record(r, id)) \/ Mark(r) \/ Finish(r)
    PROVE  \A q \in Requests : /\ order'[q].broker = order[q].broker
                               /\ order'[q].at \in {"new", "placing"} => order'[q] = order[q]
<1>1. order \in [Requests -> OrderSet]
  BY DEF BracketInv, Types
<1>2. ASSUME NEW o, Request(r, o), o.broker = order[r].broker, o.at \notin {"new", "placing"}
      PROVE  \A q \in Requests : /\ order'[q].broker = order[q].broker
                                 /\ order'[q].at \in {"new", "placing"} => order'[q] = order[q]
  BY <1>1, <1>2 DEF Request
<1>3. ASSUME NEW id \in Ids, Record(r, id)
      PROVE  \E o : Request(r, o) /\ o.broker = order[r].broker /\ o.at \notin {"new", "placing"}
  <2> DEFINE o == [order[r] EXCEPT !.at = "recorded", !.id = id]
  <2>1. Request(r, o) /\ o.broker = order[r].broker /\ o.at = "recorded"
    BY <1>1, <1>3 DEF Record, OrderSet
  <2> QED
    BY <2>1
<1>4. ASSUME NEW code, Fails(r, code)
      PROVE  \E o : Request(r, o) /\ o.broker = order[r].broker /\ o.at \notin {"new", "placing"}
  <2> DEFINE o == [order[r] EXCEPT !.at = "ended", !.code = code]
  <2>1. Request(r, o) /\ o.broker = order[r].broker /\ o.at = "ended"
    BY <1>1, <1>4 DEF Fails, OrderSet
  <2> QED
    BY <2>1
<1>5. ASSUME Mark(r)
      PROVE  \E o : Request(r, o) /\ o.broker = order[r].broker /\ o.at \notin {"new", "placing"}
  <2>1. CASE Request(r, [order[r] EXCEPT !.at = "marked"])
    <3> DEFINE o == [order[r] EXCEPT !.at = "marked"]
    <3>1. Request(r, o) /\ o.broker = order[r].broker /\ o.at = "marked"
      BY <1>1, <2>1 DEF OrderSet
    <3> QED
      BY <3>1
  <2> QED
    BY <1>4, <1>5, <2>1 DEF Mark
<1> QED
  BY <1>2, <1>3, <1>4, <1>5 DEF Finish

\* Every step keeps what stands at the exchange.
LEMMA ExchangeKeeps ==
    ASSUME BracketInv, ExchangeInv, [Next]_vars
    PROVE  ExchangeInv'
<1>1. ASSUME NEW r \in Requests, NEW b \in Brokers, Place(r, b)
      PROVE  ExchangeInv'
  <2>1. UNCHANGED <<taken, resting, position>> /\ order[r].at = "new" /\ Types
    BY <1>1 DEF Place, BracketInv
  <2>2. taken[r] = {} /\ resting[r] = {} /\ position[r] = "none"
    BY <2>1 DEF ExchangeInv, Stands
  <2>3. ASSUME NEW o, Request(r, o), o.at # "new", o.at = "placing" => EntryFirst(o)
        PROVE  ExchangeInv'
    <3>1. ASSUME NEW q \in Requests
          PROVE  Stands(order'[q], taken[q], resting[q], position[q])
      <4>1. CASE q = r
        BY <2>1, <2>2, <2>3, <4>1 DEF Request, Types, Stands
      <4>2. CASE q # r
        <5>1. order'[q] = order[q]
          BY <2>1, <2>3, <4>2 DEF Request, Types
        <5> QED
          BY <5>1 DEF ExchangeInv
      <4> QED
        BY <4>1, <4>2
    <3> QED
      BY <2>1, <3>1 DEF ExchangeInv
  <2>4. CASE Request(r, [Fresh EXCEPT !.at = "placing", !.broker = b, !.todo = Calls(b)])
    <3> DEFINE o == [Fresh EXCEPT !.at = "placing", !.broker = b, !.todo = Calls(b)]
    <3>1. o.good = {} /\ o.todo \in {<<Legs>>, Three} /\ o.at = "placing"
      BY DEF Fresh, Calls, Three
    <3>2. EntryFirst(o)
      BY <3>1 DEF EntryFirst
    <3> HIDE DEF o
    <3> QED
      BY <2>3, <2>4, <3>1, <3>2 DEF o
  <2>5. ASSUME NEW code, Request(r, [Fresh EXCEPT !.at = "ended", !.broker = b, !.code = code])
        PROVE  ExchangeInv'
    <3> DEFINE o == [Fresh EXCEPT !.at = "ended", !.broker = b, !.code = code]
    <3>1. o.at = "ended"
      BY DEF Fresh
    <3> HIDE DEF o
    <3> QED
      BY <2>3, <2>5, <3>1 DEF o
  <2> QED
    BY <1>1, <2>4, <2>5 DEF Place
<1>2. ASSUME NEW r \in Requests, Call(r)
      PROVE  ExchangeInv'
  <2>1. /\ \A q \in Requests \ {r} : order'[q] = order[q]
        /\ Onward(order[r], order'[r])
    BY <1>2, CallGoesOn
  <2>2. order[r].at = "placing" /\ Types
    BY <1>2 DEF Call, BracketInv
  <2>3. CASE Takes(r, Head(order[r].todo))
    <3> DEFINE legs == Head(order[r].todo)
    <3>1. legs \in SUBSET Legs /\ ("entry" \in taken[r] \/ "entry" \in legs)
      BY <2>2, UnderWay, NextCallHasEntry
    <3>5. order[r].broker = "kite" => "entry" \in legs
      BY <2>2, UnderWay, CallsTaken DEF Progress, Legs
    <3> HIDE DEF legs
    <3>2. /\ taken' = [taken EXCEPT ![r] = @ \union legs]
          /\ resting' = [resting EXCEPT ![r] = @ \union (legs \intersect Exits)]
          /\ position' = [position EXCEPT ![r] = IF "entry" \in legs THEN "held" ELSE @]
      BY <2>3 DEF Takes, legs
    <3>3. resting' \in [Requests -> SUBSET Exits]
      BY <3>2 DEF ExchangeInv
    <3>4. ASSUME NEW q \in Requests
          PROVE  Stands(order'[q], taken'[q], resting'[q], position'[q])
      <4>1. Stands(order[q], taken[q], resting[q], position[q])
        BY DEF ExchangeInv
      <4>2. CASE q = r
        <5>1. /\ taken'[q] = taken[q] \union legs
              /\ resting'[q] = resting[q] \union (legs \intersect Exits)
              /\ position'[q] = IF "entry" \in legs THEN "held" ELSE position[q]
          BY <2>2, <3>2, <4>2 DEF Types, ExchangeInv
        <5> QED
          BY <2>1, <3>1, <3>5, <4>1, <4>2, <5>1 DEF Stands, Onward
      <4>3. CASE q # r
        <5>1. order'[q] = order[q] /\ taken'[q] = taken[q] /\ resting'[q] = resting[q] /\ position'[q] = position[q]
          BY <2>1, <2>2, <3>2, <4>3 DEF Types, ExchangeInv
        <5> QED
          BY <4>1, <5>1
      <4> QED
        BY <4>2, <4>3
    <3> QED
      BY <2>2, <3>3, <3>4 DEF ExchangeInv
  <2>4. CASE Untaken
    <3>1. ASSUME NEW q \in Requests
          PROVE  Stands(order'[q], taken'[q], resting'[q], position'[q])
      <4>1. Stands(order[q], taken[q], resting[q], position[q])
        BY DEF ExchangeInv
      <4>2. CASE q = r
        <5>1. /\ order'[q].broker = order[q].broker /\ order'[q].at # "new"
              /\ order'[q].at = "placing" => EntryFirst(order'[q])
          BY <2>1, <4>2 DEF Onward
        <5> QED
          BY <2>4, <4>1, <5>1 DEF Untaken, Stands
      <4>3. CASE q # r
        BY <2>1, <2>4, <4>1, <4>3 DEF Untaken
      <4> QED
        BY <4>2, <4>3
    <3> QED
      BY <2>2, <2>4, <3>1 DEF Untaken, ExchangeInv
  <2> QED
    BY <1>2, <2>3, <2>4 DEF Call
<1>3. ASSUME NEW r \in Requests, (\E id \in Ids : Record(r, id)) \/ Mark(r) \/ Finish(r)
      PROVE  ExchangeInv'
  <2>1. UNCHANGED <<taken, resting, position>>
    BY <1>3 DEF Record, Mark, Finish
  <2>2. \A q \in Requests : /\ order'[q].broker = order[q].broker
                            /\ order'[q].at \in {"new", "placing"} => order'[q] = order[q]
    BY <1>3, LaterMoves
  <2> QED
    BY <2>1, <2>2 DEF ExchangeInv, Stands
<1>4. ASSUME NEW r \in Requests, NEW leg \in Exits, ExitTrades(r, leg)
      PROVE  ExchangeInv'
  <2>1. UNCHANGED <<order, taken>> /\ Types
    BY <1>4 DEF ExitTrades, BracketInv
  <2>2. /\ leg \in resting[r]
        /\ position' = [position EXCEPT ![r] = IF @ = "held" THEN "closed" ELSE "reversed"]
        /\ resting' = [resting EXCEPT ![r] = IF order[r].broker = "kite" THEN {} ELSE @ \ {leg}]
    BY <1>4 DEF ExitTrades
  <2>3. resting' \in [Requests -> SUBSET Exits] /\ \A q \in Requests : resting'[q] \subseteq resting[q]
    BY <2>2 DEF ExchangeInv
  <2>4. ASSUME NEW q \in Requests
        PROVE  Stands(order'[q], taken'[q], resting'[q], position'[q])
    <3>1. Stands(order[q], taken[q], resting[q], position[q])
      BY DEF ExchangeInv
    <3>2. q # r => position'[q] = position[q]
      BY <2>1, <2>2 DEF Types
    <3>3. q = r => taken[q] # {} /\ (order[q].broker = "kite" => resting'[q] = {})
      BY <2>2, <3>1 DEF Stands, ExchangeInv
    <3> QED
      BY <2>1, <2>3, <3>1, <3>2, <3>3 DEF Stands
  <2> QED
    BY <2>1, <2>3, <2>4 DEF ExchangeInv
<1>5. ASSUME NEW p \in Passes, Reconcile(p)
      PROVE  ExchangeInv'
  BY <1>5, PassKeeps DEF ExchangeInv
<1>6. CASE Restart
  <2>1. UNCHANGED <<taken, resting, position>> /\ order \in [Requests -> OrderSet]
    BY <1>6 DEF Restart, BracketInv, Types
  <2>2. \A q \in Requests : /\ order'[q].broker = order[q].broker
                            /\ order'[q].at \in {"new", "placing"} => order'[q] = order[q]
    BY <1>6, <2>1 DEF Restart, OrderSet
  <2> QED
    BY <2>1, <2>2 DEF ExchangeInv, Stands
<1>7. CASE UNCHANGED vars
  BY <1>7 DEF vars, ExchangeInv
<1> QED
  BY <1>1, <1>2, <1>3, <1>4, <1>5, <1>6, <1>7 DEF Next

-----------------------------------------------------------------------------
(***************************************************************************)
(* The ledger.  An order that has been marked, answered or not, holds the  *)
(* row of its id: nothing takes the row back to PENDING, from where alone  *)
(* another order could be marked under it.                                 *)
(***************************************************************************)
Holds(o) == o.at = "marked" \/ o.code = "200"

LedgerInv ==
    /\ ledger \in [Ids -> {"none", "PENDING", "SUBMITTED", "UNKNOWN"}]
    /\ \A r \in Requests : order[r].at = "recorded" \/ Holds(order[r]) => order[r].id \in Ids
    /\ \A r \in Requests : Holds(order[r]) => ledger[order[r].id] \in {"SUBMITTED", "UNKNOWN"}
    /\ \A r, q \in Requests :
        Holds(order[r]) /\ Holds(order[q]) /\ order[r].id = order[q].id => r = q

\* A step that makes no order a holder, and takes no row back, keeps the ledger.
LEMMA HoldersStay ==
    ASSUME LedgerInv,
           ledger' \in [Ids -> {"none", "PENDING", "SUBMITTED", "UNKNOWN"}],
           \A i \in Ids : ledger[i] \in {"SUBMITTED", "UNKNOWN"}
                            => ledger'[i] \in {"SUBMITTED", "UNKNOWN"},
           \A q \in Requests : order'[q].at = "recorded" => order'[q].id \in Ids,
           \A q \in Requests : Holds(order'[q]) => Holds(order[q]) /\ order'[q].id = order[q].id
    PROVE  LedgerInv'
<1>1. \A q \in Requests : order'[q].at = "recorded" \/ Holds(order'[q]) => order'[q].id \in Ids
  BY DEF LedgerInv
<1>2. \A q \in Requests : Holds(order'[q]) => ledger'[order'[q].id] \in {"SUBMITTED", "UNKNOWN"}
  BY DEF LedgerInv
<1>3. \A r, q \in Requests :
        Holds(order'[r]) /\ Holds(order'[q]) /\ order'[r].id = order'[q].id => r = q
  BY DEF LedgerInv
<1> QED
  BY <1>1, <1>2, <1>3 DEF LedgerInv, Holds

\* A request that is changed to o, which holds no row, leaves the holders alone.
LEMMA NoNewHolder ==
    ASSUME BracketInv, LedgerInv, NEW r \in Requests, NEW o,
           \A q \in Requests \ {r} : order'[q] = order[q], order'[r] = o,
           o.at \notin {"recorded", "marked"}, o.code # "200",
           UNCHANGED ledger
    PROVE  LedgerInv'
<1>1. \A q \in Requests : Holds(order'[q]) => Holds(order[q]) /\ order'[q].id = order[q].id
  BY DEF Holds
<1>2. \A q \in Requests : order'[q].at = "recorded" => order'[q].id \in Ids
  BY DEF LedgerInv
<1>3. /\ ledger' \in [Ids -> {"none", "PENDING", "SUBMITTED", "UNKNOWN"}]
      /\ \A i \in Ids : ledger[i] \in {"SUBMITTED", "UNKNOWN"}
                            => ledger'[i] \in {"SUBMITTED", "UNKNOWN"}
  BY DEF LedgerInv
<1> QED
  BY <1>1, <1>2, <1>3, HoldersStay

\* A row is marked out of PENDING, where no order holds it (execution.mark).
LEMMA MarkHolds ==
    ASSUME BracketInv, LedgerInv, NEW r \in Requests, Mark(r)
    PROVE  LedgerInv'
<1>0. /\ order \in [Requests -> OrderSet] /\ order[r] \in OrderSet
      /\ order[r].at = "recorded" /\ order[r].id \in Ids
  BY DEF Mark, LedgerInv, BracketInv, Types
<1>1. CASE Fails(r, "500") /\ UNCHANGED ledger
  <2> DEFINE o == [order[r] EXCEPT !.at = "ended", !.code = "500"]
  <2>1. o.at = "ended" /\ o.code = "500"
    BY <1>0 DEF OrderSet
  <2>2. order' = [order EXCEPT ![r] = o]
    BY <1>1 DEF Fails, Request
  <2> HIDE DEF o
  <2>3. order'[r] = o /\ \A q \in Requests \ {r} : order'[q] = order[q]
    BY <1>0, <2>2
  <2> QED
    BY <1>1, <2>1, <2>3, NoNewHolder
<1>2. CASE /\ MaySubmit(ledger[order[r].id])
           /\ ledger' = [ledger EXCEPT ![order[r].id] = "SUBMITTED"]
           /\ Request(r, [order[r] EXCEPT !.at = "marked"])
  <2> DEFINE o == [order[r] EXCEPT !.at = "marked"]
             i == order[r].id
  <2>1. o.at = "marked" /\ o.id = i
    BY <1>0 DEF OrderSet
  <2>2. order'[r] = o /\ \A q \in Requests \ {r} : order'[q] = order[q]
    BY <1>0, <1>2 DEF Request
  <2>3. ledger[i] = "PENDING" /\ ledger' = [ledger EXCEPT ![i] = "SUBMITTED"] /\ i \in Ids
    BY <1>0, <1>2 DEF MaySubmit
  <2> HIDE DEF o, i
  <2>4. ledger' \in [Ids -> {"none", "PENDING", "SUBMITTED", "UNKNOWN"}]
    BY <2>3 DEF LedgerInv
  <2>5. \A q \in Requests \ {r} : Holds(order[q]) => order[q].id # i
    BY <2>3 DEF LedgerInv
  <2>6. \A q \in Requests : order'[q].at = "recorded" \/ Holds(order'[q]) => order'[q].id \in Ids
    BY <2>1, <2>2, <2>3 DEF LedgerInv
  <2>7. \A q \in Requests : Holds(order'[q]) => ledger'[order'[q].id] \in {"SUBMITTED", "UNKNOWN"}
    <3>1. ledger'[i] = "SUBMITTED" /\ \A j \in Ids \ {i} : ledger'[j] = ledger[j]
      BY <2>3 DEF LedgerInv
    <3> QED
      BY <2>1, <2>2, <2>5, <3>1 DEF LedgerInv
  <2>8. \A p, q \in Requests :
          Holds(order'[p]) /\ Holds(order'[q]) /\ order'[p].id = order'[q].id => p = q
    BY <2>1, <2>2, <2>5 DEF LedgerInv
  <2> QED
    BY <2>4, <2>6, <2>7, <2>8 DEF LedgerInv, Holds
<1> QED
  BY <1>1, <1>2 DEF Mark

\* Every step keeps the ledger.
LEMMA LedgerKeeps ==
    ASSUME BracketInv, ExchangeInv, LedgerInv, [Next]_vars
    PROVE  LedgerInv'
<1>0. order \in [Requests -> OrderSet]
  BY DEF BracketInv, Types
<1>1. ASSUME NEW r \in Requests, NEW b \in Brokers, Place(r, b)
      PROVE  LedgerInv'
  <2>1. ASSUME NEW o, Request(r, o), o.at \notin {"recorded", "marked"}, o.code # "200"
        PROVE  LedgerInv'
    BY <1>0, <1>1, <2>1, NoNewHolder DEF Place, Request
  <2>2. CASE Request(r, [Fresh EXCEPT !.at = "placing", !.broker = b, !.todo = Calls(b)])
    <3> DEFINE o == [Fresh EXCEPT !.at = "placing", !.broker = b, !.todo = Calls(b)]
    <3>1. o.at = "placing" /\ o.code # "200"
      BY BracketAssumption DEF Fresh
    <3> HIDE DEF o
    <3> QED
      BY <2>1, <2>2, <3>1 DEF o
  <2>3. ASSUME NEW code \in {"403", "500"},
               Request(r, [Fresh EXCEPT !.at = "ended", !.broker = b, !.code = code])
        PROVE  LedgerInv'
    <3> DEFINE o == [Fresh EXCEPT !.at = "ended", !.broker = b, !.code = code]
    <3>1. o.at = "ended" /\ o.code # "200"
      BY DEF Fresh
    <3> HIDE DEF o
    <3> QED
      BY <2>1, <2>3, <3>1 DEF o
  <2> QED
    BY <1>1, <2>2, <2>3 DEF Place
<1>2. ASSUME NEW r \in Requests, Call(r)
      PROVE  LedgerInv'
  <2>1. /\ \A q \in Requests \ {r} : order'[q] = order[q]
        /\ Onward(order[r], order'[r])
    BY <1>2, CallGoesOn
  <2>2. UNCHANGED ledger
    BY <1>2 DEF Call
  <2> QED
    BY <2>1, <2>2, NoNewHolder DEF Onward
<1>3. ASSUME NEW r \in Requests, NEW id \in Ids, Record(r, id)
      PROVE  LedgerInv'
  <2>1. /\ order[r] \in OrderSet /\ order[r].at = "returned" /\ order[r].code = None
        /\ order' = [order EXCEPT ![r] = [order[r] EXCEPT !.at = "recorded", !.id = id]]
    BY <1>0, <1>3 DEF Record, Request, BracketInv, RequestInv
  <2>2. /\ order'[r].at = "recorded" /\ order'[r].id = id /\ order'[r].code = None
        /\ \A q \in Requests \ {r} : order'[q] = order[q]
    BY <1>0, <2>1 DEF OrderSet
  <2>3. /\ ledger' \in [Ids -> {"none", "PENDING", "SUBMITTED", "UNKNOWN"}]
        /\ \A i \in Ids : ledger[i] # "none" => ledger'[i] = ledger[i]
    BY <1>3 DEF Record, LedgerInv
  <2>4. \A q \in Requests : Holds(order'[q]) => Holds(order[q]) /\ order'[q].id = order[q].id
    BY <2>2, BracketAssumption DEF Holds
  <2>5. \A q \in Requests : order'[q].at = "recorded" => order'[q].id \in Ids
    BY <2>2 DEF LedgerInv
  <2> QED
    BY <2>3, <2>4, <2>5, HoldersStay
<1>4. ASSUME NEW r \in Requests, Mark(r)
      PROVE  LedgerInv'
  BY <1>4, MarkHolds
<1>5. ASSUME NEW r \in Requests, Finish(r)
      PROVE  LedgerInv'
  <2>1. /\ order[r] \in OrderSet /\ order[r].at = "marked"
        /\ order' = [order EXCEPT ![r] = [order[r] EXCEPT !.at = "ended", !.code = "200"]]
        /\ UNCHANGED ledger
    BY <1>0, <1>5 DEF Finish, Fails, Request
  <2>2. /\ order'[r].at = "ended" /\ order'[r].id = order[r].id /\ Holds(order[r])
        /\ \A q \in Requests \ {r} : order'[q] = order[q]
    BY <1>0, <2>1 DEF OrderSet, Holds
  <2>3. \A q \in Requests : Holds(order'[q]) => Holds(order[q]) /\ order'[q].id = order[q].id
    BY <2>2
  <2>4. \A q \in Requests : order'[q].at = "recorded" => order'[q].id \in Ids
    BY <2>2 DEF LedgerInv
  <2>5. ledger' \in [Ids -> {"none", "PENDING", "SUBMITTED", "UNKNOWN"}]
    BY <2>1 DEF LedgerInv
  <2> QED
    BY <2>1, <2>3, <2>4, <2>5, HoldersStay
<1>6. ASSUME NEW r \in Requests, NEW leg \in Exits, ExitTrades(r, leg)
      PROVE  LedgerInv'
  BY <1>6 DEF ExitTrades, LedgerInv, Holds
<1>7. ASSUME NEW p \in Passes, Reconcile(p)
      PROVE  LedgerInv'
  <2>1. UNCHANGED order
    BY <1>7, PassKeeps
  <2>2. /\ ledger' \in [Ids -> {"none", "PENDING", "SUBMITTED", "UNKNOWN"}]
        /\ \A i \in Ids : ledger[i] \in {"SUBMITTED", "UNKNOWN"}
                            => ledger'[i] \in {"SUBMITTED", "UNKNOWN"}
    BY <1>7 DEF Reconcile, StartPass, Ask, ListUnknown, SetGate, LedgerInv
  <2>3. \A q \in Requests : Holds(order'[q]) => Holds(order[q]) /\ order'[q].id = order[q].id
    BY <2>1
  <2>4. \A q \in Requests : order'[q].at = "recorded" => order'[q].id \in Ids
    BY <2>1 DEF LedgerInv
  <2> QED
    BY <2>2, <2>3, <2>4, HoldersStay
<1>8. CASE Restart
  <2>1. \A q \in Requests : /\ order'[q].at \in {"new", "ended"}
                            /\ order'[q].code = order[q].code /\ order'[q].id = order[q].id
    BY <1>0, <1>8 DEF Restart, OrderSet
  <2>2. /\ ledger' \in [Ids -> {"none", "PENDING", "SUBMITTED", "UNKNOWN"}]
        /\ \A i \in Ids : ledger[i] \in {"SUBMITTED", "UNKNOWN"}
                            => ledger'[i] \in {"SUBMITTED", "UNKNOWN"}
    BY <1>8 DEF Restart, LedgerInv
  <2>3. \A q \in Requests : Holds(order'[q]) => Holds(order[q]) /\ order'[q].id = order[q].id
    BY <2>1 DEF Holds
  <2> QED
    BY <2>1, <2>2, <2>3, HoldersStay
<1>9. CASE UNCHANGED vars
  BY <1>9 DEF vars, LedgerInv, Holds
<1> QED
  BY <1>1, <1>2, <1>3, <1>4, <1>5, <1>6, <1>7, <1>8, <1>9 DEF Next

-----------------------------------------------------------------------------
(***************************************************************************)
(* Reconciliation.  A pass over Kite that found nothing has seen all that  *)
(* was there when it asked, and what came later is in its history.         *)
(***************************************************************************)
Left(o, held) == o.broker = "kite" /\ held \in {"held", "reversed"}

HasSeen(state) ==
    state.at \in {"listing", "opening"} /\ state.broker = "kite" /\ state.clear =>
        \A r \in Requests : Left(order[r], position[r]) => r \in state.since

PassInv ==
    /\ gate \in BOOLEAN
    /\ pass \in [Passes -> PassType]
    /\ \A p \in Passes : (pass[p].at = "opening" => pass[p].clear) /\ HasSeen(pass[p])

\* A step that leaves the passes alone, or sends some away, and leaves no
\* position of Kite's, keeps what the passes have seen.
LEMMA SeenStays ==
    ASSUME PassInv, gate' \in BOOLEAN,
           pass' \in [Passes -> PassType],
           \A p \in Passes : pass'[p] = pass[p] \/ pass'[p] = NoPass,
           \A r \in Requests : Left(order'[r], position'[r]) => Left(order[r], position[r])
    PROVE  PassInv'
<1>1. ASSUME NEW p \in Passes
      PROVE  (pass'[p].at = "opening" => pass'[p].clear) /\ HasSeen(pass[p])'
  <2>1. CASE pass'[p] = pass[p]
    BY <2>1 DEF PassInv, HasSeen, Left
  <2>2. CASE pass'[p] = NoPass
    BY <2>2 DEF NoPass, HasSeen
  <2> QED
    BY <2>1, <2>2
<1> QED
  BY <1>1 DEF PassInv

\* Nothing an exit does leaves a position of Kite's: its exits go together.
LEMMA NothingLeft ==
    ASSUME BracketInv, ExchangeInv, NEW r \in Requests, NEW leg \in Exits, ExitTrades(r, leg)
    PROVE  \A q \in Requests : Left(order'[q], position'[q]) => Left(order[q], position[q])
<1>1. /\ UNCHANGED order /\ Types /\ leg \in resting[r]
      /\ position' = [position EXCEPT ![r] = IF @ = "held" THEN "closed" ELSE "reversed"]
  BY DEF ExitTrades, BracketInv
<1>2. order[r].broker = "kite" => position[r] = "held"
  BY <1>1 DEF ExchangeInv, Stands
<1> QED
  BY <1>1, <1>2 DEF Types, Left

\* A call that takes an entry is in the history of the passes that have asked.
LEMMA TakenIsSeen ==
    ASSUME BracketInv, ExchangeInv, PassInv, NEW r \in Requests, Call(r),
           Takes(r, Head(order[r].todo))
    PROVE  PassInv'
<1> DEFINE legs == Head(order[r].todo)
<1>1. /\ \A q \in Requests \ {r} : order'[q] = order[q]
      /\ order'[r].broker = order[r].broker
  BY CallGoesOn DEF Onward
<1>2. Types /\ UNCHANGED gate
  BY DEF Call, BracketInv
<1>3. /\ position' = [position EXCEPT ![r] = IF "entry" \in legs THEN "held" ELSE @]
      /\ pass' = [p \in Passes |->
                    IF "entry" \in legs /\ pass[p].at \in {"listing", "opening"}
                    THEN [pass[p] EXCEPT !.since = @ \union {r}] ELSE pass[p]]
  BY DEF Takes
<1> HIDE DEF legs
<1>4. ASSUME NEW p \in Passes
      PROVE  /\ pass'[p] \in PassType
             /\ pass'[p].at = "opening" => pass'[p].clear
             /\ HasSeen(pass[p])'
  <2>1. pass[p] \in PassType /\ (pass[p].at = "opening" => pass[p].clear) /\ HasSeen(pass[p])
    BY DEF PassInv
  <2>2. CASE "entry" \in legs /\ pass[p].at \in {"listing", "opening"}
    <3>1. pass'[p] = [pass[p] EXCEPT !.since = @ \union {r}]
      BY <1>3, <2>2
    <3>2. /\ pass'[p] \in PassType /\ pass'[p].at = pass[p].at
          /\ pass'[p].broker = pass[p].broker /\ pass'[p].clear = pass[p].clear
          /\ pass'[p].since = pass[p].since \union {r}
      BY <2>1, <3>1 DEF PassType
    <3>3. \A q \in Requests \ {r} : Left(order'[q], position'[q]) => Left(order[q], position[q])
      BY <1>1, <1>2, <1>3 DEF Left, Types
    <3> QED
      BY <2>1, <3>2, <3>3 DEF HasSeen
  <2>3. CASE ~("entry" \in legs /\ pass[p].at \in {"listing", "opening"})
    <3>1. pass'[p] = pass[p]
      BY <1>3, <2>3
    <3>2. CASE "entry" \in legs
      BY <2>1, <2>3, <3>1, <3>2 DEF HasSeen
    <3>3. CASE "entry" \notin legs
      <4>1. \A q \in Requests : Left(order'[q], position'[q]) => Left(order[q], position[q])
        BY <1>1, <1>2, <1>3, <3>3 DEF Left, Types
      <4> QED
        BY <2>1, <3>1, <4>1 DEF HasSeen
    <3> QED
      BY <3>2, <3>3
  <2> QED
    BY <2>2, <2>3
<1>5. pass' \in [Passes -> PassType]
  BY <1>3, <1>4
<1> QED
  BY <1>2, <1>4, <1>5 DEF PassInv

\* A thread without a pass has the type of one.
LEMMA NoPassTyped == NoPass \in PassType
BY DEF NoPass, PassType

\* A pass that changes from one state to the next, alone, keeps what it has seen.
LEMMA OnePass ==
    ASSUME PassInv, NEW p \in Passes, NEW state \in PassType,
           pass' = [pass EXCEPT ![p] = state], gate' \in BOOLEAN,
           UNCHANGED <<order, position>>,
           state.at = "opening" => state.clear, HasSeen(state)
    PROVE  PassInv'
<1>1. pass' \in [Passes -> PassType]
  BY DEF PassInv
<1>2. ASSUME NEW q \in Passes
      PROVE  (pass'[q].at = "opening" => pass'[q].clear) /\ HasSeen(pass[q])'
  <2>1. CASE q = p
    <3>1. pass'[q] = state
      BY <2>1 DEF PassInv
    <3> QED
      BY <3>1 DEF HasSeen
  <2>2. CASE q # p
    <3>1. pass'[q] = pass[q]
      BY <2>2 DEF PassInv
    <3> QED
      BY <3>1 DEF HasSeen, PassInv
  <2> QED
    BY <2>1, <2>2
<1> QED
  BY <1>1, <1>2 DEF PassInv

\* A step of a pass keeps what the passes have seen: it is clear of Kite's
\* positions when Kite answered that there are none (execution.reconcile).
LEMMA ReconcileKeeps ==
    ASSUME BracketInv, PassInv, NEW p \in Passes, Reconcile(p)
    PROVE  PassInv'
<1>0. /\ pass[p] \in PassType /\ HasSeen(pass[p]) /\ UNCHANGED <<order, position>>
      /\ gate \in BOOLEAN
  BY PassKeeps DEF PassInv
<1>1. ASSUME NEW b \in Brokers \union {"paper"}, NEW late \in SUBSET Ids, StartPass(p, b, late)
      PROVE  PassInv'
  <2> DEFINE state == [NoPass EXCEPT !.at = "asking", !.broker = b]
  <2>1. state \in PassType /\ state.at = "asking"
    BY NoPassTyped DEF NoPass, PassType
  <2>2. pass' = [pass EXCEPT ![p] = state] /\ gate' \in BOOLEAN
    BY <1>0, <1>1 DEF StartPass
  <2> HIDE DEF state
  <2> QED
    BY <1>0, <2>1, <2>2, OnePass DEF HasSeen
<1>2. CASE Ask(p)
  <2>1. ASSUME NEW answered \in BOOLEAN, NEW clear \in BOOLEAN,
               pass' = [pass EXCEPT ![p] = [@ EXCEPT !.at = "listing", !.answered = answered,
                                                     !.clear = clear]],
               pass[p].broker = "kite" /\ clear => Seen("kite") = {}
        PROVE  PassInv'
    <3> DEFINE state == [pass[p] EXCEPT !.at = "listing", !.answered = answered, !.clear = clear]
    <3>1. /\ state \in PassType /\ state.at = "listing"
          /\ state.broker = pass[p].broker /\ state.clear = clear
      BY <1>0 DEF PassType
    <3>2. pass' = [pass EXCEPT ![p] = state] /\ gate' \in BOOLEAN
      BY <1>0, <1>2, <2>1 DEF Ask, PassInv
    <3>3. Seen("kite") = {} => \A r \in Requests : ~Left(order[r], position[r])
      BY DEF Seen, Left
    <3> HIDE DEF state
    <3>4. HasSeen(state)
      BY <2>1, <3>1, <3>3 DEF HasSeen
    <3> QED
      BY <1>0, <3>1, <3>2, <3>4, OnePass
  <2>2. (Untracked(pass[p].broker) = {}) \in BOOLEAN
    OBVIOUS
  <2>3. CASE pass' = [pass EXCEPT ![p] = [@ EXCEPT !.at = "listing", !.answered = TRUE,
                                    !.clear = (Untracked(pass[p].broker) = {})]]
    BY <2>1, <2>2, <2>3 DEF Untracked
  <2>4. CASE pass' = [pass EXCEPT ![p] = [@ EXCEPT !.at = "listing", !.answered = FALSE,
                                    !.clear = FALSE]]
    BY <2>1, <2>4
  <2>5. CASE /\ pass[p].broker = "openalgo"
             /\ pass' = [pass EXCEPT ![p] = [@ EXCEPT !.at = "listing", !.answered = FALSE,
                                    !.clear = TRUE]]
    BY <2>1, <2>5
  <2> QED
    BY <1>2, <2>3, <2>4, <2>5 DEF Ask
<1>3. CASE ListUnknown(p)
  <2>1. CASE pass' = [pass EXCEPT ![p] = [NoPass EXCEPT !.at = "closing"]]
    <3> DEFINE state == [NoPass EXCEPT !.at = "closing"]
    <3>1. state \in PassType /\ state.at = "closing"
      BY NoPassTyped DEF NoPass, PassType
    <3>2. pass' = [pass EXCEPT ![p] = state] /\ gate' \in BOOLEAN
      BY <1>0, <1>3, <2>1 DEF ListUnknown
    <3> HIDE DEF state
    <3> QED
      BY <1>0, <3>1, <3>2, OnePass DEF HasSeen
  <2>2. CASE pass[p].clear /\ pass' = [pass EXCEPT ![p] = [@ EXCEPT !.at = "opening"]]
    <3> DEFINE state == [pass[p] EXCEPT !.at = "opening"]
    <3>1. /\ state \in PassType /\ state.at = "opening" /\ state.clear
          /\ state.broker = pass[p].broker /\ state.since = pass[p].since
      BY <1>0, <2>2 DEF PassType
    <3>2. pass' = [pass EXCEPT ![p] = state] /\ gate' \in BOOLEAN
      BY <1>0, <1>3, <2>2 DEF ListUnknown, PassInv
    <3> HIDE DEF state
    <3>3. HasSeen(state)
      BY <1>0, <1>3, <2>2, <3>1 DEF HasSeen, ListUnknown
    <3> QED
      BY <1>0, <3>1, <3>2, <3>3, OnePass
  <2>3. pass' = [pass EXCEPT ![p] =
            IF pass[p].clear /\ \A i \in Ids : ledger[i] # "UNKNOWN"
            THEN [pass[p] EXCEPT !.at = "opening"]
            ELSE [NoPass EXCEPT !.at = "closing"]]
    BY <1>3 DEF ListUnknown
  <2> QED
    BY <2>1, <2>2, <2>3
<1>4. CASE SetGate(p)
  <2>1. NoPass.at = "idle"
    BY DEF NoPass
  <2>2. gate' \in BOOLEAN /\ pass' = [pass EXCEPT ![p] = NoPass]
    BY <1>4 DEF SetGate
  <2> QED
    BY <1>0, <2>1, <2>2, NoPassTyped, OnePass DEF HasSeen
<1> QED
  BY <1>1, <1>2, <1>3, <1>4 DEF Reconcile

\* Every step keeps what the passes have seen.
LEMMA PassInvKeeps ==
    ASSUME BracketInv, ExchangeInv, PassInv, [Next]_vars
    PROVE  PassInv'
<1>0. Types /\ gate \in BOOLEAN /\ pass \in [Passes -> PassType]
  BY DEF BracketInv, PassInv
<1>1. ASSUME NEW r \in Requests, NEW b \in Brokers, Place(r, b)
      PROVE  PassInv'
  <2>1. order[r].at = "new" /\ UNCHANGED <<position, gate, pass>>
    BY <1>1 DEF Place
  <2>2. position[r] = "none"
    BY <2>1 DEF ExchangeInv, Stands
  <2>3. \A q \in Requests \ {r} : order'[q] = order[q]
    BY <1>0, <1>1 DEF Place, Request, Types
  <2>4. \A q \in Requests : Left(order'[q], position'[q]) => Left(order[q], position[q])
    BY <2>1, <2>2, <2>3 DEF Left
  <2> QED
    BY <1>0, <2>1, <2>4, SeenStays
<1>2. ASSUME NEW r \in Requests, Call(r)
      PROVE  PassInv'
  <2>1. CASE Takes(r, Head(order[r].todo))
    BY <1>2, <2>1, TakenIsSeen
  <2>2. CASE Untaken
    <3>1. /\ \A q \in Requests \ {r} : order'[q] = order[q]
          /\ order'[r].broker = order[r].broker
      BY <1>2, CallGoesOn DEF Onward
    <3>2. UNCHANGED <<position, pass, gate>>
      BY <1>2, <2>2 DEF Untaken, Call
    <3>3. \A q \in Requests : Left(order'[q], position'[q]) => Left(order[q], position[q])
      BY <3>1, <3>2 DEF Left
    <3> QED
      BY <1>0, <3>2, <3>3, SeenStays
  <2> QED
    BY <1>2, <2>1, <2>2 DEF Call
<1>3. ASSUME NEW r \in Requests, (\E id \in Ids : Record(r, id)) \/ Mark(r) \/ Finish(r)
      PROVE  PassInv'
  <2>1. \A q \in Requests : order'[q].broker = order[q].broker
    BY <1>3, LaterMoves
  <2>2. UNCHANGED <<position, gate>>
    BY <1>3 DEF Record, Mark, Finish
  <2>3. \A q \in Requests : Left(order'[q], position'[q]) => Left(order[q], position[q])
    BY <2>1, <2>2 DEF Left
  <2>4. /\ pass' \in [Passes -> PassType]
        /\ \A p \in Passes : pass'[p] = pass[p] \/ pass'[p] = NoPass
    BY <1>0, <1>3, NoPassTyped DEF Record, Mark, Finish
  <2> QED
    BY <1>0, <2>2, <2>3, <2>4, SeenStays
<1>4. ASSUME NEW r \in Requests, NEW leg \in Exits, ExitTrades(r, leg)
      PROVE  PassInv'
  <2>1. \A q \in Requests : Left(order'[q], position'[q]) => Left(order[q], position[q])
    BY <1>4, NothingLeft
  <2>2. UNCHANGED <<gate, pass>>
    BY <1>4 DEF ExitTrades
  <2> QED
    BY <1>0, <2>1, <2>2, SeenStays
<1>5. ASSUME NEW p \in Passes, Reconcile(p)
      PROVE  PassInv'
  BY <1>5, ReconcileKeeps
<1>6. CASE Restart
  <2>1. UNCHANGED position /\ gate' = TRUE /\ pass' = [p \in Passes |-> NoPass]
    BY <1>6 DEF Restart
  <2>2. \A q \in Requests : order'[q].broker = order[q].broker
    BY <1>0, <1>6 DEF Restart, Types, OrderSet
  <2>3. \A q \in Requests : Left(order'[q], position'[q]) => Left(order[q], position[q])
    BY <2>1, <2>2 DEF Left
  <2> QED
    BY <1>0, <2>1, <2>3, NoPassTyped, SeenStays
<1>7. CASE UNCHANGED vars
  BY <1>7 DEF vars, PassInv, HasSeen
<1> QED
  BY <1>1, <1>2, <1>3, <1>4, <1>5, <1>6, <1>7 DEF Next

-----------------------------------------------------------------------------
\* What the exchange, the ledger and the passes keep, beside BracketInv.
LEMMA PartsInvariant == Spec => [](ExchangeInv /\ LedgerInv /\ PassInv)
<1>1. Init => ExchangeInv /\ LedgerInv /\ PassInv
  <2> SUFFICES ASSUME Init PROVE ExchangeInv /\ LedgerInv /\ PassInv
    OBVIOUS
  <2>1. ExchangeInv
    BY BracketAssumption DEF Init, ExchangeInv, Stands, Fresh
  <2>2. LedgerInv
    BY BracketAssumption DEF Init, LedgerInv, Holds, Fresh
  <2>3. PassInv
    BY NoPassTyped DEF Init, PassInv, HasSeen, NoPass
  <2> QED
    BY <2>1, <2>2, <2>3
<1>2. BracketInv /\ ExchangeInv /\ LedgerInv /\ PassInv /\ [Next]_vars
        => ExchangeInv' /\ LedgerInv' /\ PassInv'
  BY ExchangeKeeps, LedgerKeeps, PassInvKeeps
<1> QED
  BY <1>1, <1>2, BracketInvariant, PTL DEF Spec

\* An order answered 200 can be looked up and is no other's, whatever ids the
\* brokers leave out and however often a restart makes the rows UNKNOWN.
THEOREM ExecutedRecorded == Spec => []ExecutedIsRecorded
<1>1. LedgerInv => ExecutedIsRecorded
  BY DEF LedgerInv, Holds, ExecutedIsRecorded
<1> QED
  BY <1>1, PartsInvariant, PTL

\* A pass over Kite that is about to open the gate has seen every position but
\* those of orders taken since it asked, however many passes and orders overlap.
THEOREM KiteGate == Spec => []GateSeesPositions
<1>1. PassInv => GateSeesPositions
  BY DEF PassInv, HasSeen, Left, GateSeesPositions
<1> QED
  BY <1>1, PartsInvariant, PTL

\* Whatever is refused, lost or traded late: an exit rests only where it was taken,
\* and neither an exit nor a position is there without its entry (place_bracket).
THEOREM BracketTyping == Spec => []TypeOK
<1>1. BracketInv /\ ExchangeInv /\ LedgerInv /\ PassInv => TypeOK
  BY DEF BracketInv, Types, OrderSet, ExchangeInv, Stands, LedgerInv, PassInv, TypeOK,
         Stages, Codes, Positions, Rows
<1> QED
  BY <1>1, BracketInvariant, PartsInvariant, PTL
=============================================================================
