-------------------------- MODULE NavigationProofs --------------------------
(***************************************************************************)
(* Safety of Navigation for all queue capacities and any set of            *)
(* commanders: type correctness, the single move in flight, the tick       *)
(* discipline, the post that never blocks, the end of Manual mode and the  *)
(* step simulation of MoveCycle.                                           *)
(***************************************************************************)
EXTENDS Navigation, SequenceTheorems, TLAPS

-----------------------------------------------------------------------------
(* Queues as multisets: where a message occurs in a sequence.              *)

Has(q, m) == \E i \in 1..Len(q) : q[i] = m

AtMostOnce(q, m) == \A i, j \in 1..Len(q) : q[i] = m /\ q[j] = m => i = j

\* A message occurs after an Append if it did before or is the one appended.
LEMMA HasAppend ==
    ASSUME NEW S, NEW q \in Seq(S), NEW e \in S, NEW m
    PROVE  Has(Append(q, e), m) <=> Has(q, m) \/ e = m
<1> DEFINE r == Append(q, e)
<1>1. /\ Len(q) \in Nat
      /\ Len(r) = Len(q) + 1
      /\ \A i \in 1..Len(q) : r[i] = q[i]
      /\ r[Len(q) + 1] = e
    BY AppendProperties, LenProperties
<1>2. \A i \in 1..Len(r) : i \in 1..Len(q) \/ i = Len(q) + 1
    BY <1>1
<1>3. 1..Len(q) \subseteq 1..Len(r) /\ Len(q) + 1 \in 1..Len(r)
    BY <1>1
<1> QED
    BY <1>1, <1>2, <1>3 DEF Has

\* Appending a message that does not occur yet leaves one occurrence.
LEMMA OnceAppend ==
    ASSUME NEW S, NEW q \in Seq(S), NEW e \in S, NEW m,
           AtMostOnce(q, m), e = m => ~Has(q, m)
    PROVE  AtMostOnce(Append(q, e), m)
<1> DEFINE r == Append(q, e)
<1>1. /\ Len(q) \in Nat
      /\ Len(r) = Len(q) + 1
      /\ \A i \in 1..Len(q) : r[i] = q[i]
      /\ r[Len(q) + 1] = e
    BY AppendProperties, LenProperties
<1>2. \A i \in 1..Len(r) : i \in 1..Len(q) \/ i = Len(q) + 1
    BY <1>1
<1> QED
    BY <1>1, <1>2 DEF Has, AtMostOnce

\* What occurs in a queue is its head or occurs in its tail.
LEMMA HasTail ==
    ASSUME NEW S, NEW q \in Seq(S), q # <<>>, NEW m
    PROVE  Has(q, m) <=> Head(q) = m \/ Has(Tail(q), m)
<1>1. /\ Len(q) \in Nat \ {0}
      /\ Head(q) = q[1]
      /\ Len(Tail(q)) = Len(q) - 1
      /\ \A i \in 1..Len(Tail(q)) : Tail(q)[i] = q[i + 1]
    BY HeadTailProperties, EmptySeq
<1>2. \A i \in 1..Len(q) : i = 1 \/ i - 1 \in 1..Len(Tail(q))
    BY <1>1
<1>3. \A i \in 1..Len(Tail(q)) : i + 1 \in 1..Len(q)
    BY <1>1
<1>4. 1 \in 1..Len(q)
    BY <1>1
<1>5. \A i \in 1..Len(q) : i = 1 \/ Tail(q)[i - 1] = q[i]
    BY <1>1, <1>2
<1> QED
    BY <1>1, <1>2, <1>3, <1>4, <1>5 DEF Has

\* Removing the head keeps occurrences single, and leaves none of the head's.
LEMMA OnceTail ==
    ASSUME NEW S, NEW q \in Seq(S), q # <<>>, NEW m, AtMostOnce(q, m)
    PROVE  /\ AtMostOnce(Tail(q), m)
           /\ Head(q) = m => ~Has(Tail(q), m)
<1>1. /\ Len(q) \in Nat \ {0}
      /\ Head(q) = q[1]
      /\ Len(Tail(q)) = Len(q) - 1
      /\ \A i \in 1..Len(Tail(q)) : Tail(q)[i] = q[i + 1]
    BY HeadTailProperties, EmptySeq
<1>2. \A i \in 1..Len(Tail(q)) : i + 1 \in 1..Len(q) /\ i + 1 # 1
    BY <1>1
<1>3. 1 \in 1..Len(q)
    BY <1>1
<1>4. \A i, j \in 1..Len(Tail(q)) : i + 1 = j + 1 => i = j
    BY <1>1
<1> QED
    BY <1>1, <1>2, <1>3, <1>4 DEF Has, AtMostOnce

-----------------------------------------------------------------------------
(* The inductive invariant.                                                *)

MoveDone == "NAV_EVENT_MOVE_FORWARD_DONE"

\* The six places where the trace of a move can be.
Posting    == actPc = "post"
Commanded  == svcQueue # <<>>
Publishing == svcPc = "publish"
Published  == Has(evQueue, MoveDone)
Delivering == loopPc = "deliver"
Completed  == Has(actQueue, "MOVE_DONE")

\* No two places at once.
OnePlace ==
    /\ Posting    => ~Commanded /\ ~Publishing /\ ~Published /\ ~Delivering /\ ~Completed
    /\ Commanded  => ~Publishing /\ ~Published /\ ~Delivering /\ ~Completed
    /\ Publishing => ~Published /\ ~Delivering /\ ~Completed
    /\ Published  => ~Delivering /\ ~Completed
    /\ Delivering => ~Completed

\* And in each queue at most one.
OnceInPlace ==
    /\ Len(svcQueue) <= 1
    /\ AtMostOnce(evQueue, MoveDone)
    /\ AtMostOnce(actQueue, "MOVE_DONE")

SomePlace ==
    Posting \/ Commanded \/ Publishing \/ Published \/ Delivering \/ Completed

IInv ==
    /\ TypeOK
    /\ \A s \in Sources : pending[s] # "MOVE_DONE"
    /\ actPc = "boot" => state = "Idle"
    /\ TickingIffManual
    /\ OnePlace
    /\ OnceInPlace
    /\ SomePlace => state = "Working"
    /\ state = "Working" /\ subscribed => SomePlace

-----------------------------------------------------------------------------
(* Type correctness.                                                       *)

\* Sources post commands, never the completion of a move.
LEMMA CommandsAreMessages ==
    \A s \in Sources : Commands(s) \subseteq ActMessages \ {"MOVE_DONE"}
BY DEF Commands, ActMessages

LEMMA InitType == Init => TypeOK
<1> SUFFICES ASSUME Init PROVE TypeOK
    OBVIOUS
<1>1. <<>> \in Seq(ActMessages) /\ <<>> \in Seq({"MOVE_FORWARD"}) /\ <<>> \in Seq(Events)
    BY EmptySeq
<1>2. Len(<<>>) = 0
    BY EmptySeq
<1>3. /\ Len(actQueue) <= ActQueueLen /\ Len(svcQueue) <= SvcQueueLen
      /\ Len(evQueue) <= EvQueueLen /\ x \in 0..XMax
    BY <1>2, NavigationAssumption DEF Init
<1>4. pending \in [Sources -> ActMessages \cup {None}]
    BY DEF Init
<1> QED
    BY <1>1, <1>3, <1>4 DEF Init, TypeOK

LEMMA NextType == TypeOK /\ [Next]_vars => TypeOK'
<1> SUFFICES ASSUME TypeOK, [Next]_vars PROVE TypeOK'
    OBVIOUS
<1> USE NavigationAssumption
<1>1. ASSUME NEW s \in Sources, BeginPost(s) PROVE TypeOK'
    BY <1>1, CommandsAreMessages DEF TypeOK, BeginPost, actVars, svcVars, loopVars
<1>2. ASSUME NEW s \in Sources, FinishPost(s) PROVE TypeOK'
  <2>1. pending[s] \in ActMessages
      BY <1>2 DEF TypeOK, FinishPost
  <2>2. actQueue' \in Seq(ActMessages) /\ Len(actQueue') = Len(actQueue) + 1
      BY <1>2, <2>1, AppendProperties DEF TypeOK, FinishPost
  <2>3. Len(actQueue) \in Nat
      BY LenProperties DEF TypeOK
  <2>4. pending' \in [Sources -> ActMessages \cup {None}]
      BY <1>2 DEF TypeOK, FinishPost
  <2> QED
      BY <1>2, <2>2, <2>3, <2>4 DEF TypeOK, FinishPost, actVars, svcVars, loopVars
<1>3. CASE OnStart
    BY <1>3 DEF TypeOK, OnStart, svcVars
<1>4. CASE Receive
  <2>1. actQueue' \in Seq(ActMessages) /\ Len(actQueue') = Len(actQueue) - 1
      BY <1>4, HeadTailProperties DEF TypeOK, Receive
  <2>2. Len(actQueue) \in Nat
      BY LenProperties DEF TypeOK
  <2>3. /\ state' \in {"Idle", "Working", "Manual"}
        /\ ticking' \in BOOLEAN
        /\ actPc' \in {"check", "post"}
      BY <1>4 DEF TypeOK, Receive, HandleMessage, HandleMoveForward, HandleMoveDone,
                  HandleStartManualNav, HandleHaltManualNav
  <2> QED
      BY <1>4, <2>1, <2>2, <2>3 DEF TypeOK, Receive, svcVars, loopVars
<1>5. CASE PostMove
  <2>1. svcQueue' \in Seq({"MOVE_FORWARD"}) /\ Len(svcQueue') = Len(svcQueue) + 1
      BY <1>5, AppendProperties DEF TypeOK, PostMove
  <2>2. Len(svcQueue) \in Nat
      BY LenProperties DEF TypeOK
  <2> QED
      BY <1>5, <2>1, <2>2 DEF TypeOK, PostMove, svcVars, loopVars
<1>6. CASE TickTimeout
    BY <1>6 DEF TypeOK, TickTimeout, svcVars, loopVars
<1>7. CASE OnTick \/ NoTick
    BY <1>7 DEF TypeOK, OnTick, NoTick, svcVars, loopVars
<1>8. CASE ServiceReceive
  <2>1. svcQueue' \in Seq({"MOVE_FORWARD"}) /\ Len(svcQueue') = Len(svcQueue) - 1
      BY <1>8, HeadTailProperties DEF TypeOK, ServiceReceive
  <2>2. Len(svcQueue) \in Nat
      BY LenProperties DEF TypeOK
  <2>3. x' \in 0..XMax
      BY <1>8 DEF TypeOK, ServiceReceive, OneUnit
  <2> QED
      BY <1>8, <2>1, <2>2, <2>3 DEF TypeOK, ServiceReceive, actVars, loopVars
<1>9. CASE Publish \/ WifiEvent
  <2>1. PICK e \in Events : evQueue' = Append(evQueue, e)
      BY <1>9 DEF Publish, WifiEvent, Events
  <2>2. evQueue' \in Seq(Events) /\ Len(evQueue') = Len(evQueue) + 1
      BY <2>1, AppendProperties DEF TypeOK
  <2>3. Len(evQueue) \in Nat
      BY LenProperties DEF TypeOK
  <2> QED
      BY <1>9, <2>2, <2>3 DEF TypeOK, Publish, WifiEvent, actVars, svcVars, loopVars
<1>10. CASE Dispatch
  <2>1. evQueue' \in Seq(Events) /\ Len(evQueue') = Len(evQueue) - 1
      BY <1>10, HeadTailProperties DEF TypeOK, Dispatch
  <2>2. Len(evQueue) \in Nat
      BY LenProperties DEF TypeOK
  <2> QED
      BY <1>10, <2>1, <2>2 DEF TypeOK, Dispatch, actVars, svcVars
<1>11. CASE Deliver
  <2>1. actQueue' \in Seq(ActMessages) /\ Len(actQueue') = Len(actQueue) + 1
      BY <1>11, AppendProperties DEF TypeOK, Deliver, ActMessages
  <2>2. Len(actQueue) \in Nat
      BY LenProperties DEF TypeOK
  <2> QED
      BY <1>11, <2>1, <2>2 DEF TypeOK, Deliver, actVars, svcVars
<1>12. CASE UNCHANGED vars
    BY <1>12 DEF TypeOK, vars, actVars, svcVars, loopVars
<1> QED
    BY <1>1, <1>2, <1>3, <1>4, <1>5, <1>6, <1>7, <1>8, <1>9, <1>10, <1>11, <1>12
    DEF Next, Activity

\* The variables keep their types and no queue ever holds more than its
\* capacity, whatever the capacities and however many tasks post.
THEOREM TypeCorrect == Spec => []TypeOK
<1> QED
    BY InitType, NextType, PTL DEF Spec

-----------------------------------------------------------------------------
(* The inductive invariant is one.                                         *)

LEMMA InitIInv == Init => IInv
<1> SUFFICES ASSUME Init PROVE IInv
    OBVIOUS
<1>1. \A m : ~Has(<<>>, m) /\ AtMostOnce(<<>>, m)
  <2>1. Len(<<>>) = 0 /\ 1..0 = {}
      BY EmptySeq
  <2> QED
      BY <2>1 DEF Has, AtMostOnce
<1>2. Len(svcQueue) <= 1
    BY EmptySeq DEF Init
<1>3. OnePlace /\ OnceInPlace /\ ~SomePlace
    BY <1>1, <1>2 DEF Init, OnePlace, OnceInPlace, SomePlace, Posting, Commanded,
                     Publishing, Published, Delivering, Completed
<1>4. \A s \in Sources : pending[s] # "MOVE_DONE"
    BY NavigationAssumption DEF Init, ActMessages
<1> QED
    BY <1>3, <1>4, InitType DEF Init, IInv, TickingIffManual

LEMMA NextIInv == IInv /\ [Next]_vars => IInv'
<1> SUFFICES ASSUME IInv, [Next]_vars PROVE IInv'
    OBVIOUS
<1>t. TypeOK /\ TypeOK'
    BY NextType DEF IInv
<1> USE DEF IInv, OnePlace, OnceInPlace, SomePlace, TickingIffManual, Posting,
            Commanded, Publishing, Published, Delivering, Completed
<1>1. ASSUME NEW s \in Sources, BeginPost(s) PROVE IInv'
  <2>1. \A r \in Sources : pending'[r] # "MOVE_DONE"
      BY <1>1, <1>t, CommandsAreMessages DEF BeginPost, TypeOK
  <2> QED
      BY <1>1, <1>t, <2>1 DEF BeginPost, actVars, svcVars, loopVars
<1>2. ASSUME NEW s \in Sources, FinishPost(s) PROVE IInv'
  <2>1. pending[s] \in ActMessages /\ pending[s] # "MOVE_DONE"
      BY <1>2, <1>t DEF TypeOK, FinishPost
  <2>2. Has(actQueue', "MOVE_DONE") <=> Has(actQueue, "MOVE_DONE")
      BY <1>2, <1>t, <2>1, HasAppend DEF TypeOK, FinishPost
  <2>3. AtMostOnce(actQueue', "MOVE_DONE")
      BY <1>2, <1>t, <2>1, OnceAppend DEF TypeOK, FinishPost
  <2>4. \A r \in Sources : pending'[r] # "MOVE_DONE"
      BY <1>2, <1>t, NavigationAssumption DEF FinishPost, TypeOK, ActMessages
  <2> QED
      BY <1>2, <1>t, <2>2, <2>3, <2>4 DEF FinishPost, actVars, svcVars, loopVars
<1>3. CASE OnStart
    BY <1>3, <1>t DEF OnStart, svcVars
<1>4. CASE Receive
  <2>1. Has(actQueue, "MOVE_DONE")
          <=> Head(actQueue) = "MOVE_DONE" \/ Has(actQueue', "MOVE_DONE")
      BY <1>4, <1>t, HasTail DEF TypeOK, Receive
  <2>2. /\ AtMostOnce(actQueue', "MOVE_DONE")
        /\ Head(actQueue) = "MOVE_DONE" => ~Has(actQueue', "MOVE_DONE")
      BY <1>4, <1>t, OnceTail DEF TypeOK, Receive
  <2>3. /\ actPc = "wait" /\ actPc' # "boot"
        /\ UNCHANGED <<svcQueue, svcPc, evQueue, loopPc, subscribed, pending>>
      BY <1>4 DEF Receive, HandleMessage, HandleMoveForward, HandleMoveDone,
                  HandleStartManualNav, HandleHaltManualNav, svcVars, loopVars
  <2>4. CASE Head(actQueue) = "MOVE_FORWARD" /\ HandleMoveForward
      BY <2>1, <2>2, <2>3, <2>4, <1>t DEF HandleMoveForward
  <2>5. CASE Head(actQueue) = "MOVE_DONE" /\ HandleMoveDone
      BY <2>1, <2>2, <2>3, <2>5, <1>t DEF HandleMoveDone
  <2>6. CASE Head(actQueue) = "START_MANUAL_NAV" /\ HandleStartManualNav
      BY <2>1, <2>2, <2>3, <2>6, <1>t DEF HandleStartManualNav
  <2>7. CASE Head(actQueue) = "HALT_MANUAL_NAV" /\ HandleHaltManualNav
      BY <2>1, <2>2, <2>3, <2>7, <1>t DEF HandleHaltManualNav
  <2> QED
      BY <1>4, <2>4, <2>5, <2>6, <2>7 DEF Receive, HandleMessage
<1>5. CASE PostMove
  <2>1. svcQueue = <<>>
      BY <1>5 DEF PostMove
  <2>2. svcQueue' # <<>> /\ Len(svcQueue') = 1
      BY <1>5, <1>t, <2>1, AppendProperties, EmptySeq DEF PostMove, TypeOK
  <2> QED
      BY <1>5, <1>t, <2>1, <2>2 DEF PostMove, svcVars, loopVars
<1>6. CASE TickTimeout \/ OnTick \/ NoTick
    BY <1>6, <1>t DEF TickTimeout, OnTick, NoTick, svcVars, loopVars
<1>7. CASE ServiceReceive
  <2>1. Len(svcQueue') = Len(svcQueue) - 1 /\ Len(svcQueue) \in Nat
      BY <1>7, <1>t, HeadTailProperties, LenProperties DEF ServiceReceive, TypeOK
  <2>2. svcQueue' = <<>>
      BY <1>t, <2>1, EmptySeq DEF TypeOK
  <2> QED
      BY <1>7, <1>t, <2>1, <2>2 DEF ServiceReceive, actVars, loopVars
<1>8. CASE Publish
  <2>1. Has(evQueue', MoveDone) /\ AtMostOnce(evQueue', MoveDone)
      BY <1>8, <1>t, HasAppend, OnceAppend DEF Publish, TypeOK, Events, MoveDone
  <2> QED
      BY <1>8, <1>t, <2>1 DEF Publish, actVars, loopVars
<1>9. CASE WifiEvent
  <2>1. /\ Has(evQueue', MoveDone) <=> Has(evQueue, MoveDone)
        /\ AtMostOnce(evQueue', MoveDone)
      BY <1>9, <1>t, HasAppend, OnceAppend DEF WifiEvent, TypeOK, Events, MoveDone
  <2> QED
      BY <1>9, <1>t, <2>1 DEF WifiEvent, actVars, svcVars, loopVars
<1>10. CASE Dispatch
  <2>1. Has(evQueue, MoveDone) <=> Head(evQueue) = MoveDone \/ Has(evQueue', MoveDone)
      BY <1>10, <1>t, HasTail DEF Dispatch, TypeOK
  <2>2. /\ AtMostOnce(evQueue', MoveDone)
        /\ Head(evQueue) = MoveDone => ~Has(evQueue', MoveDone)
      BY <1>10, <1>t, OnceTail DEF Dispatch, TypeOK
  <2> QED
      BY <1>10, <1>t, <2>1, <2>2 DEF Dispatch, actVars, svcVars, MoveDone
<1>11. CASE Deliver
  <2>1. Has(actQueue', "MOVE_DONE") /\ AtMostOnce(actQueue', "MOVE_DONE")
      BY <1>11, <1>t, HasAppend, OnceAppend DEF Deliver, TypeOK, ActMessages
  <2> QED
      BY <1>11, <1>t, <2>1 DEF Deliver, actVars, svcVars
<1>12. CASE UNCHANGED vars
    BY <1>12, <1>t DEF vars, actVars, svcVars, loopVars
<1> QED
    BY <1>1, <1>2, <1>3, <1>4, <1>5, <1>6, <1>7, <1>8, <1>9, <1>10, <1>11, <1>12
    DEF Next, Activity

LEMMA Inductive == Spec => []IInv
<1> QED
    BY InitIInv, NextIInv, PTL DEF Spec

-----------------------------------------------------------------------------
(* What follows from it.                                                   *)

\* The trace set of the model is the six places.
LEMMA InFlightPlaces ==
    ASSUME IInv
    PROVE  /\ \A t \in InFlight :
                  \/ t = <<"post", 0>> /\ Posting
                  \/ t = <<"publish", 0>> /\ Publishing
                  \/ t = <<"deliver", 0>> /\ Delivering
                  \/ t = <<"service", 1>> /\ Commanded
                  \/ \E i \in 1..Len(evQueue) : t = <<"event", i>> /\ evQueue[i] = MoveDone
                  \/ \E i \in 1..Len(actQueue) :
                         t = <<"activity", i>> /\ actQueue[i] = "MOVE_DONE"
           /\ SomePlace => InFlight # {}
<1>1. /\ DOMAIN evQueue = 1..Len(evQueue) /\ DOMAIN actQueue = 1..Len(actQueue)
      /\ DOMAIN svcQueue = 1..Len(svcQueue)
    BY LenProperties DEF IInv, TypeOK
<1>2. /\ svcQueue = <<>> => Len(svcQueue) = 0
      /\ svcQueue # <<>> => Len(svcQueue) = 1
  <2>1. Len(<<>>) = 0
      BY EmptySeq
  <2>2. svcQueue # <<>> => Len(svcQueue) \in Nat \ {0}
      BY EmptySeq DEF IInv, TypeOK
  <2>3. Len(svcQueue) <= 1
      BY DEF IInv, OnceInPlace
  <2>4. svcQueue # <<>> => Len(svcQueue) = 1
      BY <2>2, <2>3
  <2>5. svcQueue = <<>> => Len(svcQueue) = 0
      BY <2>1
  <2> QED
      BY <2>4, <2>5
<1>3. /\ ~Commanded => DOMAIN svcQueue = {}
      /\ Commanded => DOMAIN svcQueue = {1}
    BY <1>1, <1>2 DEF Commanded
<1>4. ASSUME NEW t \in InFlight
      PROVE  \/ t = <<"post", 0>> /\ Posting
             \/ t = <<"publish", 0>> /\ Publishing
             \/ t = <<"deliver", 0>> /\ Delivering
             \/ t = <<"service", 1>> /\ Commanded
             \/ \E i \in 1..Len(evQueue) : t = <<"event", i>> /\ evQueue[i] = MoveDone
             \/ \E i \in 1..Len(actQueue) :
                    t = <<"activity", i>> /\ actQueue[i] = "MOVE_DONE"
  <2>1. CASE t \in {u \in {<<"post", 0>>, <<"publish", 0>>, <<"deliver", 0>>} :
                        u[1] \in {actPc, svcPc, loopPc}}
      BY <2>1 DEF IInv, TypeOK, Posting, Publishing, Delivering
  <2>2. CASE t \in {"service"} \X DOMAIN svcQueue
      BY <1>3, <2>2
  <2>3. CASE t \in {u \in {"event"} \X DOMAIN evQueue : evQueue[u[2]] = MoveDone}
      BY <1>1, <2>3
  <2>4. CASE t \in {u \in {"activity"} \X DOMAIN actQueue : actQueue[u[2]] = "MOVE_DONE"}
      BY <1>1, <2>4
  <2> QED
      BY <2>1, <2>2, <2>3, <2>4 DEF InFlight, MoveDone
<1>5. ASSUME SomePlace PROVE InFlight # {}
  <2>1. Posting => <<"post", 0>> \in InFlight
      BY DEF Posting, InFlight
  <2>2. Publishing => <<"publish", 0>> \in InFlight
      BY DEF Publishing, InFlight
  <2>3. Delivering => <<"deliver", 0>> \in InFlight
      BY DEF Delivering, InFlight
  <2>4. Commanded => <<"service", 1>> \in InFlight
      BY <1>3 DEF InFlight
  <2>5. \A i \in 1..Len(evQueue) : evQueue[i] = MoveDone => <<"event", i>> \in InFlight
      BY <1>1 DEF InFlight, MoveDone
  <2>6. \A i \in 1..Len(actQueue) :
            actQueue[i] = "MOVE_DONE" => <<"activity", i>> \in InFlight
      BY <1>1 DEF InFlight
  <2> QED
      BY <1>5, <2>1, <2>2, <2>3, <2>4, <2>5, <2>6 DEF SomePlace, Published, Completed, Has
<1> QED
    BY <1>4, <1>5

\* At most one command or completion of a move is under way, none outside
\* Working, and one while Working if the activity is subscribed.
THEOREM SingleMove == Spec => []OneMoveInFlight
<1>1. ASSUME IInv PROVE OneMoveInFlight
  <2>1. ASSUME NEW t \in InFlight, NEW u \in InFlight PROVE t = u
      BY <1>1, <2>1, InFlightPlaces
      DEF IInv, OnePlace, OnceInPlace, AtMostOnce, Published, Completed, Has
  <2>2. state # "Working" => InFlight = {}
      BY <1>1, InFlightPlaces DEF IInv, SomePlace, Published, Completed, Has
  <2> QED
      BY <1>1, <2>1, <2>2, InFlightPlaces DEF IInv, OneMoveInFlight
<1> QED
    BY <1>1, Inductive, PTL

\* The periodic tick is on exactly in Manual mode.
THEOREM TickDiscipline == Spec => []TickingIffManual
<1>1. IInv => TickingIffManual
    BY DEF IInv
<1> QED
    BY <1>1, Inductive, PTL

\* The post inside handle_move_forward() always finds room, whatever the
\* capacity of the service's queue.
THEOREM MovePostHasRoom == Spec => []MoveNeverBlocksActivity
<1>1. ASSUME IInv PROVE MoveNeverBlocksActivity
    BY <1>1, EmptySeq, NavigationAssumption
    DEF IInv, OnePlace, Posting, Commanded, MoveNeverBlocksActivity
<1> QED
    BY <1>1, Inductive, PTL

\* Only a HALT_MANUAL_NAV takes the activity out of Manual.
THEOREM ManualExit == Spec => ManualEndsByHalt
<1>1. IInv /\ [Next]_vars
        => [state = "Manual" /\ state' # "Manual" => Head(actQueue) = "HALT_MANUAL_NAV"]_vars
  <2> SUFFICES ASSUME IInv, Next, state = "Manual", state' # "Manual"
               PROVE  Head(actQueue) = "HALT_MANUAL_NAV"
      OBVIOUS
  <2>1. ~Completed
      BY DEF IInv, SomePlace
  <2>2. Receive
      BY DEF Next, Activity, BeginPost, FinishPost, OnStart, PostMove, TickTimeout, OnTick,
             NoTick, ServiceReceive, Publish, WifiEvent, Dispatch, Deliver, actVars
  <2>3. Head(actQueue) # "MOVE_DONE"
      BY <2>1, <2>2, HasTail DEF Receive, IInv, TypeOK, Completed
  <2> QED
      BY <2>2, <2>3 DEF Receive, HandleMessage, HandleMoveForward, HandleStartManualNav
<1> QED
    BY <1>1, Inductive, PTL DEF Spec, ManualEndsByHalt

-----------------------------------------------------------------------------
(* Navigation takes only steps of the move cycle.                          *)

\* An accepted move has not been executed exactly while it is a command.
LEMMA PhaseOf ==
    ASSUME IInv
    PROVE  /\ Posting \/ Commanded => Phase = "commanded" /\ state = "Working"
           /\ ~Posting /\ ~Commanded /\ state = "Working" => Phase = "moved"
           /\ state # "Working" => Phase = "none"
BY DEF IInv, SomePlace, Phase, Posting, Commanded

LEMMA CycleStep ==
    ASSUME IInv, IInv', [Next]_vars
    PROVE  [Cycle!Next]_(Cycle!vars)
<1>0. TypeOK /\ TypeOK'
    BY DEF IInv
<1>1. ASSUME NEW s \in Sources, BeginPost(s) \/ FinishPost(s) PROVE UNCHANGED Cycle!vars
    BY <1>1 DEF BeginPost, FinishPost, actVars, svcVars, Cycle!vars, Phase
<1>2. CASE OnStart \/ TickTimeout \/ OnTick \/ NoTick
    BY <1>2 DEF OnStart, TickTimeout, OnTick, NoTick, svcVars, Cycle!vars, Phase
<1>3. CASE Receive
  <2>1. /\ actPc = "wait" /\ UNCHANGED <<svcQueue, x>>
      BY <1>3 DEF Receive, svcVars
  <2>2. CASE Head(actQueue) = "MOVE_FORWARD" /\ HandleMoveForward
    <3>1. CASE state = "Idle"
      <4>1. Phase' = "commanded"
          BY <2>2, <3>1 DEF HandleMoveForward, Phase
      <4> QED
          BY <2>1, <2>2, <3>1, <4>1 DEF HandleMoveForward, Cycle!Next, Cycle!AcceptMove
    <3>2. CASE state # "Idle"
        BY <2>1, <2>2, <3>2 DEF HandleMoveForward, Cycle!vars, Phase
    <3> QED
        BY <3>1, <3>2
  <2>3. CASE Head(actQueue) = "MOVE_DONE" /\ HandleMoveDone
    <3>1. Completed
        BY <1>3, <2>3, <1>0, HasTail DEF Receive, TypeOK, Completed
    <3>2. Phase = "moved"
        BY <3>1, PhaseOf DEF IInv, OnePlace, SomePlace
    <3>3. Phase' = "none"
        BY <2>1, <2>3, <3>1 DEF HandleMoveDone, Phase, IInv, OnePlace, Commanded
    <3> QED
        BY <2>1, <2>3, <3>2, <3>3 DEF HandleMoveDone, Cycle!Next, Cycle!CompleteMove
  <2>4. CASE Head(actQueue) = "START_MANUAL_NAV" /\ HandleStartManualNav
      BY <2>1, <2>4
      DEF HandleStartManualNav, IInv, SomePlace, Commanded, Phase, Cycle!Next,
          Cycle!EnterManual, Cycle!vars
  <2>5. CASE Head(actQueue) = "HALT_MANUAL_NAV" /\ HandleHaltManualNav
      BY <2>1, <2>5
      DEF HandleHaltManualNav, IInv, SomePlace, Commanded, Phase, Cycle!Next,
          Cycle!LeaveManual, Cycle!vars
  <2> QED
      BY <1>3, <2>2, <2>3, <2>4, <2>5 DEF Receive, HandleMessage
<1>4. CASE PostMove
  <2>1. svcQueue' # <<>>
      BY <1>4, <1>0, AppendProperties DEF PostMove, TypeOK
  <2> QED
      BY <1>4, <2>1 DEF PostMove, svcVars, Phase, Cycle!vars
<1>5. CASE ServiceReceive
  <2>1. Commanded /\ ~Posting /\ Publishing' /\ state' = state /\ actPc' = actPc
      BY <1>5 DEF ServiceReceive, actVars, IInv, OnePlace, Commanded, Publishing
  <2>2. ~Posting' /\ ~Commanded'
      BY <2>1 DEF IInv, OnePlace
  <2>3. Phase = "commanded" /\ Phase' = "moved"
      BY <2>1, <2>2, PhaseOf DEF Phase, Posting, Commanded
  <2>4. x' = Cycle!OneUnit(x)
      BY <1>5 DEF ServiceReceive, OneUnit, Cycle!OneUnit
  <2> QED
      BY <2>1, <2>3, <2>4 DEF Cycle!Next, Cycle!ExecuteMove
<1>6. CASE Publish \/ WifiEvent \/ Dispatch \/ Deliver
    BY <1>6
    DEF Publish, WifiEvent, Dispatch, Deliver, actVars, svcVars, Phase, Cycle!vars
<1>7. CASE UNCHANGED vars
    BY <1>7 DEF vars, actVars, svcVars, Phase, Cycle!vars
<1> QED
    BY <1>1, <1>2, <1>3, <1>4, <1>5, <1>6, <1>7 DEF Next, Activity

\* The safety half of the implementation: Navigation starts as the move cycle
\* does, and each of its steps is a step of the cycle or leaves it unchanged,
\* so no move is executed twice or skipped and none ends before it is executed.
THEOREM MoveCycleSimulation == Spec => SimulatesMoveCycle
<1>1. Init => Cycle!Init
    BY DEF Init, Cycle!Init, Phase
<1>2. IInv /\ IInv' /\ [Next]_vars => [Cycle!Next]_(Cycle!vars)
    BY CycleStep
<1> QED
    BY <1>1, <1>2, Inductive, PTL DEF Spec, SimulatesMoveCycle

=============================================================================
