----------------------------- MODULE BootProofs -----------------------------
(***************************************************************************)
(* The Wi-Fi event handler and the order of boot, for every number of      *)
(* retries.                                                                *)
(***************************************************************************)
EXTENDS Boot, SequenceTheorems, TLAPS

Events == {"STA_START", "STA_DISCONNECTED", "GOT_IP"}

\* The queues there are.
None    == <<>>
Started == <<"STA_START">>
Lost    == <<"STA_DISCONNECTED">>
Got     == <<"GOT_IP">>
GotLost == <<"GOT_IP", "STA_DISCONNECTED">>

\* Which of them goes with each state of the station.
Pending ==
    /\ station \in {"off", "trying", "refused", "linked"} => loop = None
    /\ station = "online" => loop \in {None, Got}
    /\ station = "idle" => loop \in {None, Started, Lost, GotLost}

\* The counter follows the attempts, except for the first one ever and while the
\* handler has still to hear of an address.
Counted ==
    IF loop \in {Got, GotLost}
    THEN attempts = 0
    ELSE IF loop = Started \/ station = "off"
    THEN attempts = 0 /\ s_retry_num = 0
    ELSE s_retry_num <= attempts /\ attempts <= s_retry_num + 1

\* The handler rests when the retries are used up.
UsedUp ==
    (station = "idle" /\ loop = None) =>
        s_retry_num >= MAXIMUM_RETRY /\ "WIFI_FAIL_BIT" \in bits

Types ==
    /\ station \in {"off", "idle", "trying", "refused", "linked", "online"}
    /\ attempts \in Nat
    /\ s_retry_num \in 0..MAXIMUM_RETRY
    /\ bits \subseteq {"WIFI_CONNECTED_BIT", "WIFI_FAIL_BIT"}
    /\ pc \in {"wifi", "wait", "failed", "boot", "running"}
    /\ pc = "wifi" => station = "off"

IInv == Types /\ Pending /\ Counted /\ UsedUp

-----------------------------------------------------------------------------
(* The queues: told apart, and what posting and receiving make of them.    *)

LEMMA Distinct ==
    /\ None # Started /\ None # Lost /\ None # Got /\ None # GotLost
    /\ Started # Lost /\ Started # Got /\ Started # GotLost
    /\ Lost # Got /\ Lost # GotLost /\ Got # GotLost
<1>1. /\ Len(None) = 0 /\ Len(Started) = 1 /\ Len(Lost) = 1 /\ Len(Got) = 1 /\ Len(GotLost) = 2
    BY DEF None, Started, Lost, Got, GotLost
<1>2. Started[1] = "STA_START" /\ Lost[1] = "STA_DISCONNECTED" /\ Got[1] = "GOT_IP"
    BY DEF Started, Lost, Got
<1> QED
    BY <1>1, <1>2

LEMMA Short ==
    /\ None \in Seq(Events) /\ Started \in Seq(Events) /\ Lost \in Seq(Events)
    /\ Got \in Seq(Events) /\ GotLost \in Seq(Events)
    /\ Len(None) <= 2 /\ Len(Started) <= 2 /\ Len(Lost) <= 2 /\ Len(Got) <= 2 /\ Len(GotLost) <= 2
BY DEF None, Started, Lost, Got, GotLost, Events

LEMMA AppendFirst ==
    ASSUME NEW d \in Events
    PROVE  Append(<<>>, d) = <<d>>
<1>1. <<>> \in Seq(Events) /\ <<d>> \in Seq(Events) /\ Len(<<d>>) = 1 /\ <<d>>[1] = d
    OBVIOUS
<1>2. /\ Append(<<>>, d) \in Seq(Events) /\ Len(Append(<<>>, d)) = 1
      /\ Append(<<>>, d)[1] = d
    BY <1>1, AppendProperties, EmptySeq
<1> QED
    BY <1>1, <1>2, SeqEqual

LEMMA AppendSecond ==
    ASSUME NEW d \in Events, NEW e \in Events
    PROVE  Append(<<d>>, e) = <<d, e>>
<1>1. <<d, e>> \in Seq(Events) /\ Len(<<d, e>>) = 2 /\ <<d, e>>[1] = d /\ <<d, e>>[2] = e
    OBVIOUS
<1>2. <<d>> \in Seq(Events) /\ Len(<<d>>) = 1 /\ <<d>>[1] = d
    OBVIOUS
<1>3. /\ Append(<<d>>, e) \in Seq(Events) /\ Len(Append(<<d>>, e)) = 2
      /\ Append(<<d>>, e)[1] = d /\ Append(<<d>>, e)[2] = e
    BY <1>2, AppendProperties
<1>4. \A i \in 1..2 : Append(<<d>>, e)[i] = <<d, e>>[i]
  <2>1. \A i \in 1..2 : i = 1 \/ i = 2
      OBVIOUS
  <2> QED
      BY <1>1, <1>3, <2>1
<1> DEFINE s == Append(<<d>>, e)
<1> DEFINE t == <<d, e>>
<1>5. s \in Seq(Events) /\ t \in Seq(Events) /\ Len(s) = 2 /\ Len(t) = 2
      /\ \A i \in 1..2 : s[i] = t[i]
    BY <1>1, <1>3, <1>4
<1>6. s = t
  <2> HIDE DEF s, t
  <2> QED
      BY <1>5, SeqEqual
<1> QED
    BY <1>6

LEMMA Posted ==
    /\ Append(None, "STA_START") = Started
    /\ Append(None, "STA_DISCONNECTED") = Lost
    /\ Append(None, "GOT_IP") = Got
    /\ Append(Got, "STA_DISCONNECTED") = GotLost
<1>1. {"STA_START", "STA_DISCONNECTED", "GOT_IP"} \subseteq Events
    BY DEF Events
<1> QED
    BY <1>1, AppendFirst, AppendSecond DEF None, Started, Lost, Got, GotLost

LEMMA Received ==
    /\ Head(Started) = "STA_START" /\ Tail(Started) = None
    /\ Head(Lost) = "STA_DISCONNECTED" /\ Tail(Lost) = None
    /\ Head(Got) = "GOT_IP" /\ Tail(Got) = None
    /\ Head(GotLost) = "GOT_IP" /\ Tail(GotLost) = Lost
BY DEF None, Started, Lost, Got, GotLost

-----------------------------------------------------------------------------
(* The inductive invariant is one.                                         *)

LEMMA InitIInv == Init => IInv
BY Distinct, BootAssumption DEF Init, IInv, Types, Pending, Counted, UsedUp, None

LEMMA NextIInv == IInv /\ [Next]_vars => IInv'
<1> SUFFICES ASSUME IInv, [Next]_vars PROVE IInv'
    OBVIOUS
<1> USE BootAssumption, Distinct DEF IInv, Types
<1>n. loop # <<>> => loop # None
    BY DEF None
<1>1. CASE Associate
    BY <1>1 DEF Associate, Pending, Counted, UsedUp
<1>2. CASE GotIp
  <2>1. loop = None /\ loop' = Got
      BY <1>2, Posted DEF GotIp, Pending
  <2> QED
      BY <1>2, <2>1 DEF GotIp, Pending, Counted, UsedUp
<1>3. CASE Lose
  <2>1. \/ loop = None /\ loop' = Lost /\ station # "off"
        \/ loop = Got /\ loop' = GotLost
      BY <1>3, Posted DEF Lose, Pending
  <2> QED
      BY <1>3, <2>1 DEF Lose, Pending, Counted, UsedUp
<1>4. CASE OnStart
  <2>1. loop = Started /\ loop' = None
      BY <1>4, <1>n, Received DEF OnStart, Event, Pending
  <2> QED
      BY <1>4, <2>1 DEF OnStart, Connect, Pending, Counted, UsedUp
<1>5. CASE OnDisconnected
  <2>1. loop = Lost /\ loop' = None /\ station = "idle"
      BY <1>5, <1>n, Received DEF OnDisconnected, Event, Pending
  <2>2. CASE /\ s_retry_num < MAXIMUM_RETRY /\ s_retry_num' = s_retry_num + 1
             /\ Connect /\ UNCHANGED bits
      BY <1>5, <2>1, <2>2 DEF OnDisconnected, Connect, Pending, Counted, UsedUp
  <2>3. CASE /\ s_retry_num >= MAXIMUM_RETRY /\ bits' = bits \cup {"WIFI_FAIL_BIT"}
             /\ UNCHANGED <<station, attempts, s_retry_num>>
      BY <1>5, <2>1, <2>3 DEF OnDisconnected, Pending, Counted, UsedUp
  <2> QED
      BY <1>5, <2>2, <2>3 DEF OnDisconnected
<1>6. CASE OnGotIp
  <2>1. \/ loop = Got /\ loop' = None /\ station = "online"
        \/ loop = GotLost /\ loop' = Lost /\ station = "idle"
      BY <1>6, <1>n, Received DEF OnGotIp, Event, Pending
  <2> QED
      BY <1>6, <2>1 DEF OnGotIp, Pending, Counted, UsedUp
<1>7. CASE WifiInit
  <2>1. /\ station = "off" /\ loop = None
        /\ \/ loop' = None /\ station' = "off"
           \/ loop' = Started /\ station' = "idle"
      BY <1>7, Posted DEF WifiInit, Pending
  <2> QED
      BY <1>7, <2>1 DEF WifiInit, Pending, Counted, UsedUp
<1>8. CASE WaitBits
    BY <1>8 DEF WaitBits, wifiVars, Pending, Counted, UsedUp
<1>9. CASE StartNext
    BY <1>9 DEF StartNext, wifiVars, Pending, Counted, UsedUp
<1>10. CASE UNCHANGED vars
    BY <1>10 DEF vars, wifiVars, Pending, Counted, UsedUp
<1> QED
    BY <1>1, <1>2, <1>3, <1>4, <1>5, <1>6, <1>7, <1>8, <1>9, <1>10 DEF Next, Handler

LEMMA Inductive == Spec => []IInv
<1> QED
    BY InitIInv, NextIInv, PTL DEF Spec

\* The counters stay within their bounds and never more than two events wait.
THEOREM TypeCorrect == Spec => []TypeOK
<1>1. IInv => TypeOK
  <2> SUFFICES ASSUME IInv PROVE TypeOK
      OBVIOUS
  <2>1. loop \in Seq(Events) /\ Len(loop) <= 2
      BY Short DEF IInv, Types, Pending
  <2>2. attempts <= MAXIMUM_RETRY + 1
      BY BootAssumption DEF IInv, Types, Counted
  <2> QED
      BY <2>1, <2>2, BootAssumption DEF IInv, Types, TypeOK, Events
<1> QED
    BY <1>1, Inductive, PTL

\* The station rests, unless a call of esp_wifi_connect() was refused, only after
\* MAXIMUM_RETRY attempts in a row, announced.
THEOREM NoEarlySurrender == Spec => []GivesUpLate
<1>1. IInv => GivesUpLate
    BY Distinct, BootAssumption DEF IInv, Types, Counted, UsedUp, GivesUpLate, None
<1> QED
    BY <1>1, Inductive, PTL

-----------------------------------------------------------------------------
(* The order of boot.                                                      *)

\* What a part uses is the event loop or comes before it in app_main().
LEMMA UsesEarlier ==
    ASSUME NEW i \in 1..Len(BootOrder), NEW p \in Uses[BootOrder[i]]
    PROVE  p = "event_loop" \/ \E j \in 1..(i - 1) : p = BootOrder[j]
<1>1. /\ Len(BootOrder) = 6
      /\ BootOrder[1] = "nav_service" /\ BootOrder[2] = "pilot_input"
      /\ BootOrder[3] = "nav_activity" /\ BootOrder[4] = "routes"
      /\ BootOrder[5] = "network_gateway" /\ BootOrder[6] = "system_monitor"
    BY DEF BootOrder
<1>2. /\ Uses["nav_service"] = {"event_loop"} /\ Uses["pilot_input"] = {}
      /\ Uses["nav_activity"] = {"event_loop", "nav_service"}
      /\ Uses["routes"] = {"pilot_input", "nav_activity"}
      /\ Uses["network_gateway"] = {"routes", "pilot_input", "nav_activity"}
      /\ Uses["system_monitor"] = {}
    BY DEF Uses
<1>3. i \in {1, 2, 3, 4, 5, 6}
    BY <1>1
<1>4. CASE i \in {1, 2, 6}
    BY <1>1, <1>2, <1>4
<1>5. CASE i = 3
    BY <1>1, <1>2, <1>5
<1>6. CASE i = 4
    BY <1>1, <1>2, <1>6
<1>7. CASE i = 5
    BY <1>1, <1>2, <1>7
<1> QED
    BY <1>3, <1>4, <1>5, <1>6, <1>7

\* Until the event loop is there nothing is, and nothing starts without it.
BootInv ==
    /\ StartedBeforeUse
    /\ pc = "wifi" => up = {}
    /\ pc \in {"wait", "boot", "running"} => "event_loop" \in up

LEMMA BootInductive == BootInv /\ [Next]_vars => BootInv'
<1> SUFFICES ASSUME BootInv, [Next]_vars PROVE BootInv'
    OBVIOUS
<1> USE DEF BootInv, StartedBeforeUse
<1>1. CASE UNCHANGED <<pc, up>>
    BY <1>1
<1>2. CASE WifiInit
  <2>1. Uses["event_loop"] = {}
      BY DEF Uses
  <2> QED
      BY <1>2, <2>1 DEF WifiInit
<1>3. CASE WaitBits
    BY <1>3 DEF WaitBits
<1>4. CASE StartNext
  <2>1. PICK i \in 1..Len(BootOrder) :
            /\ \A j \in 1..(i - 1) : BootOrder[j] \in up
            /\ up' = up \cup {BootOrder[i]}
      BY <1>4 DEF StartNext
  <2>2. "event_loop" \in up /\ pc' \in {"boot", "running"}
      BY <1>4 DEF StartNext
  <2>3. Uses[BootOrder[i]] \subseteq up
      BY <2>1, <2>2, UsesEarlier
  <2> QED
      BY <2>1, <2>2, <2>3
<1>5. CASE Associate \/ GotIp \/ Lose \/ Handler
  <2>1. UNCHANGED <<pc, up>>
      BY <1>5 DEF Associate, GotIp, Lose, Handler, OnStart, OnDisconnected, OnGotIp
  <2> QED
      BY <1>1, <2>1
<1>6. CASE UNCHANGED vars
    BY <1>1, <1>6 DEF vars
<1> QED
    BY <1>2, <1>3, <1>4, <1>5, <1>6 DEF Next

\* app_main.cpp: whatever Wi-Fi does meanwhile, no part runs before those it posts to
\* have been started, and no route is read while routes are still added.
THEOREM BootInOrder == Spec => []StartedBeforeUse
<1>1. Init => BootInv
    BY DEF Init, BootInv, StartedBeforeUse
<1>2. BootInv => StartedBeforeUse
    BY DEF BootInv
<1> QED
    BY <1>1, <1>2, BootInductive, PTL DEF Spec

=============================================================================
