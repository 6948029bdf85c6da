--------------------------- MODULE RuntimeProofs ---------------------------
(***************************************************************************)
(* Registrations and searches for any keys, any values and any number of   *)
(* calls; then start() and stop() of gateway and monitor, for any number   *)
(* of turns.                                                               *)
(***************************************************************************)
EXTENDS Runtime, SequenceTheorems, TLAPS

Entries == [key : Keys, value : Values]

\* No key twice: the search from the front finds the only entry there is.
Unique == \A i, j \in 1..Len(entries) : entries[i].key = entries[j].key => i = j

IInv == TypeOK /\ Unique

-----------------------------------------------------------------------------
(* The search.                                                             *)

\* A key that is in the vector once is found where it is.
LEMMA LookupAt ==
    ASSUME NEW s \in Seq(Entries), NEW k, NEW i \in 1..Len(s), s[i].key = k,
           \A j \in 1..Len(s) : s[j].key = k => j = i
    PROVE  Lookup(s, k) = s[i].value /\ Lookup(s, k) \in Values
<1> DEFINE P(n) == s[n].key = k /\ \A j \in 1..(n - 1) : s[j].key # k
<1>0. Len(s) \in Nat /\ s[i] \in Entries
    BY LenProperties, ElementOfSeq
<1>1. P(i)
  <2>1. ASSUME NEW j \in 1..(i - 1) PROVE s[j].key # k
    <3>1. j \in 1..Len(s) /\ j # i
        BY <1>0, <2>1
    <3> QED
        BY <3>1
  <2> QED
      BY <2>1
<1>2. \A n \in 1..Len(s) : P(n) => n = i
    OBVIOUS
<1>3. (CHOOSE n \in 1..Len(s) : P(n)) = i
  <2> HIDE DEF P
  <2> QED
      BY <1>1, <1>2
<1>4. HasKey(s, k)
    BY DEF HasKey
<1>5. Lookup(s, k) = s[CHOOSE n \in 1..Len(s) : P(n)].value
    BY <1>4 DEF Lookup
<1> QED
    BY <1>0, <1>3, <1>5 DEF Entries

\* One that is not there gives the null pointer.
LEMMA LookupNone ==
    ASSUME NEW s, NEW k, ~HasKey(s, k)
    PROVE  Lookup(s, k) = Null
BY DEF Lookup

-----------------------------------------------------------------------------
(* The inductive invariant.                                                *)

LEMMA InitIInv == Init => IInv
<1> SUFFICES ASSUME Init PROVE IInv
    OBVIOUS
<1>1. Len(entries) = 0 /\ entries \in Seq(Entries)
    BY EmptySeq DEF Init
<1>2. 1..Len(entries) = {}
    BY <1>1
<1> QED
    BY <1>1, <1>2 DEF Init, IInv, TypeOK, Unique, Entries

\* What a registration does that is accepted.
LEMMA Appended ==
    ASSUME TypeOK, NEW k \in Keys, NEW v \in Values,
           entries' = Append(entries, [key |-> k, value |-> v])
    PROVE  /\ entries' \in Seq(Entries)
           /\ Len(entries) \in Nat /\ Len(entries') = Len(entries) + 1
           /\ \A i \in 1..Len(entries) : entries'[i] = entries[i]
           /\ entries'[Len(entries) + 1] = [key |-> k, value |-> v]
<1> DEFINE e == [key |-> k, value |-> v]
<1>1. e \in Entries
    BY DEF Entries
<1>2. entries \in Seq(Entries)
    BY DEF TypeOK, Entries
<1> HIDE DEF e
<1>3. entries' = Append(entries, e)
    BY DEF e
<1>4. /\ entries' \in Seq(Entries)
      /\ Len(entries) \in Nat /\ Len(entries') = Len(entries) + 1
      /\ \A i \in 1..Len(entries) : entries'[i] = entries[i]
      /\ entries'[Len(entries) + 1] = e
    BY <1>1, <1>2, <1>3, AppendProperties, LenProperties
<1> QED
    BY <1>4 DEF e

LEMMA NextIInv == IInv /\ [Next]_vars => IInv'
<1> SUFFICES ASSUME IInv, [Next]_vars PROVE IInv'
    OBVIOUS
<1>1. ASSUME NEW k \in Keys, NEW v \in Values \cup {Null}, Register(k, v) PROVE IInv'
  <2>1. CASE v # Null /\ ~Registered(k)
    <3>1. v \in Values /\ result' = TRUE
        BY <1>1, <2>1 DEF Register
    <3>2. entries' = Append(entries, [key |-> k, value |-> v])
        BY <1>1, <2>1 DEF Register
    <3>3. /\ entries' \in Seq(Entries)
          /\ Len(entries) \in Nat /\ Len(entries') = Len(entries) + 1
          /\ \A i \in 1..Len(entries) : entries'[i] = entries[i]
          /\ entries'[Len(entries) + 1].key = k
        BY <3>1, <3>2, Appended DEF IInv
    <3>4. \A i \in 1..Len(entries) : entries[i].key # k
        BY <2>1 DEF Registered, HasKey
    <3>5. \A i \in 1..Len(entries') : i \in 1..Len(entries) \/ i = Len(entries) + 1
        BY <3>3
    <3>6. Unique'
        BY <3>3, <3>4, <3>5 DEF IInv, Unique
    <3> QED
        BY <3>1, <3>3, <3>6 DEF IInv, TypeOK, Entries
  <2>2. CASE ~(v # Null /\ ~Registered(k))
    <3>1. entries' = entries /\ result' = FALSE
        BY <1>1, <2>2 DEF Register
    <3> QED
        BY <3>1 DEF IInv, TypeOK, Unique
  <2> QED
      BY <2>1, <2>2
<1>2. CASE UNCHANGED vars
    BY <1>2 DEF vars, IInv, TypeOK, Unique
<1> QED
    BY <1>1, <1>2 DEF Next

LEMMA Inductive == Spec => []IInv
<1> QED
    BY InitIInv, NextIInv, PTL DEF Spec

\* Entries keep their types: never a null pointer among the values.
LEMMA TypesInRegistry == Spec => []TypeOK
<1>1. IInv => TypeOK
    BY DEF IInv
<1> QED
    BY <1>1, Inductive, PTL

-----------------------------------------------------------------------------
(* Registered once, registered for good.                                   *)

LEMMA FirstWinsStep ==
    ASSUME IInv, IInv', NEW k \in Keys, NEW v \in Values \cup {Null}, Register(k, v)
    PROVE  /\ \A l \in Keys : Find(l) # Null => Find(l)' = Find(l)
           /\ result' <=> \E l \in Keys : Find(l) = Null /\ Find(l)' # Null
<1>1. CASE v # Null /\ ~Registered(k)
  <2>1. v \in Values /\ result' = TRUE /\ entries' = Append(entries, [key |-> k, value |-> v])
      BY <1>1 DEF Register
  <2>2. /\ entries \in Seq(Entries) /\ entries' \in Seq(Entries)
        /\ Len(entries) \in Nat /\ Len(entries') = Len(entries) + 1
        /\ \A i \in 1..Len(entries) : entries'[i] = entries[i]
        /\ entries'[Len(entries) + 1].key = k
      BY <2>1, Appended DEF IInv, TypeOK, Entries
  <2>3. \A i \in 1..Len(entries) : i \in 1..Len(entries')
      BY <2>2
  <2>4. ASSUME NEW l \in Keys, Find(l) # Null PROVE Find(l)' = Find(l)
    <3>1. PICK i \in 1..Len(entries) : entries[i].key = l
        BY <2>4, LookupNone DEF Find, HasKey
    <3>2. Lookup(entries, l) = entries[i].value
        BY <2>2, <3>1, LookupAt DEF IInv, Unique
    <3>3. i \in 1..Len(entries') /\ entries'[i] = entries[i]
        BY <2>2, <2>3
    <3>4. \A j \in 1..Len(entries') : entries'[j].key = l => j = i
        BY <3>1, <3>3 DEF IInv, Unique
    <3>5. Lookup(entries', l) = entries'[i].value
        BY <2>2, <3>1, <3>3, <3>4, LookupAt
    <3> QED
        BY <3>2, <3>3, <3>5 DEF Find
  <2>5. Find(k) = Null
      BY <1>1, LookupNone DEF Find, Registered
  <2>6. Find(k)' # Null
    <3> DEFINE n == Len(entries) + 1
    <3>1. n \in 1..Len(entries') /\ entries'[n].key = k
        BY <2>2
    <3>2. \A j \in 1..Len(entries') : entries'[j].key = k => j = n
        BY <3>1 DEF IInv, Unique
    <3>3. Lookup(entries', k) \in Values
        BY <2>2, <3>1, <3>2, LookupAt
    <3> QED
        BY <3>3, RegistryAssumption DEF Find
  <2> QED
      BY <2>1, <2>4, <2>5, <2>6
<1>2. CASE ~(v # Null /\ ~Registered(k))
  <2>1. entries' = entries /\ result' = FALSE
      BY <1>2 DEF Register
  <2> QED
      BY <2>1 DEF Find
<1> QED
    BY <1>1, <1>2

\* In any sequence of registrations the first one of a key decides.
LEMMA FirstWinsInRegistry == Spec => FirstWins
<1>1. IInv /\ IInv' /\ [Next]_vars =>
          [/\ \A k \in Keys : Find(k) # Null => Find(k)' = Find(k)
           /\ result' <=> \E k \in Keys : Find(k) = Null /\ Find(k)' # Null]_vars
    BY FirstWinsStep DEF Next
<1> QED
    BY <1>1, Inductive, PTL DEF Spec, FirstWins

\* What happens to the tables is what Registry says, whatever starts and stops.
LEMMA TablesImplementRegistry == RuntimeSpec => Spec
<1>1. RuntimeInit => Init
    BY DEF RuntimeInit
<1>2. [RuntimeNext]_runtimeVars => [Next]_vars
    BY DEF RuntimeNext, runtimeVars, Configure
<1> QED
    BY <1>1, <1>2, PTL DEF RuntimeSpec, Spec

\* network_gateway.cpp, register_route() and find_route(): the first registration
\* of a key stands for good.
THEOREM FirstRegistrationWins == RuntimeSpec => FirstWins
BY TablesImplementRegistry, FirstWinsInRegistry

-----------------------------------------------------------------------------
(* The gateway.  Before the first stop() the port follows run(); from then *)
(* on no task reaches accept() any more, so that what stop() has done to   *)
(* the port of a gateway that had served stays done.                       *)

Stopping == {"close", "clear", "delete"}
Listening == listenSock /\ port = "listening"
Released == ~listenSock /\ port = "closed"

BeforeStop ==
    ~stopRequested =>
        /\ ctl \notin Stopping
        /\ ~stray
        /\ task \in {"none", "begin", "socket"} => Released
        /\ task \in {"bind", "unwind"} => listenSock /\ port = "open"
        /\ task \in {"loop", "accept", "session"} => Listening

AfterServing ==
    served /\ stopRequested =>
        /\ ~stray
        /\ task \in {"loop", "accept", "session", "ended", "none"}
        /\ ctl = "close" => Listening \/ Released
        /\ ctl = "clear" => listenSock /\ port = "closed"
        /\ ctl = "delete" => Released
        /\ ~handle /\ ctl \notin Stopping => Released
        /\ handle => ctl \in Stopping

GatewayInv ==
    /\ handle \in BOOLEAN /\ stopRequested \in BOOLEAN /\ served \in BOOLEAN
    /\ listenSock \in BOOLEAN /\ stray \in BOOLEAN
    /\ Gateway!Alive => handle
    /\ ~stopRequested /\ ~handle => task = "none"
    /\ served /\ ~stopRequested => task \in {"loop", "accept", "session"}
    /\ BeforeStop
    /\ AfterServing

LEMMA GatewayInitially == RuntimeInit => GatewayInv
BY DEF RuntimeInit, Gateway!Init, Gateway!Alive, GatewayInv, BeforeStop, AfterServing,
   Stopping, Released

LEMMA GatewayInductive == GatewayInv /\ [RuntimeNext]_runtimeVars => GatewayInv'
<1> SUFFICES ASSUME GatewayInv, [RuntimeNext]_runtimeVars PROVE GatewayInv'
  OBVIOUS
<1> USE DEF GatewayInv, BeforeStop, AfterServing, Stopping, Listening, Released,
        Gateway!Alive, Gateway!Goto, Gateway!serverVars
<1>1. CASE Gateway!Start
  BY <1>1 DEF Gateway!Start
<1>2. CASE Gateway!Stop
  BY <1>2 DEF Gateway!Stop
<1>3. CASE Gateway!StopServer
  <2>1. CASE listenSock
    BY <1>3, <2>1 DEF Gateway!StopServer, Gateway!CloseListening
  <2>2. CASE ~listenSock
    BY <1>3, <2>2 DEF Gateway!StopServer
  <2>3. QED
    BY <2>1, <2>2
<1>4. CASE Gateway!StopServerDone
  BY <1>4 DEF Gateway!StopServerDone, Gateway!ClearListening
<1>5. CASE Gateway!DeleteTask
  BY <1>5 DEF Gateway!DeleteTask
<1>6. CASE Gateway!Begin
  BY <1>6 DEF Gateway!Begin
<1>7. CASE Gateway!Socket
  BY <1>7 DEF Gateway!Socket
<1>8. CASE Gateway!Bind
  BY <1>8 DEF Gateway!Bind
<1>9. CASE Gateway!Unwind
  <2>1. CASE listenSock
    BY <1>9, <2>1 DEF Gateway!Unwind, Gateway!CloseListening
  <2>2. CASE ~listenSock
    <3>1. /\ task = "unwind" /\ task' = "ended"
          /\ UNCHANGED <<ctl, handle, stopRequested, served, listenSock, port, stray>>
      BY <1>9, <2>2 DEF Gateway!Unwind
    <3>2. stopRequested
      BY <2>2, <3>1
    <3>3. QED
      BY <3>1, <3>2
  <2>3. QED
    BY <2>1, <2>2
<1>10. CASE Gateway!Unwound
  BY <1>10 DEF Gateway!Unwound, Gateway!ClearListening
<1>11. CASE Gateway!Loop
  BY <1>11 DEF Gateway!Loop
<1>12. CASE Gateway!Accept
  <2>1. /\ task' \in {"session", "loop"} /\ task = "accept"
        /\ UNCHANGED <<ctl, handle, stopRequested, served, listenSock, port, stray>>
    BY <1>12 DEF Gateway!Accept
  <2>2. CASE stopRequested
    BY <2>1, <2>2
  <2>3. CASE ~stopRequested
    BY <2>1, <2>3
  <2>4. QED
    BY <2>2, <2>3
<1>13. CASE Gateway!SessionOver
  BY <1>13 DEF Gateway!SessionOver
<1>14. CASE Monitor!Next /\ UNCHANGED <<vars, gatewayVars>>
  <2>1. UNCHANGED ctl \/ (ctl \notin Stopping /\ ctl' \notin Stopping)
    <3>1. \A t \in DOMAIN mTask : Monitor!Run(t) => UNCHANGED ctl
      BY DEF Monitor!Run, Monitor!Test, Monitor!Report, Monitor!Wake, Monitor!Leave,
         Monitor!End, Monitor!Goto
    <3>2. Monitor!DeleteTask => ctl \notin Stopping /\ ctl' \notin Stopping
      BY DEF Monitor!DeleteTask
    <3>3. Monitor!Start \/ Monitor!Stop \/ Monitor!TestHandle
            => ctl \notin Stopping /\ ctl' \notin Stopping
      BY DEF Monitor!Start, Monitor!Stop, Monitor!TestHandle
    <3>4. QED
      BY <1>14, <3>1, <3>2, <3>3 DEF Monitor!Next
  <2>2. QED
    BY <1>14, <2>1 DEF gatewayVars
<1>15. CASE UNCHANGED <<ctl, gatewayVars>>
  BY <1>15 DEF gatewayVars
<1>16. QED
  BY <1>1, <1>2, <1>3, <1>4, <1>5, <1>6, <1>7, <1>8, <1>9, <1>10, <1>11, <1>12,
     <1>13, <1>14, <1>15
  DEF RuntimeNext, Configure, runtimeVars, Gateway!Next

LEMMA GatewayInvariance == RuntimeSpec => []GatewayInv
BY GatewayInitially, GatewayInductive, PTL DEF RuntimeSpec

\* network_gateway.cpp, stop(): when it has returned, no task runs in the gateway.
THEOREM GatewayStopsForGood == RuntimeSpec => []GatewayQuiet
<1>1. GatewayInv => GatewayQuiet
  BY DEF GatewayInv, GatewayQuiet, Gateway!QuietAfterStop, Gateway!Stopped
<1>2. QED
  BY <1>1, GatewayInvariance, PTL

\* TcpServer.cpp, stop(), called from outside while run() uses the server: once the
\* gateway has served, its port is closed once and given back.
THEOREM PortGivenBack == RuntimeSpec => []PortReleased
<1>1. GatewayInv => PortReleased
  BY DEF GatewayInv, BeforeStop, AfterServing, Stopping, Listening, Released,
     PortReleased, Gateway!PortReleased, Gateway!Stopped
<1>2. QED
  BY <1>1, GatewayInvariance, PTL

-----------------------------------------------------------------------------
(* The monitor.                                                            *)

MonitorCalls == {"test", "remove"}

\* The handle stop() is about to use is the task's, or the task has left the loop.
MonitorInv ==
    /\ Monitor!TypeOK
    /\ Monitor!Inside = {mHandle} \ {0}
    /\ ctl \in MonitorCalls => mStopRequested
    /\ ctl = "remove" => mOld # 0 /\ mHandle \in {0, mOld}
    /\ ctl \notin MonitorCalls /\ mStopRequested => Monitor!Inside = {}

LEMMA MonitorInitially == RuntimeInit => MonitorInv
<1> SUFFICES ASSUME RuntimeInit PROVE MonitorInv
  OBVIOUS
<1>1. mTask = <<>> /\ Len(mTask) = 0 /\ DOMAIN mTask = {}
  BY DEF RuntimeInit, Monitor!Init
<1>2. Monitor!Inside = {}
  BY <1>1 DEF Monitor!Inside
<1>3. mTask \in Seq({"test", "report", "sleep", "leave", "end", "gone"})
  BY <1>1, EmptySeq
<1>4. Monitor!TypeOK
  <2>1. mHandle = 0 /\ mOld = 0 /\ mStopRequested = FALSE /\ Len(mTask) = 0
    BY <1>1 DEF RuntimeInit, Monitor!Init
  <2>2. mHandle \in 0..Len(mTask) /\ mOld \in 0..Len(mTask)
    BY <2>1
  <2>3. QED
    BY <2>1, <2>2, <1>3, Zenon DEF Monitor!TypeOK
<1>5. QED
  BY <1>2, <1>4 DEF RuntimeInit, Monitor!Init, MonitorInv, MonitorCalls

LEMMA MonitorInductive == MonitorInv /\ [RuntimeNext]_runtimeVars => MonitorInv'
<1> SUFFICES ASSUME MonitorInv, [RuntimeNext]_runtimeVars PROVE MonitorInv'
  OBVIOUS
<1> USE DEF MonitorInv, Monitor!TypeOK, MonitorCalls, Monitor!Inside
<1>1. CASE Monitor!Start
  <2> DEFINE n == Len(mTask) + 1
  <2>1. Monitor!Inside = {}
    BY <1>1 DEF Monitor!Start
  <2>2. /\ mTask' \in Seq({"test", "report", "sleep", "leave", "end", "gone"})
        /\ Len(mTask') = n /\ DOMAIN mTask' = 1..n /\ DOMAIN mTask = 1..Len(mTask)
        /\ mTask'[n] = "test" /\ \A t \in 1..Len(mTask) : mTask'[t] = mTask[t]
    BY <1>1 DEF Monitor!Start
  <2>3. Monitor!Inside' = {n}
    BY <2>1, <2>2
  <2>4. Monitor!TypeOK'
    <3>1. mHandle' = n /\ UNCHANGED mOld /\ mStopRequested' = FALSE /\ Len(mTask) \in Nat
      BY <1>1 DEF Monitor!Start
    <3>2. mHandle' \in 0..Len(mTask') /\ mOld' \in 0..Len(mTask')
      BY <2>2, <3>1
    <3>3. QED
      BY <2>2, <3>1, <3>2
  <2>5. /\ mHandle' = n /\ n # 0 /\ ctl = "ready" /\ ctl' = ctl
        /\ mStopRequested' = FALSE
    BY <1>1 DEF Monitor!Start
  <2>6. QED
    <3> HIDE DEF Monitor!TypeOK, Monitor!Inside, n
    <3>1. Monitor!Inside' = {mHandle'} \ {0}
      BY <2>3, <2>5
    <3>2. QED
      BY <2>4, <2>5, <3>1
<1>2. CASE Monitor!Stop
  BY <1>2 DEF Monitor!Stop
<1>3. CASE Monitor!TestHandle
  BY <1>3 DEF Monitor!TestHandle
<1>4. CASE Monitor!DeleteTask
  BY <1>4 DEF Monitor!DeleteTask
<1>5. ASSUME NEW t \in DOMAIN mTask, Monitor!Run(t) PROVE MonitorInv'
  <2> t \in 1..Len(mTask)
    BY <1>5
  <2>1. CASE Monitor!Test(t)
    BY <2>1 DEF Monitor!Test, Monitor!Goto
  <2>2. CASE Monitor!Report(t)
    BY <2>2 DEF Monitor!Report, Monitor!Goto
  <2>3. CASE Monitor!Wake(t)
    BY <2>3 DEF Monitor!Wake, Monitor!Goto
  <2>4. CASE Monitor!Leave(t)
    BY <2>4 DEF Monitor!Leave, Monitor!Goto
  <2>5. CASE Monitor!End(t)
    BY <2>5 DEF Monitor!End, Monitor!Goto
  <2>6. QED
    BY <1>5, <2>1, <2>2, <2>3, <2>4, <2>5 DEF Monitor!Run
<1>6. CASE Gateway!Next /\ UNCHANGED <<vars, monitorVars>>
  <2>1. UNCHANGED ctl \/ (ctl \notin MonitorCalls /\ ctl' \notin MonitorCalls)
    <3>1. Gateway!Start \/ Gateway!Stop \/ Gateway!StopServer \/ Gateway!StopServerDone
            \/ Gateway!DeleteTask => ctl \notin MonitorCalls /\ ctl' \notin MonitorCalls
      BY DEF Gateway!Start, Gateway!Stop, Gateway!StopServer, Gateway!StopServerDone,
         Gateway!DeleteTask
    <3>2. Gateway!Begin \/ Gateway!Socket \/ Gateway!Bind \/ Gateway!Unwind
            \/ Gateway!Unwound \/ Gateway!Loop \/ Gateway!Accept
            \/ Gateway!SessionOver => UNCHANGED ctl
      BY DEF Gateway!Begin, Gateway!Socket, Gateway!Bind, Gateway!Unwind,
         Gateway!Unwound, Gateway!Loop, Gateway!Accept, Gateway!SessionOver,
         Gateway!Goto
    <3>3. QED
      BY <1>6, <3>1, <3>2 DEF Gateway!Next
  <2>2. QED
    BY <1>6, <2>1 DEF monitorVars
<1>7. CASE UNCHANGED <<ctl, monitorVars>>
  BY <1>7 DEF monitorVars
<1>8. QED
  BY <1>1, <1>2, <1>3, <1>4, <1>5, <1>6, <1>7
  DEF RuntimeNext, Configure, runtimeVars, Monitor!Next

LEMMA MonitorInvariance == RuntimeSpec => []MonitorInv
BY MonitorInitially, MonitorInductive, PTL DEF RuntimeSpec

\* SystemMonitorTask.cpp, start(), stop() and the end of run(): handle_ means the one
\* task there is, and after stop() there is none.
THEOREM OneMonitorAtMost == RuntimeSpec => []OneMonitor
<1>1. MonitorInv => OneMonitor
  BY DEF MonitorInv, MonitorCalls, OneMonitor, Monitor!OneMonitor
<1>2. QED
  BY <1>1, MonitorInvariance, PTL

-----------------------------------------------------------------------------
(* Types.                                                                  *)

Types == Gateway!TypeOK /\ ctl \in Places

LEMMA TypesInductive == Types /\ [RuntimeNext]_runtimeVars => Types'
<1> SUFFICES ASSUME Types, [RuntimeNext]_runtimeVars PROVE Types'
  OBVIOUS
<1> USE DEF Types, Gateway!TypeOK, Places, Gateway!serverVars
<1>1. CASE Gateway!Start \/ Gateway!Stop \/ Gateway!StopServerDone \/ Gateway!DeleteTask
  BY <1>1 DEF Gateway!Start, Gateway!Stop, Gateway!StopServerDone, Gateway!DeleteTask,
     Gateway!ClearListening
<1>2. CASE Gateway!StopServer \/ Gateway!Unwind
  BY <1>2 DEF Gateway!StopServer, Gateway!Unwind, Gateway!CloseListening, Gateway!Goto
<1>3. CASE Gateway!Begin \/ Gateway!Socket \/ Gateway!Bind \/ Gateway!Unwound
  BY <1>3 DEF Gateway!Begin, Gateway!Socket, Gateway!Bind, Gateway!Unwound,
     Gateway!ClearListening, Gateway!Goto
<1>4. CASE Gateway!Loop \/ Gateway!Accept \/ Gateway!SessionOver
  BY <1>4 DEF Gateway!Loop, Gateway!Accept, Gateway!SessionOver, Gateway!Goto
<1>5. CASE Monitor!Next /\ UNCHANGED <<vars, gatewayVars>>
  <2>1. ctl' \in Places
    BY <1>5 DEF Monitor!Next, Monitor!Start, Monitor!Stop, Monitor!TestHandle,
       Monitor!DeleteTask, Monitor!Run, Monitor!Test, Monitor!Report, Monitor!Wake,
       Monitor!Leave, Monitor!End, Monitor!Goto
  <2>2. QED
    BY <1>5, <2>1 DEF gatewayVars
<1>6. CASE UNCHANGED <<ctl, gatewayVars>>
  BY <1>6 DEF gatewayVars
<1>7. QED
  BY <1>1, <1>2, <1>3, <1>4, <1>5, <1>6
  DEF RuntimeNext, Configure, runtimeVars, Gateway!Next

\* Tables, gateway and monitor keep their types: no null enters a table, and handle_
\* of the monitor is null or one of the tasks it has created.
THEOREM TypeCorrect == RuntimeSpec => []RuntimeTypeOK
<1>1. RuntimeInit => Types
  BY DEF RuntimeInit, Gateway!Init, Types, Gateway!TypeOK, Places
<1>2. RuntimeSpec => []Types
  BY <1>1, TypesInductive, PTL DEF RuntimeSpec
<1>3. TypeOK /\ MonitorInv /\ Types => RuntimeTypeOK
  BY DEF MonitorInv, Types, RuntimeTypeOK
<1>4. QED
  BY <1>2, <1>3, MonitorInvariance, TablesImplementRegistry, TypesInRegistry, PTL

=============================================================================
