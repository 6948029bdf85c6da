-------------------------- MODULE GatewayLifecycle --------------------------
(***************************************************************************)
(* NetworkGateway from start() to stop(), with the TcpServer it starts: a  *)
(* controlling task calls start() and stop(), run() goes on meanwhile, and *)
(* stop() deletes it wherever it is.  What run() does with frames is in    *)
(* NetworkGateway.                                                         *)
(*                                                                         *)
(* vTaskDelete on a task that is gone already has no defined effect: the   *)
(* controlling task is then "lost" and the module says no more about it.   *)
(***************************************************************************)

VARIABLES
    ctl,            \* the controlling task: "ready", or where it is in a call
    handle,         \* task_handle_ is not null
    stopRequested,  \* stop_requested_
    task,           \* where run() is
    session,        \* the session's socket is open
    served,         \* run() has reached accept() since start()
    listenSock,     \* listen_sock_ >= 0
    port,           \* the socket it means: "closed", "open", "listening"
    stray           \* a socket number was closed that was closed already

serverVars == <<listenSock, port, stray>>
vars == <<ctl, handle, stopRequested, task, session, served, serverVars>>

Init ==
    /\ ctl = "ready"
    /\ handle = FALSE
    /\ stopRequested = FALSE
    /\ task = "none"
    /\ session = FALSE
    /\ served = FALSE
    /\ listenSock = FALSE
    /\ port = "closed"
    /\ stray = FALSE

-----------------------------------------------------------------------------
(* The controlling task.                                                   *)

\* start() asserts that task_handle_ is null.  It leaves stop_requested_ alone.
Start ==
    /\ ctl = "ready"
    /\ ~handle
    /\ handle' = TRUE
    /\ task' = "begin"
    /\ served' = FALSE
    /\ UNCHANGED <<ctl, stopRequested, session, serverVars>>

Stop ==
    /\ ctl = "ready"
    /\ stopRequested' = TRUE
    /\ ctl' = "close"
    /\ UNCHANGED <<handle, task, session, served, serverVars>>

\* TcpServer::stop() tests listen_sock_ and closes the socket ...
CloseListening ==
    /\ port' = "closed"
    /\ stray' = IF port = "closed" THEN TRUE ELSE stray
    /\ UNCHANGED listenSock

StopServer ==
    /\ ctl = "close"
    /\ \/ listenSock /\ CloseListening /\ ctl' = "clear"
       \/ ~listenSock /\ ctl' = "delete" /\ UNCHANGED serverVars
    /\ UNCHANGED <<handle, stopRequested, task, session, served>>

\* Fault variant: the number kept.
ClearListeningForgotten == UNCHANGED serverVars

\* ... and only then forgets its number.
ClearListening ==
    /\ listenSock' = FALSE
    /\ UNCHANGED <<port, stray>>

StopServerDone ==
    /\ ctl = "clear"
    /\ ClearListening
    /\ ctl' = "delete"
    /\ UNCHANGED <<handle, stopRequested, task, session, served>>

Alive == task \notin {"none", "ended"}

\* Fault variant: the task left to notice the flag by itself.
DeleteTaskLater ==
    /\ ctl = "delete"
    /\ handle' = FALSE
    /\ ctl' = "ready"
    /\ UNCHANGED <<stopRequested, task, session, served, serverVars>>

\* The task ends where it is: no destructor of run() is called.
DeleteTask ==
    /\ ctl = "delete"
    /\ handle' = FALSE
    /\ IF handle /\ ~Alive THEN ctl' = "lost" ELSE ctl' = "ready"
    /\ task' = "none"
    /\ UNCHANGED <<stopRequested, session, served, serverVars>>

-----------------------------------------------------------------------------
(* run().                                                                  *)

Goto(place) ==
    /\ task' = place
    /\ UNCHANGED <<ctl, handle, stopRequested>>

\* isRunning() is asked, for the server or for its own start().
Begin ==
    /\ task = "begin"
    /\ Goto(IF listenSock THEN "loop" ELSE "socket")
    /\ UNCHANGED <<session, served, serverVars>>

\* TcpServer::start(), from socket() ...
Socket ==
    /\ task = "socket"
    /\ \/ /\ listenSock' = TRUE
          /\ port' = "open"
          /\ Goto("bind")
       \/ /\ listenSock' = FALSE
          /\ UNCHANGED port
          /\ Goto("ended")
    /\ UNCHANGED <<session, served, stray>>

\* ... through bind() and listen(), which fail for certain without their socket.
Bind ==
    /\ task = "bind"
    /\ \/ /\ listenSock
          /\ port = "open"
          /\ port' = "listening"
          /\ Goto("loop")
       \/ /\ Goto("unwind")
          /\ UNCHANGED port
    /\ UNCHANGED <<session, served, listenSock, stray>>

\* A failed start() calls TcpServer::stop() too, and run() ends.
Unwind ==
    /\ task = "unwind"
    /\ \/ listenSock /\ CloseListening /\ Goto("unwound")
       \/ ~listenSock /\ UNCHANGED serverVars /\ Goto("ended")
    /\ UNCHANGED <<session, served>>

Unwound ==
    /\ task = "unwound"
    /\ ClearListening
    /\ Goto("ended")
    /\ UNCHANGED <<session, served>>

\* The test of the outer loop.
Loop ==
    /\ task = "loop"
    /\ served' = (served \/ ~stopRequested)
    /\ Goto(IF stopRequested THEN "ended" ELSE "accept")
    /\ UNCHANGED <<session, serverVars>>

\* acceptConnection(), or no link and a pause of 50 ms.
Accept ==
    /\ task = "accept"
    /\ \/ /\ listenSock
          /\ port = "listening"
          /\ session' = TRUE
          /\ Goto("session")
       \/ /\ Goto("loop")
          /\ UNCHANGED session
    /\ UNCHANGED <<served, serverVars>>

\* The client goes, or the flag is seen between two frames: the link is destroyed.
SessionOver ==
    /\ task = "session"
    /\ session' = FALSE
    /\ Goto("loop")
    /\ UNCHANGED <<served, serverVars>>

-----------------------------------------------------------------------------

Next ==
    \/ Start \/ Stop \/ StopServer \/ StopServerDone \/ DeleteTask
    \/ Begin \/ Socket \/ Bind \/ Unwind \/ Unwound \/ Loop \/ Accept \/ SessionOver

Spec == Init /\ [][Next]_vars

-----------------------------------------------------------------------------
(* Properties.                                                             *)

\* Of all but ctl, which other components move too.
TypeOK ==
    /\ {handle, stopRequested, session, served, listenSock, stray} \subseteq BOOLEAN
    /\ task \in {"none", "begin", "socket", "bind", "unwind", "unwound", "loop",
                 "accept", "session", "ended"}
    /\ port \in {"closed", "open", "listening"}

\* The last call was stop(), and it has returned.
Stopped == ctl = "ready" /\ stopRequested /\ ~handle

\* The object may be destroyed: ~NetworkGateway() relies on it.  When stop() has
\* returned, no task runs in it, wherever run() was and whatever it did meanwhile.
QuietAfterStop == Stopped => ~Alive

\* A gateway that has got as far as accept() gives its port back, and closes the
\* socket of it once, although the server is stopped from outside and listen_sock_
\* has no lock.  (A stop() in the middle of TcpServer::start() does neither.)
PortReleased == served => ~stray /\ (Stopped => port = "closed" /\ ~listenSock)

-----------------------------------------------------------------------------
(* What a document says and the code does not do.                          *)

\* docs/architecture.md: "Provide a graceful shutdown path."  The client of a
\* gateway that has been stopped would be told so.
SessionClosed == Stopped => ~session

=============================================================================
