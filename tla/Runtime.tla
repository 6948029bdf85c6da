------------------------------- MODULE Runtime -------------------------------
(***************************************************************************)
(* What a coordinating task does with the runtime: fill the tables, start  *)
(* the gateway and the monitor, stop them, start them again.  One task     *)
(* does it all, as app_main does, so a call on one of them begins when the *)
(* call on the other has returned.                                         *)
(***************************************************************************)
EXTENDS Registry

CONSTANT MaxTasks   \* bound: monitor tasks created

VARIABLES
    ctl, handle, stopRequested, task, session, served, listenSock, port, stray,
    mHandle, mStopRequested, mTask, mOld

Gateway == INSTANCE GatewayLifecycle
Monitor == INSTANCE MonitorLifecycle

gatewayVars == <<handle, stopRequested, task, session, served, listenSock, port, stray>>
monitorVars == <<mHandle, mStopRequested, mTask, mOld>>
runtimeVars == <<vars, ctl, gatewayVars, monitorVars>>

RuntimeInit == Init /\ Gateway!Init /\ Monitor!Init

\* configure_navigation_gateway(), before the gateway's only start in app_main.
Configure ==
    /\ ctl = "ready"
    /\ task = "none"
    /\ Next
    /\ UNCHANGED <<ctl, gatewayVars, monitorVars>>

RuntimeNext ==
    \/ Configure
    \/ Gateway!Next /\ UNCHANGED <<vars, monitorVars>>
    \/ Monitor!Next /\ UNCHANGED <<vars, gatewayVars>>

RuntimeSpec ==
    RuntimeInit /\ [][RuntimeNext]_runtimeVars /\ Monitor!Fairness

-----------------------------------------------------------------------------
(* Properties, stated where the components are.                            *)

\* Where the coordinating task can be, in a call or between two.
Places == {"ready", "close", "clear", "delete", "test", "remove", "lost", "deleted"}

RuntimeTypeOK ==
    /\ TypeOK
    /\ Gateway!TypeOK
    /\ Monitor!TypeOK
    /\ ctl \in Places

\* ~NetworkGateway() relies on it: after stop() no task runs in the gateway.
GatewayQuiet == Gateway!QuietAfterStop

\* A gateway that has served gives its port back, once.
PortReleased == Gateway!PortReleased

\* The monitor has one task, and none after stop().
OneMonitor == Monitor!OneMonitor

\* Every start of the monitor makes it report.
MonitorReports == Monitor!Reports

\* docs/architecture.md: "Provide a graceful shutdown path."  Stopping the gateway
\* would close the session it has with a client.
SessionClosed == Gateway!SessionClosed

=============================================================================
