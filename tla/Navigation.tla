----------------------------- MODULE Navigation -----------------------------
(***************************************************************************)
(* The navigation subsystem: NavigationActivity, NavigationService, the    *)
(* EventBus between them, and the tasks that post commands to the activity *)
(* (the network gateway and commanders such as the coordinator).           *)
(*                                                                         *)
(* Each task is a process with a program counter.  A handler is one action *)
(* up to the point where it may block; a blocking post is an action of its *)
(* own, enabled when the destination queue has room.  All posts here use   *)
(* portMAX_DELAY, so a post never gives up.                                *)
(*                                                                         *)
(* Time is left out: a periodic tick whose interval is set may or may not  *)
(* be due whenever the run loop looks.                                     *)
(***************************************************************************)
EXTENDS Naturals, Sequences

CONSTANTS
    Gateway,        \* the network gateway task: posts START and HALT
    Commanders,     \* the tasks that post MOVE_FORWARD to the activity
    None,           \* no command pending
    ActQueueLen,    \* capacity of the activity's inbound queue (8 in the code)
    SvcQueueLen,    \* capacity of the service's inbound queue (8 in the code)
    EvQueueLen,     \* capacity of the default event loop's queue
    XMax            \* first position that + 1.0f leaves as it is (2^24)

Sources == {Gateway} \cup Commanders

Commands(s) ==
    IF s = Gateway THEN {"START_MANUAL_NAV", "HALT_MANUAL_NAV"}
                   ELSE {"MOVE_FORWARD"}

ActMessages ==
    {"MOVE_FORWARD", "MOVE_DONE", "START_MANUAL_NAV", "HALT_MANUAL_NAV"}

Events == {"NAV_EVENT_MOVE_FORWARD_DONE", "WIFI_EVENT"}

ASSUME NavigationAssumption ==
    /\ None \notin ActMessages
    /\ ActQueueLen \in Nat \ {0}
    /\ SvcQueueLen \in Nat \ {0}
    /\ EvQueueLen \in Nat \ {0}
    /\ XMax \in Nat

VARIABLES
    state,          \* NavigationActivity::state_
    ticking,        \* the activity's tick_interval_ticks_ > 0
    actPc,          \* where the activity task is
    actQueue,       \* the activity's inbound queue
    svcPc,          \* where the service task is
    svcQueue,       \* the service's inbound queue
    x,              \* NavigationState::x
    loopPc,         \* where the event loop task is
    evQueue,        \* events posted and not yet dispatched
    subscribed,     \* on_nav_event is registered with the event loop
    pending         \* the command each source is posting

actVars  == <<state, ticking, actPc>>
svcVars  == <<svcPc, x>>
loopVars == <<loopPc, subscribed>>
vars == <<actVars, actQueue, svcVars, svcQueue, loopVars, evQueue, pending>>

Init ==
    /\ state = "Idle"
    /\ ticking = FALSE
    /\ actPc = "boot"
    /\ actQueue = <<>>
    /\ svcPc = "wait"
    /\ svcQueue = <<>>
    /\ x = 0
    /\ loopPc = "wait"
    /\ evQueue = <<>>
    /\ subscribed = FALSE
    /\ pending = [s \in Sources |-> None]

-----------------------------------------------------------------------------
(* Sources of commands.                                                    *)

\* A source decides on a command and enters post_message().  (A START or HALT
\* whose payload copy cannot be allocated is dropped: no step here.)
BeginPost(s) ==
    /\ pending[s] = None
    /\ \E m \in Commands(s) : pending' = [pending EXCEPT ![s] = m]
    /\ UNCHANGED <<actVars, actQueue, svcVars, svcQueue, loopVars, evQueue>>

\* Fault variant: room in the queue not tested.
FinishPostUnchecked(s) ==
    /\ pending[s] # None
    /\ actQueue' = Append(actQueue, pending[s])
    /\ pending' = [pending EXCEPT ![s] = None]
    /\ UNCHANGED <<actVars, svcVars, svcQueue, loopVars, evQueue>>

\* xQueueSend to the activity succeeds once the queue has room.
FinishPost(s) ==
    /\ pending[s] # None
    /\ Len(actQueue) < ActQueueLen
    /\ actQueue' = Append(actQueue, pending[s])
    /\ pending' = [pending EXCEPT ![s] = None]
    /\ UNCHANGED <<actVars, svcVars, svcQueue, loopVars, evQueue>>

-----------------------------------------------------------------------------
(* NavigationActivity: the BaseTask run loop and the message handlers.     *)

\* on_start(): the result of EventBus::subscribe is ignored, so the activity
\* goes on whether or not the handler was registered.
OnStart ==
    /\ actPc = "boot"
    /\ subscribed' \in BOOLEAN
    /\ actPc' = "wait"
    /\ UNCHANGED <<state, ticking, actQueue, svcVars, svcQueue, loopPc, evQueue,
                   pending>>

\* Fault variant: the test on Idle forgotten.
HandleMoveForwardAnyState ==
    /\ state' = "Working"
    /\ actPc' = "post"
    /\ UNCHANGED ticking

\* Fault variant: only a running move is refused.
HandleMoveForwardFromManual ==
    \/ /\ state # "Working"
       /\ state' = "Working"
       /\ actPc' = "post"
       /\ UNCHANGED ticking
    \/ /\ state = "Working"
       /\ actPc' = "check"
       /\ UNCHANGED <<state, ticking>>

HandleMoveForward ==
    \/ /\ state = "Idle"
       /\ state' = "Working"
       /\ actPc' = "post"
       /\ UNCHANGED ticking
    \/ /\ state # "Idle"
       /\ actPc' = "check"
       /\ UNCHANGED <<state, ticking>>

HandleMoveDone ==
    /\ state' = "Idle"
    /\ actPc' = "check"
    /\ UNCHANGED ticking

\* Fault variant: Manual entered in the middle of a move.
HandleStartManualNavBusy ==
    \/ /\ state # "Manual"
       /\ state' = "Manual"
       /\ ticking' = TRUE
       /\ actPc' = "check"
    \/ /\ state = "Manual"
       /\ actPc' = "check"
       /\ UNCHANGED <<state, ticking>>

HandleStartManualNav ==
    \/ /\ state = "Idle"
       /\ state' = "Manual"
       /\ ticking' = TRUE
       /\ actPc' = "check"
    \/ /\ state # "Idle"
       /\ actPc' = "check"
       /\ UNCHANGED <<state, ticking>>

HandleHaltManualNav ==
    \/ /\ state = "Manual"
       /\ state' = "Idle"
       /\ ticking' = FALSE
       /\ actPc' = "check"
    \/ /\ state # "Manual"
       /\ actPc' = "check"
       /\ UNCHANGED <<state, ticking>>

\* handle_message() dispatches on the message id.
HandleMessage(m) ==
    \/ m = "MOVE_FORWARD"     /\ HandleMoveForward
    \/ m = "MOVE_DONE"        /\ HandleMoveDone
    \/ m = "START_MANUAL_NAV" /\ HandleStartManualNav
    \/ m = "HALT_MANUAL_NAV"  /\ HandleHaltManualNav

\* xQueueReceive returns a message and handle_message runs on it.
Receive ==
    /\ actPc = "wait"
    /\ actQueue # <<>>
    /\ HandleMessage(Head(actQueue))
    /\ actQueue' = Tail(actQueue)
    /\ UNCHANGED <<svcVars, svcQueue, loopVars, evQueue, pending>>

\* The rest of handle_move_forward(): the directed message to the service.
PostMove ==
    /\ actPc = "post"
    /\ Len(svcQueue) < SvcQueueLen
    /\ svcQueue' = Append(svcQueue, "MOVE_FORWARD")
    /\ actPc' = "check"
    /\ UNCHANGED <<state, ticking, actQueue, svcVars, loopVars, evQueue, pending>>

\* xQueueReceive times out: the queue is empty and the tick deadline reached.
TickTimeout ==
    /\ actPc = "wait"
    /\ ticking
    /\ actQueue = <<>>
    /\ actPc' = "due"
    /\ UNCHANGED <<state, ticking, actQueue, svcVars, svcQueue, loopVars, evQueue,
                   pending>>

\* The interval has elapsed: on_tick() runs.
OnTick ==
    /\ actPc \in {"check", "due"}
    /\ ticking
    /\ actPc' = "wait"
    /\ UNCHANGED <<state, ticking, actQueue, svcVars, svcQueue, loopVars, evQueue,
                   pending>>

\* Ticking is off, or the interval has not elapsed yet.
NoTick ==
    /\ actPc = "check"
    /\ actPc' = "wait"
    /\ UNCHANGED <<state, ticking, actQueue, svcVars, svcQueue, loopVars, evQueue,
                   pending>>

Activity == OnStart \/ Receive \/ PostMove \/ TickTimeout \/ OnTick \/ NoTick

-----------------------------------------------------------------------------
(* NavigationService.                                                      *)

\* One unit forward: 2^24 + 1.0f is 2^24 again in single precision.
OneUnit(v) == IF v < XMax THEN v + 1 ELSE v

\* Fault variant: the command consumed without the move.
ServiceReceiveWithoutMove ==
    /\ svcPc = "wait"
    /\ svcQueue # <<>>
    /\ svcQueue' = Tail(svcQueue)
    /\ svcPc' = "publish"
    /\ UNCHANGED <<actVars, actQueue, x, loopVars, evQueue, pending>>

\* handle_move_forward() up to the post: the position makes one step.
ServiceReceive ==
    /\ svcPc = "wait"
    /\ svcQueue # <<>>
    /\ svcQueue' = Tail(svcQueue)
    /\ x' = OneUnit(x)
    /\ svcPc' = "publish"
    /\ UNCHANGED <<actVars, actQueue, loopVars, evQueue, pending>>

\* Fault variant: a post that gives up at once when the loop's queue is full.
PublishOrGiveUp ==
    /\ svcPc = "publish"
    /\ evQueue' = IF Len(evQueue) < EvQueueLen
                  THEN Append(evQueue, "NAV_EVENT_MOVE_FORWARD_DONE")
                  ELSE evQueue
    /\ svcPc' = "wait"
    /\ UNCHANGED <<actVars, actQueue, x, svcQueue, loopVars, pending>>

\* EventBus::post of the completion event, blocking while the queue is full.
Publish ==
    /\ svcPc = "publish"
    /\ Len(evQueue) < EvQueueLen
    /\ evQueue' = Append(evQueue, "NAV_EVENT_MOVE_FORWARD_DONE")
    /\ svcPc' = "wait"
    /\ UNCHANGED <<actVars, actQueue, x, svcQueue, loopVars, pending>>

-----------------------------------------------------------------------------
(* The default event loop.                                                 *)

\* The Wi-Fi and IP stack posts its own events to the same loop.
WifiEvent ==
    /\ Len(evQueue) < EvQueueLen
    /\ evQueue' = Append(evQueue, "WIFI_EVENT")
    /\ UNCHANGED <<actVars, actQueue, svcVars, svcQueue, loopVars, pending>>

\* The loop takes an event and runs its handlers: on_nav_event if registered,
\* or wifi_event_handler, which never blocks.
Dispatch ==
    /\ loopPc = "wait"
    /\ evQueue # <<>>
    /\ evQueue' = Tail(evQueue)
    /\ loopPc' = IF Head(evQueue) = "NAV_EVENT_MOVE_FORWARD_DONE" /\ subscribed
                 THEN "deliver" ELSE "wait"
    /\ UNCHANGED <<actVars, actQueue, svcVars, svcQueue, subscribed, pending>>

\* Fault variant: the callback posts again and again instead of returning.
DeliverForever ==
    /\ loopPc = "deliver"
    /\ Len(actQueue) < ActQueueLen
    /\ actQueue' = Append(actQueue, "MOVE_DONE")
    /\ UNCHANGED <<actVars, svcVars, svcQueue, loopVars, evQueue, pending>>

\* on_nav_event() posts the self-message, blocking the loop while the
\* activity's queue is full, and returns.
Deliver ==
    /\ loopPc = "deliver"
    /\ Len(actQueue) < ActQueueLen
    /\ actQueue' = Append(actQueue, "MOVE_DONE")
    /\ loopPc' = "wait"
    /\ UNCHANGED <<actVars, svcVars, svcQueue, subscribed, evQueue, pending>>

-----------------------------------------------------------------------------

Next ==
    \/ \E s \in Sources : BeginPost(s) \/ FinishPost(s)
    \/ Activity
    \/ ServiceReceive
    \/ Publish
    \/ WifiEvent
    \/ Dispatch
    \/ Deliver

\* Every task runs when it can: scheduling is preemptive and no task spins.  A
\* task blocked on a full queue is woken by every receive, so it is enough that
\* room appears again and again: of the tasks that post to the activity the
\* event loop has the highest priority, and the loop's own queue is shared only
\* with Wi-Fi events, which do not come in an endless burst.  Nothing forces a
\* command or a Wi-Fi event to occur.
Fairness ==
    /\ WF_vars(Activity)
    /\ WF_vars(ServiceReceive)
    /\ SF_vars(Publish)
    /\ WF_vars(Dispatch)
    /\ SF_vars(Deliver)

Spec == Init /\ [][Next]_vars /\ Fairness

-----------------------------------------------------------------------------
(* Properties.                                                             *)

TypeOK ==
    /\ state \in {"Idle", "Working", "Manual"}
    /\ ticking \in BOOLEAN
    /\ actPc \in {"boot", "wait", "post", "check", "due"}
    /\ actQueue \in Seq(ActMessages) /\ Len(actQueue) <= ActQueueLen
    /\ svcPc \in {"wait", "publish"}
    /\ svcQueue \in Seq({"MOVE_FORWARD"}) /\ Len(svcQueue) <= SvcQueueLen
    /\ x \in 0..XMax
    /\ loopPc \in {"wait", "deliver"}
    /\ evQueue \in Seq(Events) /\ Len(evQueue) <= EvQueueLen
    /\ subscribed \in BOOLEAN
    /\ pending \in [Sources -> ActMessages \cup {None}]

\* The traces of an accepted move on its way round: the command being posted or
\* queued for the service, then the completion in a handler or in a queue.
InFlight ==
    {t \in {<<"post", 0>>, <<"publish", 0>>, <<"deliver", 0>>} :
        t[1] \in {actPc, svcPc, loopPc}}
    \cup ({"service"} \X DOMAIN svcQueue)
    \cup {t \in {"event"} \X DOMAIN evQueue :
             evQueue[t[2]] = "NAV_EVENT_MOVE_FORWARD_DONE"}
    \cup {t \in {"activity"} \X DOMAIN actQueue : actQueue[t[2]] = "MOVE_DONE"}

\* An accepted move has one trace and an unaccepted one has none: while the
\* activity is Working at most one command or completion is under way, exactly
\* one if the activity is subscribed, and outside Working there is none, so
\* handle_move_done(), which tests nothing, never cuts short another mode.
OneMoveInFlight ==
    /\ \A t, u \in InFlight : t = u
    /\ state # "Working" => InFlight = {}
    /\ state = "Working" /\ subscribed => InFlight # {}

\* "Called at kManualTickInterval while in Manual mode": the periodic tick is
\* enabled in Manual and in no other state, although handle_move_done() and
\* handle_move_forward() change the state without touching the interval.
TickingIffManual == ticking <=> state = "Manual"

\* The post of the move inside handle_message() finds room at once whatever the
\* capacity, so the activity never waits for the service: there is no cycle
\* activity - service - event loop - activity of tasks waiting for each other.
MoveNeverBlocksActivity == actPc = "post" => Len(svcQueue) < SvcQueueLen

\* Manual mode ends by a HALT_MANUAL_NAV and by nothing else: no late MOVE_DONE
\* and no command of another source takes the vehicle out of it.
ManualEndsByHalt ==
    [][state = "Manual" /\ state' # "Manual"
         => Head(actQueue) = "HALT_MANUAL_NAV"]_vars

\* How far the accepted move has come, as MoveCycle sees it.
Phase ==
    IF actPc = "post" \/ svcQueue # <<>> THEN "commanded"
    ELSE IF state = "Working" THEN "moved" ELSE "none"

Cycle == INSTANCE MoveCycle WITH mode <- state, phase <- Phase

\* Activity, service and event loop together implement the move cycle: each
\* accepted move is executed exactly once, and before the activity is Idle
\* again.
ImplementsMoveCycle == Cycle!Spec

\* The safety part of it, which needs no fairness.
SimulatesMoveCycle == Cycle!Init /\ [][Cycle!Next]_(Cycle!vars)

\* With the subscription in place every accepted move comes to its end.
MoveCompletes == (state = "Working" /\ subscribed) ~> (state = "Idle")

\* The event loop task always gets out of on_nav_event(), however full the
\* activity's queue is kept by the other posters.
CallbackReturns == (loopPc = "deliver") ~> (loopPc = "wait")

-----------------------------------------------------------------------------
(* What documents and comments say and the code does not do.               *)

\* docs/architecture.md: event callbacks "must forward to the owner task's queue
\* and return immediately".  on_nav_event() would have to find room always.
CallbackNeverBlocks == loopPc = "deliver" => Len(actQueue) < ActQueueLen

\* project_map.json: after MOVE_FORWARD, "NAV_EVENT_MOVE_FORWARD_DONE via
\* EventBus", MOVE_DONE, "FSM: Working -> Idle", with no condition.
EveryMoveCompletes == (state = "Working") ~> (state = "Idle")

=============================================================================
