------------------------------- MODULE Console -------------------------------
(***************************************************************************)
(* A pilot's console from end to end: frames on a connection, the gateway  *)
(* that hands them to two queues, the way of the joystick (PilotInput) and *)
(* the activity that takes START and HALT and ticks in Manual mode.        *)
(*                                                                         *)
(* The gateway appears as the channel that NetworkGateway implements, a    *)
(* move as the cycle that Navigation implements, ticking as equal to       *)
(* Manual mode, as proved there.                                           *)
(***************************************************************************)
EXTENDS PilotInput

CONSTANTS
    Activity,       \* the reader that ticks: NavigationActivity
    ActQueueLen,    \* capacity of its queue (8 in the code)
    LineMax         \* bound: frames under way

ASSUME ConsoleAssumption ==
    /\ Activity \in Readers
    /\ ActQueueLen \in Nat \ {0}
    /\ LineMax \in Nat

VARIABLES
    line,           \* the frames of the connection, and the one in hand
    reliable,       \* no connection lost and no memory short so far
    actQueue,       \* the activity's queue
    mode,           \* its state_
    moving          \* a MOVE_DONE will come

Frames == {"START_MANUAL_NAV", "HALT_MANUAL_NAV", "JOYSTICK_INPUT"}

consoleVars == <<line, reliable, actQueue, mode, moving>>

allVars == <<vars, consoleVars>>

ConsoleInit ==
    /\ Init
    /\ line = <<>>
    /\ reliable = TRUE
    /\ actQueue = <<>>
    /\ mode = "Idle"
    /\ moving = FALSE

-----------------------------------------------------------------------------
(* The connection and the gateway.                                         *)

\* Inputs that will have a number.
Numbered == sent + Len(SelectSeq(line, LAMBDA f : f = "JOYSTICK_INPUT"))

Send ==
    /\ Len(line) < LineMax
    /\ \E f \in Frames :
          /\ f = "JOYSTICK_INPUT" => Numbered < MaxInputs
          /\ line' = Append(line, f)
    /\ UNCHANGED <<vars, reliable, actQueue, mode, moving>>

\* The connection breaks, and the client comes back on another.
Break ==
    /\ \E n \in 0..Len(line) : line' = SubSeq(line, 1, n)
    /\ reliable' = FALSE
    /\ UNCHANGED <<vars, actQueue, mode, moving>>

HandOver ==
    /\ line # <<>>
    /\ line' = Tail(line)

\* No memory for the payload of a frame.
Forget ==
    /\ HandOver
    /\ reliable' = FALSE
    /\ UNCHANGED <<vars, actQueue, mode, moving>>

Posted == inbox'[Len(inbox')]

\* The two routes of configure_navigation_gateway().
RouteInput ==
    /\ HandOver
    /\ Head(line) = "JOYSTICK_INPUT"
    /\ Post
    /\ IsInput(Posted)
    /\ UNCHANGED <<reliable, actQueue, mode, moving>>

\* Fault variant: a full queue of the activity does not hold the gateway up.
RouteCommandOrDrop ==
    /\ HandOver
    /\ Head(line) # "JOYSTICK_INPUT"
    /\ actQueue' = IF Len(actQueue) < ActQueueLen
                   THEN Append(actQueue, Head(line)) ELSE actQueue
    /\ UNCHANGED <<vars, reliable, mode, moving>>

RouteCommand ==
    /\ HandOver
    /\ Head(line) # "JOYSTICK_INPUT"
    /\ Len(actQueue) < ActQueueLen
    /\ actQueue' = Append(actQueue, Head(line))
    /\ UNCHANGED <<vars, reliable, mode, moving>>

\* Other tasks post what is not an input to the service, and moves to the activity.
PostOther ==
    /\ Numbered < MaxInputs
    /\ Post
    /\ ~IsInput(Posted)
    /\ UNCHANGED consoleVars

PostMove ==
    /\ Len(actQueue) < ActQueueLen
    /\ actQueue' = Append(actQueue, "MOVE_FORWARD")
    /\ UNCHANGED <<vars, line, reliable, mode, moving>>

\* The service and the event loop bring the move to its end.
MoveDone ==
    /\ moving
    /\ Len(actQueue) < ActQueueLen
    /\ actQueue' = Append(actQueue, "MOVE_DONE")
    /\ moving' = FALSE
    /\ UNCHANGED <<vars, line, reliable, mode>>

-----------------------------------------------------------------------------
(* The activity.                                                           *)

\* Fault variant: handle_message() has no case for HALT_MANUAL_NAV.
AfterWithoutHalt(m, msg) ==
    CASE m = "Idle" /\ msg = "START_MANUAL_NAV" -> "Manual"
      [] m = "Idle" /\ msg = "MOVE_FORWARD"     -> "Working"
      [] msg = "MOVE_DONE"                      -> "Idle"
      [] OTHER                                  -> m

\* The state after a message in state m.
After(m, msg) ==
    CASE m = "Idle" /\ msg = "START_MANUAL_NAV"  -> "Manual"
      [] m = "Idle" /\ msg = "MOVE_FORWARD"      -> "Working"
      [] m = "Manual" /\ msg = "HALT_MANUAL_NAV" -> "Idle"
      [] msg = "MOVE_DONE"                       -> "Idle"
      [] OTHER                                   -> m

\* A message is handled between ticks.
Take ==
    /\ pc[Activity] = "idle"
    /\ actQueue # <<>>
    /\ actQueue' = Tail(actQueue)
    /\ mode' = After(mode, Head(actQueue))
    /\ moving' = (moving \/ (mode # "Working" /\ mode' = "Working"))
    /\ UNCHANGED <<vars, line, reliable>>

\* Fault variant: only when the queue is idle.
ManualTickWhenIdle ==
    /\ mode = "Manual"
    /\ actQueue = <<>>
    /\ Tick(Activity)
    /\ UNCHANGED consoleVars

ManualTick ==
    /\ mode = "Manual"
    /\ Tick(Activity)
    /\ UNCHANGED consoleVars

\* The rest of PilotInput: its queue, its mutex, its fields.
Access ==
    /\ \/ Ignore \/ Handle \/ SetField \/ SetReturns
       \/ \E r \in Readers : CopyField(r) \/ GetReturns(r)
       \/ \E t \in Tasks : Lock(t)
    /\ UNCHANGED consoleVars

-----------------------------------------------------------------------------

ConsoleNext ==
    \/ Send \/ Break \/ Forget \/ RouteInput \/ RouteCommand
    \/ PostOther \/ PostMove \/ MoveDone
    \/ Take \/ ManualTick \/ Access

\* The gateway and the event loop wait for queues others fill too.  The activity
\* goes to its queue after every tick, and ticks under any load (TickLoop).
ConsoleFairness ==
    /\ Fairness
    /\ SF_allVars(RouteInput \/ RouteCommand)
    /\ SF_allVars(MoveDone)
    /\ SF_allVars(Take)
    /\ WF_allVars(ManualTick)

ConsoleSpec == ConsoleInit /\ [][ConsoleNext]_allVars /\ ConsoleFairness

-----------------------------------------------------------------------------
(* Properties.                                                             *)

\* Of what PilotInput does not know.
ConsoleTypeOK ==
    /\ TypeOK
    /\ line \in Seq(Frames) /\ Len(line) <= LineMax
    /\ reliable \in BOOLEAN
    /\ actQueue \in Seq({"START_MANUAL_NAV", "HALT_MANUAL_NAV", "MOVE_FORWARD", "MOVE_DONE"})
    /\ Len(actQueue) <= ActQueueLen
    /\ mode \in {"Idle", "Working", "Manual"}
    /\ moving \in BOOLEAN

\* A HALT under way, before or behind anything else.
HaltPending ==
    \/ \E i \in DOMAIN line : line[i] = "HALT_MANUAL_NAV"
    \/ \E i \in DOMAIN actQueue : actQueue[i] = "HALT_MANUAL_NAV"

\* "HALT_MANUAL_NAV -> same path -> FSM: Manual -> Idle": on a connection that holds
\* a HALT always gets through and ends Manual mode, although it waits behind joystick
\* inputs for a queue of another task, and then for room among the commands of others.
HaltStops == HaltPending ~> (mode # "Manual" \/ ~reliable)

\* Until then it is under way at every moment: no step of any task loses a HALT, or
\* overtakes it so that Manual mode outlasts it, but a break or a lack of memory.
HaltKept == [][HaltPending /\ reliable' => HaltPending' \/ mode' # "Manual"]_allVars

\* START and inputs come by different queues and may overtake each other, so that the
\* first ticks can see the stick as it was before.  But every input that has been
\* accepted is soon seen by the activity, or a newer one, if it stays in Manual mode.
StickFollowed ==
    \A n \in 1..MaxInputs :
        (\E i \in DOMAIN inbox : IsInput(inbox[i]) /\ inbox[i].input = n)
            ~> (mode # "Manual" \/ \A f \in Fields : seen[Activity][f] >= n)

=============================================================================
