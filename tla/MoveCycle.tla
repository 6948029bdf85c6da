----------------------------- MODULE MoveCycle ------------------------------
(***************************************************************************)
(* What the navigation components promise to whoever commands them, with   *)
(* tasks, queues and the event bus left out.                               *)
(*                                                                         *)
(* The vehicle is in one of three modes.  A MoveForward accepted in Idle   *)
(* puts it in Working; the move is executed exactly once (the position     *)
(* makes one step) and only after that may the vehicle be Idle again.      *)
(* Manual is entered from Idle and left to Idle, and the position never    *)
(* moves outside Working.                                                  *)
(***************************************************************************)
EXTENDS Naturals

CONSTANT XMax       \* the largest position a float can be stepped to

VARIABLES
    mode,           \* "Idle", "Working" or "Manual"
    x,              \* the position, in whole units
    phase           \* how far the accepted move has come

vars == <<mode, x, phase>>

\* One unit forward: adding 1.0f stops having an effect at 2^24 (XMax).
OneUnit(v) == IF v < XMax THEN v + 1 ELSE v

Init ==
    /\ mode = "Idle"
    /\ x = 0
    /\ phase = "none"

AcceptMove ==
    /\ mode = "Idle"
    /\ mode' = "Working"
    /\ phase' = "commanded"
    /\ UNCHANGED x

ExecuteMove ==
    /\ phase = "commanded"
    /\ x' = OneUnit(x)
    /\ phase' = "moved"
    /\ UNCHANGED mode

CompleteMove ==
    /\ phase = "moved"
    /\ mode' = "Idle"
    /\ phase' = "none"
    /\ UNCHANGED x

EnterManual ==
    /\ mode = "Idle"
    /\ mode' = "Manual"
    /\ UNCHANGED <<x, phase>>

LeaveManual ==
    /\ mode = "Manual"
    /\ mode' = "Idle"
    /\ UNCHANGED <<x, phase>>

Next ==
    \/ AcceptMove
    \/ ExecuteMove
    \/ CompleteMove
    \/ EnterManual
    \/ LeaveManual

\* An accepted move is always executed.  Its completion is not promised here:
\* it depends on the activity's subscription to the completion event.
Spec == Init /\ [][Next]_vars /\ WF_vars(ExecuteMove)

=============================================================================
