---------------------------- MODULE FrameChannel ----------------------------
(***************************************************************************)
(* What the inbound gateway promises, with no bytes in sight: each peer    *)
(* has a line of frames under way; one peer is served at a time; the first *)
(* frame of its line goes to the task its id is routed to, if it is of a   *)
(* kind the gateway accepts, and is discarded otherwise.  Frames never     *)
(* overtake each other, are never handed over twice and never come to the  *)
(* wrong task.  A frame of another kind apart, one gets lost                *)
(*   - when its peer's connection breaks while it is under way (Break), or *)
(*     has broken before the peer was served (Abandon),                    *)
(*   - behind a frame too large to be read, at which the gateway closes    *)
(*     the connection (Refuse),                                            *)
(*   - for lack of memory (Move),                                          *)
(* and at no other time.                                                   *)
(***************************************************************************)
EXTENDS Naturals, Sequences

CONSTANTS
    Peers,          \* clients of the server
    Nobody,         \* no peer served
    Frames,         \* frames peers send
    Tasks,          \* tasks that are the target of a route
    QueueLen,       \* capacity of the queue of each
    Accepts(_),     \* the frame is one the gateway hands over
    Refuses(_),     \* it is too large to be read
    Target(_)       \* the task it goes to

VARIABLES
    open,           \* peers whose connection holds
    begun,          \* frames of each peer on their way, with one it is writing
    line,           \* those of them that are complete
    serving,        \* the peer served
    inbox,          \* the tasks' queues
    short           \* no memory to hand a frame over

vars == <<open, begun, line, serving, inbox, short>>

Init ==
    /\ open = {}
    /\ begun = [p \in Peers |-> <<>>]
    /\ line = [p \in Peers |-> <<>>]
    /\ serving = Nobody
    /\ inbox = [t \in Tasks |-> <<>>]
    /\ short = FALSE

Connect(p) ==
    /\ p \notin open
    /\ p # serving
    /\ begun[p] = <<>>
    /\ open' = open \cup {p}
    /\ UNCHANGED <<begun, line, serving, inbox, short>>

\* A peer begins a frame, and may come to its end at once.
Begin(p) ==
    /\ p \in open
    /\ begun[p] = line[p]
    /\ begun' \in {[begun EXCEPT ![p] = Append(@, f)] : f \in Frames}
    /\ line' \in {line, [line EXCEPT ![p] = begun'[p]]}
    /\ UNCHANGED <<open, serving, inbox, short>>

Finish(p) ==
    /\ p \in open
    /\ line[p] # begun[p]
    /\ line' = [line EXCEPT ![p] = begun[p]]
    /\ UNCHANGED <<open, begun, serving, inbox, short>>

\* The connection breaks: only some frames at the front of the line get through.
Break(p) ==
    /\ p \in open
    /\ open' = open \ {p}
    /\ \E n \in 0..Len(line[p]) : line' = [line EXCEPT ![p] = SubSeq(@, 1, n)]
    /\ begun' = [begun EXCEPT ![p] = line'[p]]
    /\ UNCHANGED <<serving, inbox, short>>

\* It broke before the peer was served, and nothing of it is left.
Abandon(p) ==
    /\ p \notin open
    /\ p # serving
    /\ begun' = [begun EXCEPT ![p] = <<>>]
    /\ line' = [line EXCEPT ![p] = <<>>]
    /\ UNCHANGED <<open, serving, inbox, short>>

Serve(p) ==
    /\ serving = Nobody
    /\ serving' = p
    /\ UNCHANGED <<open, begun, line, inbox, short>>

\* The first frame is handed over, forgotten for lack of memory, or discarded.
Move ==
    /\ serving # Nobody
    /\ line[serving] # <<>>
    /\ LET first == Head(line[serving])
           target == Target(first)
       IN  /\ ~Refuses(first)
           /\ \/ /\ Accepts(first)
                 /\ Len(inbox[target]) < QueueLen[target]
                 /\ inbox' = [inbox EXCEPT ![target] = Append(@, first)]
              \/ /\ Accepts(first)
                 /\ short
                 /\ UNCHANGED inbox
              \/ /\ ~Accepts(first)
                 /\ UNCHANGED inbox
    /\ UNCHANGED <<open, serving, short>>
    /\ line' = [line EXCEPT ![serving] = Tail(@)]
    /\ begun' = [begun EXCEPT ![serving] = Tail(@)]

\* The first frame is too large: the connection is closed, though it holds.
Refuse ==
    /\ serving # Nobody
    /\ begun[serving] # <<>>
    /\ Refuses(Head(begun[serving]))
    /\ open' = open \ {serving}
    /\ begun' = [begun EXCEPT ![serving] = <<>>]
    /\ line' = [line EXCEPT ![serving] = <<>>]
    /\ serving' = Nobody
    /\ UNCHANGED <<inbox, short>>

\* A broken connection is closed when its line is used up.
Dismiss ==
    /\ serving # Nobody
    /\ serving \notin open
    /\ begun[serving] = <<>>
    /\ serving' = Nobody
    /\ UNCHANGED <<open, begun, line, inbox, short>>

Take(t) ==
    /\ inbox[t] # <<>>
    /\ inbox' = [inbox EXCEPT ![t] = Tail(@)]
    /\ UNCHANGED <<open, begun, line, serving, short>>

MemoryChanges ==
    /\ short' = ~short
    /\ UNCHANGED <<open, begun, line, serving, inbox>>

Next ==
    \/ \E p \in Peers :
          Connect(p) \/ Begin(p) \/ Finish(p) \/ Break(p) \/ Abandon(p) \/ Serve(p)
    \/ Move \/ Refuse \/ Dismiss
    \/ \E t \in Tasks : Take(t)
    \/ MemoryChanges

\* A frame that has come is dealt with.
Advance == Move \/ (Refuse /\ line[serving] # <<>>)

\* The line of the peer served moves as long as the target has room; nothing is
\* promised of a frame that does not come to its end.
Spec == Init /\ [][Next]_vars /\ WF_vars(Advance)

=============================================================================
