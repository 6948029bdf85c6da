---------------------------- MODULE OutboundLine ----------------------------
(***************************************************************************)
(* What the outbound gateway promises: messages are taken one at a time    *)
(* and in order; each is put as one whole frame on the line in use, at     *)
(* most once, or is lost; a line that was hung up gets no more frames.     *)
(***************************************************************************)
EXTENDS Naturals, Sequences

CONSTANTS
    Conns, Nobody, Messages, Nothing, Capacity,
    FrameOf(_)      \* the frame that carries a message

VARIABLES
    box,            \* messages accepted and not yet taken
    hand,           \* the message in hand, or Nothing
    live,           \* the line in use, or Nobody
    line            \* the frames on each line that the remote end will find

vars == <<box, hand, live, line>>

Init ==
    /\ box = <<>>
    /\ hand = Nothing
    /\ live = Nobody
    /\ line = [c \in Conns |-> <<>>]

Submit ==
    /\ Len(box) < Capacity
    /\ \E m \in Messages : box' = Append(box, m)
    /\ UNCHANGED <<hand, live, line>>

\* Some messages are not for the line.
Skip ==
    /\ hand = Nothing
    /\ box # <<>>
    /\ box' = Tail(box)
    /\ UNCHANGED <<hand, live, line>>

Take ==
    /\ hand = Nothing
    /\ box # <<>>
    /\ hand' = Head(box)
    /\ box' = Tail(box)
    /\ UNCHANGED <<live, line>>

\* A new line, when there is something to send.
Dial(c) ==
    /\ hand # Nothing
    /\ live = Nobody
    /\ line[c] = <<>>
    /\ live' = c
    /\ UNCHANGED <<box, hand, line>>

Put ==
    /\ hand # Nothing
    /\ live # Nobody
    /\ line' = [line EXCEPT ![live] = Append(@, FrameOf(hand))]
    /\ hand' = Nothing
    /\ UNCHANGED <<box, live>>

Discard ==
    /\ hand # Nothing
    /\ hand' = Nothing
    /\ UNCHANGED <<box, live, line>>

HangUp ==
    /\ live # Nobody
    /\ live' = Nobody
    /\ hand' \in {hand, Nothing}
    /\ UNCHANGED <<box, line>>

\* The remote end gets a frame, or is gone with what was on the way to it.
Fetch(c) ==
    /\ line[c] # <<>>
    /\ line' = [line EXCEPT ![c] = Tail(@)]
    /\ UNCHANGED <<box, hand, live>>

Cut(c) ==
    /\ line' = [line EXCEPT ![c] = <<>>]
    /\ UNCHANGED <<box, hand, live>>

Next ==
    \/ Submit \/ Skip \/ Take
    \/ Put \/ Discard \/ HangUp
    \/ \E c \in Conns : Dial(c) \/ Fetch(c) \/ Cut(c)

Spec == Init /\ [][Next]_vars

=============================================================================
