------------------------------- MODULE Mailbox -------------------------------
(***************************************************************************)
(* What BaseTask promises to the tasks that post to it and to the handler  *)
(* that serves it, with memory, pointers and timeouts left out.            *)
(*                                                                         *)
(* A poster offers some content.  The offer is accepted, and the content   *)
(* joins a bounded FIFO as it was offered, or it is refused, and nothing   *)
(* joins.  The owner handles the accepted contents one at a time and in    *)
(* order, each exactly once.                                               *)
(***************************************************************************)
EXTENDS Naturals, Sequences

CONSTANTS Posters, Nothing, Capacity, Contents

VARIABLES
    offer,          \* what each poster is offering, or Nothing
    answer,         \* TRUE if the poster's last offer was accepted
    box,            \* accepted and not yet taken
    handling        \* what the owner is handling, or Nothing

vars == <<offer, answer, box, handling>>

Init ==
    /\ offer = [p \in Posters |-> Nothing]
    /\ answer = [p \in Posters |-> FALSE]
    /\ box = <<>>
    /\ handling = Nothing

Offer(p) ==
    /\ offer[p] = Nothing
    /\ \E c \in Contents : offer' = [offer EXCEPT ![p] = c]
    /\ UNCHANGED <<answer, box, handling>>

Accept(p) ==
    /\ offer[p] # Nothing
    /\ Len(box) < Capacity
    /\ box' = Append(box, offer[p])
    /\ offer' = [offer EXCEPT ![p] = Nothing]
    /\ answer' = [answer EXCEPT ![p] = TRUE]
    /\ UNCHANGED handling

Refuse(p) ==
    /\ offer[p] # Nothing
    /\ offer' = [offer EXCEPT ![p] = Nothing]
    /\ answer' = [answer EXCEPT ![p] = FALSE]
    /\ UNCHANGED <<box, handling>>

Take ==
    /\ handling = Nothing
    /\ box # <<>>
    /\ handling' = Head(box)
    /\ box' = Tail(box)
    /\ UNCHANGED <<offer, answer>>

Finish ==
    /\ handling # Nothing
    /\ handling' = Nothing
    /\ UNCHANGED <<offer, answer, box>>

Next ==
    \/ \E p \in Posters : Offer(p) \/ Accept(p) \/ Refuse(p)
    \/ Take
    \/ Finish

\* What is accepted is handled, and handling comes to an end.
Spec == Init /\ [][Next]_vars /\ WF_vars(Take) /\ WF_vars(Finish)

=============================================================================
