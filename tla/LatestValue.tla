----------------------------- MODULE LatestValue -----------------------------
(***************************************************************************)
(* What shared state promises: one value that moves on to newer inputs     *)
(* only, and readers that get the value as it is at some moment of their   *)
(* read, all of its fields from the same input.                            *)
(***************************************************************************)
EXTENDS Naturals

CONSTANTS Readers, Fields

VARIABLES
    value,          \* number of the input the value is from
    seen            \* what each reader read last, field by field

vars == <<value, seen>>

Whole(n) == [f \in Fields |-> n]

Init ==
    /\ value = 0
    /\ seen = [r \in Readers |-> Whole(0)]

Write ==
    /\ value' > value
    /\ UNCHANGED seen

Read(r) ==
    /\ seen' = [seen EXCEPT ![r] = Whole(value)]
    /\ UNCHANGED value

Next == Write \/ \E r \in Readers : Read(r)

Spec == Init /\ [][Next]_vars

=============================================================================
