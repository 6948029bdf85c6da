----------------------------- MODULE FrameFormat -----------------------------
(***************************************************************************)
(* What goes over a connection: NetworkHeader and payload, as a sequence   *)
(* of cells, one for the msg_id of a header, one for its payload_size and  *)
(* one for each payload byte.  A cell tells what its sender meant by it;   *)
(* receivers look at its value only.                                       *)
(***************************************************************************)
EXTENDS Naturals, Sequences

CellTypes == {"id", "size", "byte"} \X Nat

AnyFrame == [id : Nat, payload : Seq(Nat)]

HeaderSize == 2

Cells(f) ==
    <<<<"id", f.id>>, <<"size", Len(f.payload)>>>>
    \o [i \in 1..Len(f.payload) |-> <<"byte", f.payload[i]>>]

\* The first cell of a frame to come.
NextHeader == <<<<"id", 0>>>>

\* Cut into frames from its first cell, a stream falls where its sender meant.
Aligned(s) ==
    /\ s # <<>> => s[1][1] = "id"
    /\ \A i \in 1..Len(s) :
          LET next == IF s[i][1] = "size" THEN i + s[i][2] + 1 ELSE i + 1 IN
          /\ s[i][1] = "id" /\ i < Len(s) => s[i + 1][1] = "size"
          /\ s[i][1] = "size" => \A j \in (i + 1)..Len(s) : j < next => s[j][1] = "byte"
          /\ s[i][1] = "size" /\ next <= Len(s) => s[next][1] = "id"

\* The size cell of a complete frame, and the frame it belongs to.
CompleteAt(s, i) == i > 1 /\ s[i][1] = "size" /\ i + s[i][2] <= Len(s)

FrameAt(s, i) == [id |-> s[i - 1][2], payload |-> [j \in 1..s[i][2] |-> s[i + j][2]]]

\* The complete frames of a stream, by the number of cells gone through.
FramesUpTo(s) ==
    LET upTo[n \in 0..Len(s)] ==
            IF n = 0 THEN <<>>
            ELSE IF CompleteAt(s, n) THEN Append(upTo[n - 1], FrameAt(s, n))
            ELSE upTo[n - 1]
    IN  upTo

FramesIn(s) == FramesUpTo(s)[Len(s)]

=============================================================================
