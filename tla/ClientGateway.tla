---------------------------- MODULE ClientGateway ----------------------------
(***************************************************************************)
(* NetworkClientGateway: a task that encodes the messages of its queue and *)
(* writes the frames to a remote server, connecting when there is need, by *)
(* way of TcpClientLink.  The remote server takes whole frames from each   *)
(* connection.                                                             *)
(*                                                                         *)
(* A connection is named by its socket; a name is used again when neither  *)
(* end has the connection any more.                                        *)
(***************************************************************************)
EXTENDS Naturals, Sequences, FrameFormat

CONSTANTS
    Conns,          \* sockets of the IP stack
    Nil,            \* sock_ = -1
    Messages,       \* what is posted, records [kind, id, payload]
    Nothing,        \* no message
    Encoders,       \* keys <<kind, id>> registered, with an encoder that succeeds
    QueueLen,       \* Config::queue_length
    MaxAddrs,       \* bound: IPv4 addresses a host name has
    WireMax         \* bound: cells the peer's window and the stack take

ASSUME ClientGatewayAssumption ==
    /\ Nil \notin Conns
    /\ Nothing \notin Messages
    /\ QueueLen \in Nat \ {0}
    /\ MaxAddrs \in Nat \ {0}
    /\ WireMax \in Nat
    /\ \A m \in Messages : /\ m.id \in Nat /\ m.payload \in Seq(Nat)
                           /\ HeaderSize + Len(m.payload) <= WireMax

VARIABLES
    inbox,          \* the queue
    pc,             \* where the task is
    msg,            \* the message being handled
    frame,          \* what send() has not yet taken of its frame
    tries,          \* addresses open() has left
    sock,           \* sock_ of the link
    allocated,      \* sockets this end has not closed
    far,            \* connections the remote end has
    wire            \* cells sent and not yet taken by the remote end

linkVars == <<tries, sock, allocated>>
vars == <<inbox, pc, msg, frame, linkVars, far, wire>>

Init ==
    /\ inbox = <<>>
    /\ pc = "wait"
    /\ msg = Nothing
    /\ frame = <<>>
    /\ tries = 0
    /\ sock = Nil
    /\ allocated = {}
    /\ far = {}
    /\ wire = [c \in Conns |-> <<>>]

-----------------------------------------------------------------------------
(* handle_message().                                                       *)

\* Fault variant: room in the queue not tested.
SubmitUnchecked ==
    /\ \E m \in Messages : inbox' = Append(inbox, m)
    /\ UNCHANGED <<pc, msg, frame, linkVars, far, wire>>

\* Another task posts.
Submit ==
    /\ Len(inbox) < QueueLen
    /\ \E m \in Messages : inbox' = Append(inbox, m)
    /\ UNCHANGED <<pc, msg, frame, linkVars, far, wire>>

Encodable(m) == <<m.kind, m.id>> \in Encoders

\* No encoder for this key, or its encode() fails: the message is dropped.
NoEncoder ==
    /\ pc = "wait"
    /\ inbox # <<>>
    /\ ~Encodable(Head(inbox))
    /\ inbox' = Tail(inbox)
    /\ UNCHANGED <<pc, msg, frame, linkVars, far, wire>>

\* Fault variant: no attempt to connect once the link was lost.
EncodeWithoutReopen ==
    /\ pc = "wait"
    /\ inbox # <<>>
    /\ Encodable(Head(inbox))
    /\ inbox' = Tail(inbox)
    /\ \/ /\ sock # Nil
          /\ msg' = Head(inbox)
          /\ frame' = Cells(Head(inbox))
          /\ pc' = "send"
       \/ /\ sock = Nil
          /\ UNCHANGED <<pc, msg, frame>>
    /\ UNCHANGED <<linkVars, far, wire>>

\* ensure_connected(): a link with a socket counts as connected.
EnsureConnected == IF sock # Nil THEN "send" ELSE "socket"

\* The kind is for this end only; id and payload make the frame.
Encode ==
    /\ pc = "wait"
    /\ inbox # <<>>
    /\ Encodable(Head(inbox))
    /\ msg' = Head(inbox)
    /\ inbox' = Tail(inbox)
    /\ frame' = Cells(Head(inbox))
    /\ pc' = EnsureConnected
    /\ UNCHANGED <<linkVars, far, wire>>

\* handle_message() returns.
Return ==
    /\ pc' = "wait"
    /\ msg' = Nothing
    /\ frame' = <<>>

-----------------------------------------------------------------------------
(* TcpClientLink.                                                          *)

\* Fault variant: the link forgets its socket without closing it.
CloseForgetting ==
    /\ sock' = Nil
    /\ tries' = 0
    /\ UNCHANGED allocated

\* close().  What was sent is still on its way.
CloseLink ==
    /\ sock' = Nil
    /\ allocated' = allocated \ {sock}
    /\ tries' = 0

\* No host configured, or no socket: open() and the handler give up.
SocketFails ==
    /\ pc = "socket"
    /\ Return
    /\ UNCHANGED <<inbox, linkVars, far, wire>>

Socket ==
    /\ pc = "socket"
    /\ \E c \in Conns \ (allocated \cup far) :
          /\ sock' = c
          /\ allocated' = allocated \cup {c}
    /\ pc' = "resolve"
    /\ UNCHANGED <<inbox, msg, frame, tries, far, wire>>

\* The name has no IPv4 address, or cannot be resolved.
ResolveFails ==
    /\ pc = "resolve"
    /\ CloseLink
    /\ Return
    /\ UNCHANGED <<inbox, far, wire>>

\* A dotted address is the one address to try.
Resolve ==
    /\ pc = "resolve"
    /\ tries' \in 1..MaxAddrs
    /\ pc' = "connect"
    /\ UNCHANGED <<inbox, msg, frame, sock, allocated, far, wire>>

\* connect() fails: on to the next address with the same socket, or give up.
ConnectFails ==
    /\ pc = "connect"
    /\ \/ /\ tries > 1
          /\ tries' = tries - 1
          /\ UNCHANGED <<pc, msg, frame, sock, allocated>>
       \/ /\ tries = 1
          /\ CloseLink
          /\ Return
    /\ UNCHANGED <<inbox, far, wire>>

Connect ==
    /\ pc = "connect"
    /\ far' = far \cup {sock}
    /\ tries' = 0
    /\ pc' = "send"
    /\ UNCHANGED <<inbox, msg, frame, sock, allocated, wire>>

\* send() waits for room and takes some more; without a remote end what it takes
\* is lost, which it may notice much later or never.
Send ==
    /\ pc = "send"
    /\ \E n \in 1..Len(frame) :
          /\ frame' = SubSeq(frame, n + 1, Len(frame))
          /\ \/ /\ sock \in far
                /\ Len(wire[sock]) + n <= WireMax
                /\ wire' = [wire EXCEPT ![sock] = @ \o SubSeq(frame, 1, n)]
             \/ /\ sock \notin far
                /\ UNCHANGED wire
    /\ UNCHANGED <<inbox, pc, msg, linkVars, far>>

\* write() has returned the size of the frame.
Sent ==
    /\ pc = "send"
    /\ frame = <<>>
    /\ Return
    /\ UNCHANGED <<inbox, linkVars, far, wire>>

\* Fault variant: the result of write() not looked at.
SendFailsUnnoticed ==
    /\ pc = "send"
    /\ Return
    /\ UNCHANGED <<inbox, linkVars, far, wire>>

\* Fault variant: the frame sent again over a new connection.
SendFailsAgain ==
    /\ pc = "send"
    /\ CloseLink
    /\ pc' = "socket"
    /\ frame' = Cells(msg)
    /\ UNCHANGED <<inbox, msg, far, wire>>

\* write() has returned less, or -1: the link is closed.  Even all of the frame
\* may be on its way by then.
SendFails ==
    /\ pc = "send"
    /\ CloseLink
    /\ Return
    /\ UNCHANGED <<inbox, far, wire>>

-----------------------------------------------------------------------------
(* The remote end.                                                         *)

\* It reads a frame: a header and as many bytes as the header says.
Take(c) ==
    /\ Len(wire[c]) >= HeaderSize
    /\ HeaderSize + wire[c][2][2] <= Len(wire[c])
    /\ wire' = [wire EXCEPT ![c] = SubSeq(@, HeaderSize + @[2][2] + 1, Len(@))]
    /\ UNCHANGED <<inbox, pc, msg, frame, linkVars, far>>

\* It closes the connection or cannot be reached any more.
Gone(c) ==
    /\ c \in far
    /\ far' = far \ {c}
    /\ wire' = [wire EXCEPT ![c] = <<>>]
    /\ UNCHANGED <<inbox, pc, msg, frame, linkVars>>

-----------------------------------------------------------------------------

Handle ==
    \/ NoEncoder \/ Encode
    \/ SocketFails \/ Socket \/ ResolveFails \/ Resolve \/ ConnectFails \/ Connect
    \/ Send \/ Sent \/ SendFails

Next ==
    \/ Submit
    \/ Handle
    \/ \E c \in Conns : Take(c) \/ Gone(c)

\* The task runs when it can, system calls return, a remote end that is there
\* takes frames, one whose connection was closed comes to know, and whoever keeps
\* writing to one that is gone is told at last.
Fairness ==
    /\ WF_vars(Handle)
    /\ SF_vars(SendFails /\ sock \notin far)
    /\ \A c \in Conns : WF_vars(Take(c)) /\ WF_vars(Gone(c) /\ c \notin allocated)

Spec == Init /\ [][Next]_vars /\ Fairness

-----------------------------------------------------------------------------
(* Properties.                                                             *)

TypeOK ==
    /\ inbox \in Seq(Messages) /\ Len(inbox) <= QueueLen
    /\ pc \in {"wait", "socket", "resolve", "connect", "send"}
    /\ msg \in Messages \cup {Nothing}
    /\ frame \in Seq(CellTypes)
    /\ tries \in 0..MaxAddrs
    /\ sock \in Conns \cup {Nil}
    /\ allocated \subseteq Conns
    /\ far \subseteq Conns
    /\ wire \in [Conns -> Seq(CellTypes)]

\* A connection carries frames end to end, and the one in use is where a header
\* can follow: no short write, failure or reconnection leaves a part of a frame
\* before another frame.
InSync ==
    \A c \in Conns :
        Aligned(wire[c] \o (IF c = sock /\ c \in far THEN frame \o NextHeader ELSE <<>>))

\* The link has the one socket there is, through every path of open() and close():
\* none is left behind, and the handler does not return with a socket, which from
\* then on would count as a connection, whose addresses were never all tried.
SocketsAccounted ==
    /\ allocated = {sock} \ {Nil}
    /\ pc = "wait" /\ sock # Nil => tries = 0

\* The message whose frame is not yet written.
InHand == IF frame # <<>> THEN msg ELSE Nothing
Lines == [c \in Conns |-> FramesIn(wire[c])]

Line == INSTANCE OutboundLine WITH
    Nobody   <- Nil,
    Capacity <- QueueLen,
    FrameOf  <- LAMBDA m : [id |-> m.id, payload |-> m.payload],
    box      <- inbox,
    hand     <- InHand,
    live     <- IF pc \in {"wait", "send"} THEN sock ELSE Nil,
    line     <- Lines

\* Encoding, lazy connection and writing in pieces implement the line: frames in
\* the order of the posts, whole, unchanged and at most once.
ImplementsOutboundLine == Line!Spec

\* The network lets the gateway down.
Trouble ==
    \/ SocketFails \/ ResolveFails \/ ConnectFails
    \/ SendFails /\ sock \in far
    \/ \E c \in allocated : Gone(c)

\* From some time on it does not any more.
FairWeather == <>[][~Trouble]_vars

TakesNext == inbox # <<>> /\ inbox' = Tail(inbox)

\* A message that has an encoder is given up, and no connection has its frame.
Loses ==
    \/ TakesNext /\ Encodable(Head(inbox)) /\ InHand' # Head(inbox)
    \/ InHand # Nothing /\ InHand' = Nothing /\ Lines' = Lines

CaughtUp == inbox = <<>> /\ InHand = Nothing

\* project_map.json: "lazy reconnect on link drop".  Whatever has become of links
\* before, once the network is good only so many messages are lost, those that find
\* the link still set to a connection that is gone; from then on each one taken gets
\* through, and as long as there are any they are taken.
Recovers ==
    FairWeather =>
        /\ <>[][~Loses]_vars
        /\ []<>CaughtUp \/ []<><<TakesNext>>_vars

=============================================================================
