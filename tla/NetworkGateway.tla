--------------------------- MODULE NetworkGateway ---------------------------
(***************************************************************************)
(* NetworkGateway::run(): the task that accepts one client after another,  *)
(* cuts the byte stream into frames, validates them and posts them to the  *)
(* tasks the routing table names.  TcpServer and TcpSessionLink appear as  *)
(* what run() sees of them: accept, recv, close.                           *)
(*                                                                         *)
(* recv returns some of the cells that have arrived, so a frame comes in   *)
(* any number of pieces.                                                   *)
(*                                                                         *)
(* Out of this module: stop(), which nothing in the repository calls while *)
(* the gateway runs, and time.                                             *)
(***************************************************************************)
EXTENDS Naturals, Sequences, FrameFormat

CONSTANTS
    Peers,          \* TCP connections that exist at a time
    Nobody,         \* no connection
    Frames,         \* frames clients send, records [id, payload]
    Decoders,       \* msg_id -> the payload sizes accepted, [min, max]
    Routes,         \* msg_id -> task
    Tasks,          \* tasks with an inbound queue
    QueueLen,       \* Config::queue_length of each task
    MaxPayload,     \* Config::max_payload_size
    Window          \* bound: cells under way on each connection

ASSUME NetworkGatewayAssumption ==
    /\ Nobody \notin Peers
    /\ MaxPayload \in Nat
    /\ Window \in [Peers -> Nat \ {0}]
    /\ Frames \subseteq AnyFrame
    /\ \A i \in DOMAIN Routes : Routes[i] \in Tasks
    /\ \A t \in Tasks : QueueLen[t] \in Nat \ {0}

VARIABLES
    open,           \* connections whose client end is open and in reach
    ended,          \* connections of which the IP stack knows they are over
    unsent,         \* cells of the frame a client is writing
    wire,           \* cells sent and not yet received
    backlog,        \* the connection that waits for accept()
    cur,            \* the connection served
    pc,             \* where run() is
    hdr,            \* cells read into header
    payload,        \* cells read into rx_buffer
    inbox,          \* the tasks' queues
    short           \* pvPortMalloc finds no memory

peerVars == <<open, ended, unsent, wire, backlog>>
vars == <<peerVars, cur, pc, hdr, payload, inbox, short>>

Init ==
    /\ open = {}
    /\ ended = {}
    /\ unsent = [p \in Peers |-> <<>>]
    /\ wire = [p \in Peers |-> <<>>]
    /\ backlog = Nobody
    /\ cur = Nobody
    /\ pc = "accept"
    /\ hdr = <<>>
    /\ payload = <<>>
    /\ inbox = [t \in Tasks |-> <<>>]
    /\ short = FALSE

-----------------------------------------------------------------------------
(* Clients.                                                                *)

\* listen(..., 1) keeps one connection waiting.
Connect(p) ==
    /\ p \notin open \cup {cur, backlog}
    /\ backlog = Nobody
    /\ backlog' = p
    /\ open' = open \cup {p}
    /\ UNCHANGED <<ended, unsent, wire, cur, pc, hdr, payload, inbox, short>>

\* A client writes a frame, or some more of one, as far as its window allows.
Write(p) ==
    /\ p \in open
    /\ \E out \in IF unsent[p] = <<>> THEN {Cells(f) : f \in Frames} ELSE {unsent[p]} :
       \E n \in 1..Len(out) :
          /\ Len(wire[p]) + n <= Window[p]
          /\ wire' = [wire EXCEPT ![p] = @ \o SubSeq(out, 1, n)]
          /\ unsent' = [unsent EXCEPT ![p] = SubSeq(out, n + 1, Len(out))]
    /\ UNCHANGED <<open, ended, backlog, cur, pc, hdr, payload, inbox, short>>

\* A client closes its end, resets it, or drops out of reach in silence; what is
\* on the way may get lost.
Break(p) ==
    /\ p \in open
    /\ open' = open \ {p}
    /\ unsent' = [unsent EXCEPT ![p] = <<>>]
    /\ \E n \in 0..Len(wire[p]) : wire' = [wire EXCEPT ![p] = SubSeq(@, 1, n)]
    /\ UNCHANGED <<ended, backlog, cur, pc, hdr, payload, inbox, short>>

\* FIN or RST arrives, and only that: nothing is sent to the client and no
\* keepalive is set, so the end of one that fell silent is never noticed.
ReportEnd(p) ==
    /\ p \in {cur, backlog} \ (open \cup ended)
    /\ ended' = ended \cup {p}
    /\ UNCHANGED <<open, unsent, wire, backlog, cur, pc, hdr, payload, inbox, short>>

-----------------------------------------------------------------------------
(* Accepting and closing.                                                  *)

Accept ==
    /\ pc = "accept"
    /\ backlog # Nobody
    /\ cur' = backlog
    /\ backlog' = Nobody
    /\ pc' = "header"
    /\ UNCHANGED <<open, ended, unsent, wire, hdr, payload, inbox, short>>

\* acceptConnection() gives no link, among others when the connection is over.
AcceptFails ==
    /\ pc = "accept"
    /\ pc' = "delay"
    /\ \/ UNCHANGED <<ended, wire, backlog>>
       \/ /\ backlog \in ended
          /\ ended' = ended \ {backlog}
          /\ backlog' = Nobody
          /\ wire' = [wire EXCEPT ![backlog] = <<>>]
    /\ UNCHANGED <<open, unsent, cur, hdr, payload, inbox, short>>

\* vTaskDelay of 50 ms, then the next attempt.
Delay ==
    /\ pc = "delay"
    /\ pc' = "accept"
    /\ UNCHANGED <<peerVars, cur, hdr, payload, inbox, short>>

\* link->close(): nothing more of this connection is read.
Close ==
    /\ open' = open \ {cur}
    /\ ended' = ended \ {cur}
    /\ unsent' = [unsent EXCEPT ![cur] = <<>>]
    /\ wire' = [wire EXCEPT ![cur] = <<>>]
    /\ cur' = Nobody
    /\ pc' = "accept"
    /\ hdr' = <<>>
    /\ payload' = <<>>
    /\ UNCHANGED <<backlog, inbox, short>>

-----------------------------------------------------------------------------
(* Reading a frame.                                                        *)

\* One recv() of read_exact(): n cells of the len wanted, appended to buf.
Recv(buf, len, n) ==
    /\ n \in 1..Len(wire[cur])
    /\ Len(buf) + n <= len
    /\ wire' = [wire EXCEPT ![cur] = SubSeq(@, n + 1, Len(@))]

ReadHeader ==
    /\ pc = "header"
    /\ \E n \in 1..HeaderSize :
          /\ Recv(hdr, HeaderSize, n)
          /\ hdr' = hdr \o SubSeq(wire[cur], 1, n)
    /\ UNCHANGED <<open, ended, unsent, backlog, cur, pc, payload, inbox, short>>

msgId == hdr[1][2]
payloadSize == hdr[2][2]

\* Fault variant: the limit on the payload size not tested.
HeaderReadUnlimited ==
    /\ pc = "header"
    /\ Len(hdr) = HeaderSize
    /\ pc' = "payload"
    /\ UNCHANGED <<peerVars, cur, hdr, payload, inbox, short>>

\* The header is there: a payload too large for rx_buffer ends the session.
HeaderRead ==
    /\ pc = "header"
    /\ Len(hdr) = HeaderSize
    /\ \/ payloadSize > MaxPayload /\ Close
       \/ /\ payloadSize <= MaxPayload
          /\ pc' = "payload"
          /\ UNCHANGED <<peerVars, cur, hdr, payload, inbox, short>>

ReadPayload ==
    /\ pc = "payload"
    /\ \E n \in 1..payloadSize :
          /\ Recv(payload, payloadSize, n)
          /\ payload' = payload \o SubSeq(wire[cur], 1, n)
    /\ UNCHANGED <<open, ended, unsent, backlog, cur, pc, hdr, inbox, short>>

\* Fault variant: a return value of 0 taken for nothing to read yet.
ReadFailsUnnoticed ==
    /\ pc \in {"header", "payload"}
    /\ wire[cur] = <<>>
    /\ cur \in ended
    /\ UNCHANGED vars

\* Fault variant: less than was asked for taken for the end of the connection.
ReadFailsShort ==
    /\ \/ pc = "header" /\ hdr # <<>> /\ Len(hdr) < HeaderSize
       \/ pc = "payload" /\ payload # <<>> /\ Len(payload) < payloadSize
    /\ Close

\* read_exact() wants more, recv() returns 0 or an error: the session is over.  Of a
\* connection that is not known to be over, recv() waits for ever.
ReadFails ==
    /\ \/ pc = "header" /\ Len(hdr) < HeaderSize
       \/ pc = "payload" /\ Len(payload) < payloadSize
    /\ wire[cur] = <<>>
    /\ cur \in ended
    /\ Close

-----------------------------------------------------------------------------
(* Dispatching it.                                                         *)

HasDecoder(id) == id \in DOMAIN Decoders

\* A fixed size is a range of one size.
Decodes(id, size) == Decoders[id].min <= size /\ size <= Decoders[id].max

HasRoute(id) == id \in DOMAIN Routes

\* The frame will be dispatched.
Valid(id, size) ==
    /\ size <= MaxPayload
    /\ HasDecoder(id)
    /\ Decodes(id, size)
    /\ HasRoute(id)

\* On to the next header.
Continue ==
    /\ pc' = "header"
    /\ hdr' = <<>>
    /\ payload' = <<>>
    /\ UNCHANGED <<peerVars, cur, short>>

\* Fault variant: unknown ids and sizes skipped before their payload is read.
IgnoreAtOnce ==
    /\ pc = "payload"
    /\ ~Valid(msgId, payloadSize)
    /\ Continue
    /\ UNCHANGED inbox

\* Unknown msg_id, decoder refuses, no route: the frame is passed over.
Ignore ==
    /\ pc = "payload"
    /\ Len(payload) = payloadSize
    /\ ~Valid(msgId, payloadSize)
    /\ Continue
    /\ UNCHANGED inbox

\* dispatch_decoded(): post_message() copies the payload ...
Copy ==
    /\ pc = "payload"
    /\ Len(payload) = payloadSize
    /\ Valid(msgId, payloadSize)
    /\ short => payloadSize = 0
    /\ pc' = "post"
    /\ UNCHANGED <<peerVars, cur, hdr, payload, inbox, short>>

\* ... or finds no memory, and the message is dropped ...
CopyFails ==
    /\ short
    /\ pc = "payload"
    /\ payloadSize > 0
    /\ Len(payload) = payloadSize
    /\ Valid(msgId, payloadSize)
    /\ Continue
    /\ UNCHANGED inbox

Message == [id |-> msgId, payload |-> [i \in DOMAIN payload |-> payload[i][2]]]

\* ... and waits with portMAX_DELAY until the queue of the target has room.
Post ==
    /\ pc = "post"
    /\ LET t == Routes[msgId] IN
          /\ Len(inbox[t]) < QueueLen[t]
          /\ inbox' = [inbox EXCEPT ![t] = Append(@, Message)]
    /\ Continue

\* A target task receives.
Take(t) ==
    /\ inbox[t] # <<>>
    /\ inbox' = [inbox EXCEPT ![t] = Tail(@)]
    /\ UNCHANGED <<peerVars, cur, pc, hdr, payload, short>>

\* The rest of the program takes memory and gives it back.
MemoryChanges ==
    /\ short' = ~short
    /\ UNCHANGED <<peerVars, cur, pc, hdr, payload, inbox>>

-----------------------------------------------------------------------------

Session ==
    ReadHeader \/ HeaderRead \/ ReadPayload \/ ReadFails \/ Ignore \/ Copy \/ CopyFails

Next ==
    \/ \E p \in Peers : Connect(p) \/ Write(p) \/ Break(p) \/ ReportEnd(p)
    \/ Accept \/ AcceptFails \/ Delay
    \/ Session
    \/ Post
    \/ \E t \in Tasks : Take(t)
    \/ MemoryChanges

\* The gateway task runs when it can, and its targets keep receiving: none of
\* their handlers waits for the gateway.  (Other posters of the same queue are
\* in Navigation.)  Clients and the network owe nothing: a client may stop in the
\* middle of a frame and stay connected, the end of a connection may never be
\* reported, and no client need ever come.
Fairness ==
    /\ WF_vars(Session)
    /\ WF_vars(Post)
    /\ \A t \in Tasks : WF_vars(Take(t))

Spec == Init /\ [][Next]_vars /\ Fairness

-----------------------------------------------------------------------------
(* Properties.                                                             *)

TypeOK ==
    /\ open \subseteq Peers /\ ended \subseteq Peers
    /\ unsent \in [Peers -> Seq(CellTypes)]
    /\ wire \in [Peers -> Seq(CellTypes)]
    /\ backlog \in Peers \cup {Nobody}
    /\ cur \in Peers \cup {Nobody}
    /\ pc \in {"accept", "delay", "header", "payload", "post"}
    /\ hdr \in Seq(CellTypes) /\ Len(hdr) <= HeaderSize
    /\ payload \in Seq(CellTypes) /\ Len(payload) <= MaxPayload
    /\ inbox \in [Tasks -> Seq(AnyFrame)]
    /\ \A t \in Tasks : Len(inbox[t]) <= QueueLen[t]

\* What is left of the stream of p from the first cell of the frame in hand.
Stream(p) == (IF p = cur THEN hdr \o payload ELSE <<>>) \o wire[p]

\* The gateway never takes payload for a header or a header for payload: however
\* recv() splits the stream, whichever frames are ignored or dropped, and
\* wherever connections break.
InSync == \A p \in Peers : Aligned(Stream(p) \o unsent[p])

Accepted(f) == Valid(f.id, Len(f.payload))
Oversize(f) == Len(f.payload) > MaxPayload
TargetOf(f) == Routes[f.id]

Channel == INSTANCE FrameChannel WITH
    Accepts <- Accepted,
    Refuses <- Oversize,
    Target  <- TargetOf,
    begun   <- [p \in Peers |-> FramesIn(Stream(p) \o unsent[p])],
    line    <- [p \in Peers |-> FramesIn(Stream(p))],
    serving <- cur

\* Bytes, partial reads and reconnections implement the channel: of each
\* connection the routed frames arrive in order, once, unchanged and at the right
\* task.  A connection that holds loses none of them, except for lack of memory
\* and behind a frame too large for rx_buffer; one that breaks loses the end of
\* what is under way, and what has come is still handed over before the session
\* ends.  Frames keep moving while the target's queue keeps getting room.
ImplementsFrameChannel == Channel!Spec

\* The safety part of it, which needs no fairness.
SimulatesFrameChannel == Channel!Init /\ [][Channel!Next]_(Channel!vars)

\* When the client has closed or reset its connection, with a frame half sent or
\* not, with queues full and frames still to read, the session ends and the gateway
\* is back at accept() for the next client.  (A client that falls silent without a
\* FIN or RST keeps the gateway for ever.)
SessionEnds == \A p \in Peers : (cur = p /\ p \in ended) ~> (cur # p)

-----------------------------------------------------------------------------
(* What a comment says and the code does not do.                           *)

\* network_gateway.cpp, after dispatch_decoded(): "queue full / allocation failed.
\* For now just drop the message."  The gateway would never wait for a queue.
FullQueueDrops == pc = "post" => Len(inbox[Routes[msgId]]) < QueueLen[Routes[msgId]]

=============================================================================
