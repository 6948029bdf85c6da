------------------------ MODULE NetworkGatewayProofs ------------------------
(***************************************************************************)
(* Safety of NetworkGateway for any frames, decoders, routes and queue     *)
(* lengths and any number of connections: type correctness, that the       *)
(* gateway never takes payload for a header, and that each of its steps is *)
(* one of the frame channel or none.                                       *)
(***************************************************************************)
EXTENDS NetworkGateway, FrameLemmas

-----------------------------------------------------------------------------
(* Type correctness.                                                       *)

\* Where run() is decides whose connection it reads, what it has read of the
\* frame in hand and that the payload fits the buffer; nothing is under way on
\* a connection that is neither served nor waiting, and none that holds is known
\* to be over.
Place ==
    /\ cur # Nobody <=> pc \in {"header", "payload", "post"}
    /\ cur # Nobody => backlog # cur
    /\ open \subseteq {cur, backlog}
    /\ ended \subseteq {cur, backlog} \ open
    /\ \A p \in Peers : p \notin {cur, backlog} => wire[p] = <<>>
    /\ \A p \in Peers : p \notin open => unsent[p] = <<>>
    /\ pc \in {"accept", "delay"} => hdr = <<>>
    /\ pc \in {"accept", "delay", "header"} => payload = <<>>
    /\ pc \in {"payload", "post"} =>
           /\ Len(hdr) = HeaderSize
           /\ payloadSize <= MaxPayload
           /\ Len(payload) <= payloadSize
    /\ pc = "post" =>
           /\ Len(payload) = payloadSize
           /\ Valid(msgId, payloadSize)

IInv == TypeOK /\ Place

LEMMA InitInv == Init => IInv
<1> SUFFICES ASSUME Init PROVE IInv
    OBVIOUS
<1>1. /\ <<>> \in Seq(CellTypes) /\ <<>> \in Seq(AnyFrame)
      /\ Len(<<>>) = 0
    BY EmptySeq
<1>2. TypeOK
    BY <1>1, NetworkGatewayAssumption DEF Init, TypeOK, HeaderSize
<1>3. Place
    BY DEF Init, Place
<1> QED
    BY <1>2, <1>3 DEF IInv

\* What the header says is numbers.
LEMMA HeaderNumbers ==
    ASSUME TypeOK, Len(hdr) = HeaderSize
    PROVE  msgId \in Nat /\ payloadSize \in Nat
<1>1. 1 \in 1..Len(hdr) /\ 2 \in 1..Len(hdr) /\ hdr \in Seq(CellTypes)
    BY DEF TypeOK, HeaderSize
<1> QED
    BY <1>1, CellNumber DEF msgId, payloadSize

\* The message made of a frame read is a frame, as long as the header says.
LEMMA MessageType ==
    ASSUME TypeOK, Len(hdr) = HeaderSize, Len(payload) = payloadSize
    PROVE  /\ Message \in AnyFrame
           /\ Message.id = msgId
           /\ Len(Message.payload) = payloadSize
<1>1. msgId \in Nat /\ payloadSize \in Nat
    BY HeaderNumbers
<1>2. payload \in Seq(CellTypes) /\ DOMAIN payload = 1..payloadSize
    BY LenProperties DEF TypeOK
<1>3. \A i \in 1..payloadSize : payload[i][2] \in Nat
    BY <1>2, CellNumber
<1> DEFINE bytes == [i \in DOMAIN payload |-> payload[i][2]]
<1>4. bytes \in Seq(Nat) /\ Len(bytes) = payloadSize
  <2>1. bytes = [i \in 1..payloadSize |-> payload[i][2]]
      BY <1>2
  <2>2. [i \in 1..payloadSize |-> payload[i][2]] \in [1..payloadSize -> Nat]
      BY <1>3
  <2> QED
      BY <1>1, <2>1, <2>2, IsASeq, LenProperties
<1> HIDE DEF bytes
<1>5. Message = [id |-> msgId, payload |-> bytes]
    BY DEF Message, bytes
<1> QED
    BY <1>1, <1>4, <1>5 DEF AnyFrame

\* What recv() gives goes from the front of the wire to the end of the buffer.
LEMMA Received ==
    ASSUME TypeOK, cur \in Peers, NEW buf \in Seq(CellTypes), NEW len \in Nat, NEW n \in Nat,
           Recv(buf, len, n)
    PROVE  LET got == buf \o SubSeq(wire[cur], 1, n) IN
           /\ got \in Seq(CellTypes)
           /\ Len(got) <= len
           /\ wire' \in [Peers -> Seq(CellTypes)]
           /\ \A p \in Peers : p # cur => wire'[p] = wire[p]
           /\ got \o wire'[cur] = buf \o wire[cur]
<1> DEFINE w == wire[cur]
           more == SubSeq(w, 1, n)
           rest == SubSeq(w, n + 1, Len(w))
<1>1. wire \in [Peers -> Seq(CellTypes)] /\ w \in Seq(CellTypes) /\ Len(w) \in Nat
    BY LenProperties DEF TypeOK
<1>2. /\ n \in 1..Len(w) /\ Len(buf) + n <= len
      /\ wire' = [wire EXCEPT ![cur] = rest]
    BY DEF Recv
<1>3. /\ more \in Seq(CellTypes) /\ Len(more) = n
      /\ rest \in Seq(CellTypes)
      /\ more \o rest = w
    BY <1>1, <1>2, Halves
<1> HIDE DEF w, more, rest
<1>4. /\ buf \o more \in Seq(CellTypes)
      /\ Len(buf \o more) = Len(buf) + n
    BY <1>3, CellOfConcat
<1>5. (buf \o more) \o rest = buf \o (more \o rest)
    BY <1>3, Regroup, Zenon
<1>6. wire' \in [Peers -> Seq(CellTypes)] /\ wire'[cur] = rest
      /\ \A p \in Peers : p # cur => wire'[p] = wire[p]
    BY <1>1, <1>2, <1>3
<1> QED
    BY <1>2, <1>3, <1>4, <1>5, <1>6 DEF w, more

\* The wire after some cells of one connection are lost.
LEMMA CutWire ==
    ASSUME TypeOK, NEW p \in Peers, NEW n \in 0..Len(wire[p])
    PROVE  [wire EXCEPT ![p] = SubSeq(@, 1, n)] \in [Peers -> Seq(CellTypes)]
<1>1. wire \in [Peers -> Seq(CellTypes)] /\ wire[p] \in Seq(CellTypes)
    BY DEF TypeOK
<1>2. SubSeq(wire[p], 1, n) \in Seq(CellTypes)
    BY <1>1, Halves
<1> QED
    BY <1>1, <1>2

\* What a client writes: its frame in hand, or another.
LEMMA Written ==
    ASSUME TypeOK, NEW p \in Peers, Write(p)
    PROVE  \E out \in Seq(CellTypes) : \E n \in 1..Len(out) :
               /\ IF unsent[p] = <<>> THEN \E f \in Frames : out = Cells(f) ELSE out = unsent[p]
               /\ wire' = [wire EXCEPT ![p] = @ \o SubSeq(out, 1, n)]
               /\ unsent' = [unsent EXCEPT ![p] = SubSeq(out, n + 1, Len(out))]
               /\ SubSeq(out, 1, n) \in Seq(CellTypes)
               /\ SubSeq(out, n + 1, Len(out)) \in Seq(CellTypes)
<1>1. PICK out \in IF unsent[p] = <<>> THEN {Cells(f) : f \in Frames} ELSE {unsent[p]} :
      \E n \in 1..Len(out) :
          /\ wire' = [wire EXCEPT ![p] = @ \o SubSeq(out, 1, n)]
          /\ unsent' = [unsent EXCEPT ![p] = SubSeq(out, n + 1, Len(out))]
    BY DEF Write
<1>2. PICK n \in 1..Len(out) :
          /\ wire' = [wire EXCEPT ![p] = @ \o SubSeq(out, 1, n)]
          /\ unsent' = [unsent EXCEPT ![p] = SubSeq(out, n + 1, Len(out))]
    BY <1>1
<1>3. IF unsent[p] = <<>> THEN \E f \in Frames : out = Cells(f) ELSE out = unsent[p]
    BY <1>1
<1>4. out \in Seq(CellTypes)
  <2>1. \A f \in Frames : f.id \in Nat /\ f.payload \in Seq(Nat)
      BY NetworkGatewayAssumption DEF AnyFrame
  <2>2. \A f \in Frames : Cells(f) \in Seq(CellTypes)
      BY <2>1, CellsType
  <2>3. unsent[p] \in Seq(CellTypes)
      BY DEF TypeOK
  <2> QED
      BY <1>3, <2>2, <2>3
<1>5. n \in 0..Len(out)
    BY <1>4, LenProperties
<1>6. SubSeq(out, 1, n) \in Seq(CellTypes) /\ SubSeq(out, n + 1, Len(out)) \in Seq(CellTypes)
    BY <1>4, <1>5, Halves
<1> QED
    BY <1>2, <1>3, <1>4, <1>6

LEMMA NextType == IInv /\ [Next]_vars => TypeOK'
<1> SUFFICES ASSUME TypeOK, Place, [Next]_vars PROVE TypeOK'
    BY DEF IInv
<1> USE NetworkGatewayAssumption DEF peerVars
<1>0. <<>> \in Seq(CellTypes) /\ Len(<<>>) = 0 /\ HeaderSize = 2
    BY EmptySeq DEF HeaderSize
<1>1. ASSUME NEW p \in Peers, Connect(p) PROVE TypeOK'
    BY <1>1 DEF Connect, TypeOK
<1>2. ASSUME NEW p \in Peers, Write(p) PROVE TypeOK'
  <2>0. PICK out \in Seq(CellTypes) : \E n \in 1..Len(out) :
            /\ wire' = [wire EXCEPT ![p] = @ \o SubSeq(out, 1, n)]
            /\ unsent' = [unsent EXCEPT ![p] = SubSeq(out, n + 1, Len(out))]
            /\ SubSeq(out, 1, n) \in Seq(CellTypes)
            /\ SubSeq(out, n + 1, Len(out)) \in Seq(CellTypes)
      BY <1>2, Written
  <2>1. PICK n \in 1..Len(out) :
            /\ wire' = [wire EXCEPT ![p] = @ \o SubSeq(out, 1, n)]
            /\ unsent' = [unsent EXCEPT ![p] = SubSeq(out, n + 1, Len(out))]
            /\ SubSeq(out, 1, n) \in Seq(CellTypes)
            /\ SubSeq(out, n + 1, Len(out)) \in Seq(CellTypes)
      BY <2>0
  <2>2. wire \in [Peers -> Seq(CellTypes)] /\ wire[p] \in Seq(CellTypes)
      BY DEF TypeOK
  <2>3. wire[p] \o SubSeq(out, 1, n) \in Seq(CellTypes)
      BY <2>1, <2>2, ConcatProperties
  <2>4. wire' \in [Peers -> Seq(CellTypes)]
      BY <2>1, <2>2, <2>3
  <2>5. unsent' \in [Peers -> Seq(CellTypes)]
      BY <2>1 DEF TypeOK
  <2> QED
      BY <1>2, <2>4, <2>5 DEF Write, TypeOK
<1>3. ASSUME NEW p \in Peers, Break(p) PROVE TypeOK'
  <2>1. wire' \in [Peers -> Seq(CellTypes)]
      BY <1>3, CutWire DEF Break
  <2>2. unsent' \in [Peers -> Seq(CellTypes)]
      BY <1>0, <1>3 DEF Break, TypeOK
  <2> QED
      BY <1>3, <2>1, <2>2 DEF Break, TypeOK
<1>4. CASE Accept
    BY <1>4 DEF Accept, TypeOK
<1>5. CASE AcceptFails
  <2>1. CASE UNCHANGED <<ended, wire, backlog>>
      BY <1>5, <2>1 DEF AcceptFails, TypeOK
  <2>2. CASE ended' = ended \ {backlog} /\ backlog' = Nobody
    <3>1. wire' \in [Peers -> Seq(CellTypes)]
        BY <1>0, <1>5 DEF AcceptFails, TypeOK
    <3>2. ended' \subseteq Peers /\ backlog' \in Peers \cup {Nobody}
        BY <2>2 DEF TypeOK
    <3> QED
        BY <1>5, <3>1, <3>2 DEF AcceptFails, TypeOK
  <2> QED
      BY <1>5, <2>1, <2>2 DEF AcceptFails
<1>6. CASE Delay
    BY <1>6 DEF Delay, TypeOK
<1>7. CASE Close
  <2>1. unsent' \in [Peers -> Seq(CellTypes)] /\ wire' \in [Peers -> Seq(CellTypes)]
      BY <1>0, <1>7 DEF Close, TypeOK
  <2>2. hdr' \in Seq(CellTypes) /\ Len(hdr') <= 2 /\ payload' \in Seq(CellTypes)
        /\ Len(payload') <= MaxPayload
      BY <1>0, <1>7 DEF Close
  <2> QED
      BY <1>0, <1>7, <2>1, <2>2 DEF Close, TypeOK
<1>8. CASE ReadHeader
  <2>1. PICK n \in 1..HeaderSize :
            /\ Recv(hdr, HeaderSize, n)
            /\ hdr' = hdr \o SubSeq(wire[cur], 1, n)
      BY <1>8 DEF ReadHeader
  <2>2. cur \in Peers /\ hdr \in Seq(CellTypes) /\ HeaderSize \in Nat /\ n \in Nat
      BY <1>0, <1>8 DEF ReadHeader, Place, TypeOK
  <2>3. /\ wire' \in [Peers -> Seq(CellTypes)]
        /\ hdr' \in Seq(CellTypes) /\ Len(hdr') <= HeaderSize
      BY <2>1, <2>2, Received
  <2> QED
      BY <1>8, <2>3 DEF ReadHeader, TypeOK
<1>9. CASE HeaderRead
    BY <1>7, <1>9 DEF HeaderRead, TypeOK
<1>10. CASE ReadPayload
  <2>1. PICK n \in 1..payloadSize :
            /\ Recv(payload, payloadSize, n)
            /\ payload' = payload \o SubSeq(wire[cur], 1, n)
      BY <1>10 DEF ReadPayload
  <2>2. /\ cur \in Peers /\ payload \in Seq(CellTypes)
        /\ Len(hdr) = HeaderSize /\ payloadSize <= MaxPayload
      BY <1>10 DEF ReadPayload, Place, TypeOK
  <2>3. payloadSize \in Nat /\ n \in Nat
      BY <2>2, HeaderNumbers
  <2>4. /\ wire' \in [Peers -> Seq(CellTypes)]
        /\ payload' \in Seq(CellTypes) /\ Len(payload') <= payloadSize
      BY <2>1, <2>2, <2>3, Received
  <2>5. Len(payload') <= MaxPayload
      BY <2>2, <2>3, <2>4, LenProperties
  <2> QED
      BY <1>10, <2>4, <2>5 DEF ReadPayload, TypeOK
<1>11. CASE ReadFails
    BY <1>7, <1>11 DEF ReadFails
<1>12. CASE Continue /\ UNCHANGED inbox
    BY <1>0, <1>12 DEF Continue, TypeOK
<1>13. CASE Ignore \/ CopyFails
    BY <1>12, <1>13 DEF Ignore, CopyFails
<1>14. CASE Copy
    BY <1>14 DEF Copy, TypeOK
<1>15. CASE Post
  <2> DEFINE t == Routes[msgId]
  <2>1. /\ Len(inbox[t]) < QueueLen[t]
        /\ inbox' = [inbox EXCEPT ![t] = Append(@, Message)]
        /\ Continue
      BY <1>15 DEF Post
  <2>2. t \in Tasks
      BY <1>15 DEF Post, Place, Valid, HasRoute
  <2>3. Message \in AnyFrame
      BY <1>15, MessageType DEF Post, Place
  <2>4. inbox[t] \in Seq(AnyFrame) /\ QueueLen[t] \in Nat
      BY <2>2 DEF TypeOK
  <2>5. /\ Append(inbox[t], Message) \in Seq(AnyFrame)
        /\ Len(Append(inbox[t], Message)) = Len(inbox[t]) + 1
      BY <2>3, <2>4, AppendProperties
  <2>6. Len(inbox[t]) + 1 <= QueueLen[t]
      BY <2>1, <2>4, LenProperties
  <2> HIDE DEF t
  <2>7. /\ inbox' \in [Tasks -> Seq(AnyFrame)]
        /\ \A u \in Tasks : Len(inbox'[u]) <= QueueLen[u]
      BY <2>1, <2>2, <2>5, <2>6 DEF TypeOK
  <2> QED
      BY <1>0, <2>1, <2>7 DEF Continue, TypeOK
<1>16. ASSUME NEW t \in Tasks, Take(t) PROVE TypeOK'
  <2>1. inbox[t] \in Seq(AnyFrame) /\ Len(inbox[t]) <= QueueLen[t] /\ QueueLen[t] \in Nat
      BY DEF TypeOK
  <2>2. /\ inbox[t] # <<>>
        /\ inbox' = [inbox EXCEPT ![t] = Tail(@)]
      BY <1>16 DEF Take
  <2>3. Tail(inbox[t]) \in Seq(AnyFrame) /\ Len(Tail(inbox[t])) = Len(inbox[t]) - 1
      BY <2>1, <2>2, HeadTailProperties
  <2>4. Len(Tail(inbox[t])) <= QueueLen[t]
      BY <2>1, <2>3, LenProperties
  <2>5. /\ inbox' \in [Tasks -> Seq(AnyFrame)]
        /\ \A u \in Tasks : Len(inbox'[u]) <= QueueLen[u]
      BY <2>2, <2>3, <2>4 DEF TypeOK
  <2> QED
      BY <1>16, <2>5 DEF Take, TypeOK
<1>17. CASE MemoryChanges
    BY <1>17 DEF MemoryChanges, TypeOK
<1>18. CASE UNCHANGED vars
    BY <1>18 DEF vars, TypeOK
<1>19. ASSUME NEW p \in Peers, ReportEnd(p) PROVE TypeOK'
    BY <1>19 DEF ReportEnd, TypeOK
<1> QED
    BY <1>1, <1>2, <1>3, <1>4, <1>5, <1>6, <1>8, <1>9, <1>10, <1>11, <1>13, <1>14,
       <1>15, <1>16, <1>17, <1>18, <1>19
    DEF Next, Session

LEMMA NextInv == IInv /\ [Next]_vars => IInv'
<1> SUFFICES ASSUME IInv, [Next]_vars PROVE Place'
    BY NextType DEF IInv
<1> USE NetworkGatewayAssumption DEF peerVars
<1>0. TypeOK /\ Place
    BY DEF IInv
<1>1. ASSUME NEW p \in Peers, Connect(p) PROVE Place'
    BY <1>0, <1>1 DEF Connect, Place, TypeOK, msgId, payloadSize
<1>2. ASSUME NEW p \in Peers, Write(p) PROVE Place'
  <2>1. /\ p \in open
        /\ \A q \in Peers : q # p => wire'[q] = wire[q] /\ unsent'[q] = unsent[q]
        /\ UNCHANGED <<open, ended, backlog, cur, pc, hdr, payload>>
    <3>1. \E more, rest \in Seq(CellTypes) :
              /\ wire' = [wire EXCEPT ![p] = @ \o more]
              /\ unsent' = [unsent EXCEPT ![p] = rest]
        BY <1>0, <1>2, Written
    <3> QED
        BY <1>0, <1>2, <3>1 DEF Write, TypeOK
  <2> QED
      BY <1>0, <2>1 DEF Place, msgId, payloadSize
<1>3. ASSUME NEW p \in Peers, Break(p) PROVE Place'
  <2>1. /\ p \in open /\ open' = open \ {p}
        /\ unsent'[p] = <<>>
        /\ \A q \in Peers : q # p => wire'[q] = wire[q] /\ unsent'[q] = unsent[q]
        /\ UNCHANGED <<ended, backlog, cur, pc, hdr, payload>>
      BY <1>0, <1>3 DEF Break, TypeOK
  <2> QED
      BY <1>0, <2>1 DEF Place, msgId, payloadSize
<1>4. CASE Accept
    BY <1>0, <1>4 DEF Accept, Place, TypeOK
<1>5. CASE AcceptFails
    BY <1>0, <1>5 DEF AcceptFails, Place, TypeOK
<1>6. CASE Delay
    BY <1>0, <1>6 DEF Delay, Place
<1>7. CASE Close
    BY <1>0, <1>7 DEF Close, Place, TypeOK
<1>8. CASE ReadHeader
    BY <1>0, <1>8 DEF ReadHeader, Recv, Place, TypeOK
<1>9. CASE HeaderRead
  <2>1. CASE Close
      BY <1>7, <2>1
  <2>2. CASE ~Close
    <3>1. Len(<<>>) = 0 /\ payloadSize \in Nat
        BY <1>0, <1>9, HeaderNumbers, EmptySeq DEF HeaderRead
    <3> QED
        BY <1>0, <1>9, <2>2, <3>1 DEF HeaderRead, Place, msgId, payloadSize
  <2> QED
      BY <2>1, <2>2
<1>10. CASE ReadPayload
  <2>1. PICK n \in 1..payloadSize :
            /\ Recv(payload, payloadSize, n)
            /\ payload' = payload \o SubSeq(wire[cur], 1, n)
      BY <1>10 DEF ReadPayload
  <2>2. /\ cur \in Peers /\ payload \in Seq(CellTypes)
        /\ payloadSize \in Nat /\ n \in Nat
      BY <1>0, <1>10, HeaderNumbers DEF ReadPayload, Place, TypeOK
  <2>3. /\ \A q \in Peers : q # cur => wire'[q] = wire[q]
        /\ Len(payload') <= payloadSize
      BY <1>0, <2>1, <2>2, Received
  <2> QED
      BY <1>0, <1>10, <2>3 DEF ReadPayload, Place, msgId, payloadSize
<1>11. CASE ReadFails
    BY <1>7, <1>11 DEF ReadFails
<1>12. CASE pc \in {"payload", "post"} /\ Continue
    BY <1>0, <1>12 DEF Continue, Place
<1>13. CASE Ignore \/ CopyFails \/ Post
    BY <1>12, <1>13 DEF Ignore, CopyFails, Post
<1>14. CASE Copy
    BY <1>0, <1>14 DEF Copy, Place, msgId, payloadSize
<1>15. ASSUME NEW t \in Tasks, Take(t) PROVE Place'
    BY <1>0, <1>15 DEF Take, Place, msgId, payloadSize
<1>16. CASE MemoryChanges
    BY <1>0, <1>16 DEF MemoryChanges, Place, msgId, payloadSize
<1>17. CASE UNCHANGED vars
    BY <1>0, <1>17 DEF vars, Place, msgId, payloadSize
<1>18. ASSUME NEW p \in Peers, ReportEnd(p) PROVE Place'
    BY <1>0, <1>18 DEF ReportEnd, Place, TypeOK, msgId, payloadSize
<1> QED
    BY <1>1, <1>2, <1>3, <1>4, <1>5, <1>6, <1>8, <1>9, <1>10, <1>11, <1>13, <1>14,
       <1>15, <1>16, <1>17, <1>18
    DEF Next, Session

\* Buffers, queues and connections keep their types: no payload ever exceeds the
\* buffer and no queue its length, whatever sizes clients announce.
THEOREM TypeCorrect == Spec => []TypeOK
<1>1. Spec => Init /\ [][Next]_vars
    BY PTL DEF Spec
<1>2. IInv => TypeOK
    BY DEF IInv
<1> QED
    BY <1>1, <1>2, InitInv, NextInv, PTL

-----------------------------------------------------------------------------
(* Synchronisation.                                                        *)

\* What has come of a client's stream, s, and what the client has still to write
\* of the frame in hand, u: s ends with the rest of that frame, or where a header
\* can follow.
Flow(s, u) ==
    IF u = <<>> THEN Aligned(s \o NextHeader) ELSE \E f \in Frames : Midway(s, u, f)

\* InSync alone is not inductive: of a client that is to write on it must be known
\* which frame it is writing, and of the others that no cell is amiss.
Flowing ==
    \A p \in Peers :
        IF p \in open THEN Flow(Stream(p), unsent[p]) ELSE Aligned(Stream(p))

SyncInv == IInv /\ Flowing

LEMMA StreamType ==
    ASSUME TypeOK, NEW p \in Peers
    PROVE  Stream(p) \in Seq(CellTypes) /\ unsent[p] \in Seq(CellTypes)
<1>1. /\ hdr \in Seq(CellTypes) /\ payload \in Seq(CellTypes)
      /\ wire[p] \in Seq(CellTypes) /\ unsent[p] \in Seq(CellTypes)
      /\ <<>> \in Seq(CellTypes)
    BY EmptySeq DEF TypeOK
<1>2. hdr \o payload \in Seq(CellTypes)
    BY <1>1, CellOfConcat
<1>3. (hdr \o payload) \o wire[p] \in Seq(CellTypes) /\ <<>> \o wire[p] \in Seq(CellTypes)
    BY <1>1, <1>2, CellOfConcat
<1> QED
    BY <1>1, <1>3 DEF Stream

LEMMA FlowAligned ==
    ASSUME NEW s \in Seq(CellTypes), NEW u \in Seq(CellTypes), Flow(s, u)
    PROVE  Aligned((s \o u) \o NextHeader) /\ Aligned(s \o u) /\ Aligned(s)
<1>1. Aligned((s \o u) \o NextHeader)
  <2>1. CASE u = <<>>
    <3>1. s \o u = s /\ Aligned(s \o NextHeader)
        BY <2>1, ConcatEmptySeq DEF Flow
    <3> QED
        BY <3>1
  <2>2. CASE u # <<>>
    <3>1. PICK f \in Frames : Midway(s, u, f)
        BY <2>2 DEF Flow
    <3> QED
        BY <3>1, NetworkGatewayAssumption, MidwayAligned
  <2> QED
      BY <2>1, <2>2
<1> QED
    BY <1>1, AlignedSoFar

\* Some more of a frame is written, or some of the next one.
LEMMA FlowOn ==
    ASSUME NEW s \in Seq(CellTypes), NEW u \in Seq(CellTypes), Flow(s, u),
           NEW out \in Seq(CellTypes), NEW n \in 1..Len(out),
           IF u = <<>> THEN \E f \in Frames : out = Cells(f) ELSE out = u
    PROVE  LET more == SubSeq(out, 1, n)
               rest == SubSeq(out, n + 1, Len(out))
           IN  /\ Flow(s \o more, rest)
               /\ \E f \in Frames :
                      /\ FramesIn((s \o more) \o rest) = Append(FramesIn(s), f)
                      /\ FramesIn(s \o u) = IF u = <<>> THEN FramesIn(s)
                                            ELSE Append(FramesIn(s), f)
                      /\ FramesIn(s \o more) \in {FramesIn(s), Append(FramesIn(s), f)}
<1>1. \E f \in Frames : Midway(s, out, f)
  <2>1. CASE u = <<>>
    <3>1. PICK f \in Frames : out = Cells(f)
        BY <2>1
    <3>2. Midway(s, out, f)
        BY <2>1, <3>1, NetworkGatewayAssumption, MidwayStart DEF Flow
    <3> QED
        BY <3>2
  <2>2. CASE u # <<>>
      BY <2>2 DEF Flow
  <2> QED
      BY <2>1, <2>2
<1>2. PICK f \in Frames : Midway(s, out, f)
    BY <1>1
<1>3. f \in AnyFrame
    BY NetworkGatewayAssumption
<1> DEFINE more == SubSeq(out, 1, n)
           rest == SubSeq(out, n + 1, Len(out))
<1>4. /\ rest # <<>> => /\ Midway(s \o more, rest, f)
                        /\ FramesIn(s \o more) = FramesIn(s)
      /\ rest = <<>> => /\ Aligned((s \o more) \o NextHeader)
                        /\ FramesIn(s \o more) = Append(FramesIn(s), f)
    BY <1>2, <1>3, MidwayOn, Zenon
<1>5. FramesIn(s \o out) = Append(FramesIn(s), f)
    BY <1>2, <1>3, MidwayFrames
<1>6. (s \o more) \o rest = s \o out
  <2>1. n \in 0..Len(out)
      BY LenProperties
  <2>2. more \in Seq(CellTypes) /\ rest \in Seq(CellTypes) /\ more \o rest = out
      BY <2>1, Halves
  <2> HIDE DEF more, rest
  <2>3. s \in Seq(CellTypes) /\ more \in Seq(CellTypes) /\ rest \in Seq(CellTypes)
      BY <2>2
  <2>4. (s \o more) \o rest = s \o (more \o rest)
      BY <2>3, Regroup, Zenon
  <2> QED
      BY <2>2, <2>4
<1>7. FramesIn(s \o u) = IF u = <<>> THEN FramesIn(s) ELSE Append(FramesIn(s), f)
    BY <1>5, ConcatEmptySeq
<1> HIDE DEF more, rest
<1>8. /\ Flow(s \o more, rest)
      /\ FramesIn((s \o more) \o rest) = Append(FramesIn(s), f)
      /\ FramesIn(s \o more) \in {FramesIn(s), Append(FramesIn(s), f)}
    BY <1>2, <1>4, <1>5, <1>6 DEF Flow
<1> QED
    BY <1>7, <1>8 DEF more, rest

\* The first frame is taken, with the next one under way or not.
LEMMA FlowTaken ==
    ASSUME NEW s \in Seq(CellTypes), NEW u \in Seq(CellTypes), Flow(s, u), FirstIn(s)
    PROVE  Flow(AfterFirst(s), u)
<1>1. CASE u = <<>>
    BY <1>1, NextHeaderCell, AlignedTaken DEF Flow
<1>2. CASE u # <<>>
    BY <1>2, NetworkGatewayAssumption, MidwayTaken DEF Flow
<1> QED
    BY <1>1, <1>2

\* Reading moves cells from the wire to the buffers: no stream changes.
LEMMA ReadingKeeps ==
    ASSUME IInv, ReadHeader \/ ReadPayload
    PROVE  \A p \in Peers : Stream(p)' = Stream(p)
<1>0. TypeOK /\ Place
    BY DEF IInv
<1>1. /\ cur \in Peers /\ hdr \in Seq(CellTypes) /\ payload \in Seq(CellTypes)
      /\ wire[cur] \in Seq(CellTypes) /\ HeaderSize \in Nat
    BY <1>0 DEF Place, TypeOK, ReadHeader, ReadPayload, HeaderSize
<1>2. CASE ReadHeader
  <2>1. PICK n \in 1..HeaderSize :
            /\ Recv(hdr, HeaderSize, n)
            /\ hdr' = hdr \o SubSeq(wire[cur], 1, n)
      BY <1>2 DEF ReadHeader
  <2>2. n \in Nat
      BY <1>1
  <2>3. /\ hdr' \in Seq(CellTypes)
        /\ \A p \in Peers : p # cur => wire'[p] = wire[p]
        /\ hdr' \o wire'[cur] = hdr \o wire[cur]
      BY <1>0, <1>1, <2>1, <2>2, Received
  <2>4. payload = <<>> /\ payload' = <<>> /\ cur' = cur
      BY <1>0, <1>2 DEF ReadHeader, Place
  <2>5. hdr \o <<>> = hdr /\ hdr' \o <<>> = hdr'
      BY <1>1, <2>3, ConcatEmptySeq
  <2> QED
      BY <2>3, <2>4, <2>5 DEF Stream
<1>3. CASE ReadPayload
  <2>1. PICK n \in 1..payloadSize :
            /\ Recv(payload, payloadSize, n)
            /\ payload' = payload \o SubSeq(wire[cur], 1, n)
      BY <1>3 DEF ReadPayload
  <2>2. payloadSize \in Nat /\ n \in Nat
      BY <1>0, <1>3, HeaderNumbers DEF ReadPayload, Place
  <2>3. /\ payload' \in Seq(CellTypes)
        /\ wire' \in [Peers -> Seq(CellTypes)]
        /\ \A p \in Peers : p # cur => wire'[p] = wire[p]
        /\ payload' \o wire'[cur] = payload \o wire[cur]
      BY <1>0, <1>1, <2>1, <2>2, Received
  <2>4. hdr' = hdr /\ cur' = cur
      BY <1>3 DEF ReadPayload
  <2>5. (hdr \o payload') \o wire'[cur] = (hdr \o payload) \o wire[cur]
    <3> DEFINE b == payload'
               v == wire'[cur]
               w == wire[cur]
    <3>1. b \in Seq(CellTypes) /\ v \in Seq(CellTypes) /\ w \in Seq(CellTypes) /\ b \o v = payload \o w
        BY <1>1, <2>3
    <3> HIDE DEF b, v, w
    <3>2. (hdr \o b) \o v = hdr \o (b \o v)
        BY <1>1, <3>1, Regroup, Zenon
    <3>3. (hdr \o payload) \o w = hdr \o (payload \o w)
        BY <1>1, <3>1, Regroup, Zenon
    <3>4. (hdr \o b) \o v = (hdr \o payload) \o w
        BY <3>1, <3>2, <3>3
    <3> QED
        BY <3>4 DEF b, v, w
  <2> QED
      BY <2>3, <2>4, <2>5 DEF Stream
<1> QED
    BY <1>2, <1>3

\* A frame read is the first frame of the stream, and going on to the next header
\* leaves what comes after it.
LEMMA FirstFrame ==
    ASSUME IInv, pc \in {"payload", "post"}, Len(payload) = payloadSize, Continue,
           NEW p, p = cur
    PROVE  /\ p \in Peers
           /\ FirstIn(Stream(p))
           /\ FrameAt(Stream(p), 2) = Message
           /\ Stream(p)' = AfterFirst(Stream(p))
           /\ \A q \in Peers : q # p => Stream(q)' = Stream(q)
<1>0. TypeOK /\ Place
    BY DEF IInv
<1> DEFINE w == wire[cur]
           h == hdr \o payload
           s == h \o w
           n == HeaderSize + payloadSize
<1>1. /\ cur \in Peers /\ hdr \in Seq(CellTypes) /\ payload \in Seq(CellTypes)
      /\ w \in Seq(CellTypes) /\ Len(hdr) = 2 /\ HeaderSize = 2
    BY <1>0 DEF Place, TypeOK, HeaderSize
<1>2. payloadSize \in Nat /\ payloadSize = hdr[2][2] /\ msgId = hdr[1][2]
    BY <1>0, <1>1, HeaderNumbers DEF msgId, payloadSize
<1>3. /\ h \in Seq(CellTypes)
      /\ Len(h) = n /\ n \in Nat /\ n = 2 + payloadSize
      /\ h[1] = hdr[1] /\ h[2] = hdr[2]
      /\ \A j \in 1..payloadSize : h[2 + j] = payload[j]
  <2>1. /\ h \in Seq(CellTypes)
        /\ Len(h) = Len(hdr) + Len(payload)
        /\ \A i \in 1..Len(hdr) : h[i] = hdr[i]
        /\ \A i \in 1..Len(payload) : h[Len(hdr) + i] = payload[i]
      BY <1>1, CellOfConcat
  <2> HIDE DEF h
  <2> QED
      BY <1>1, <1>2, <2>1
<1> HIDE DEF h, w
<1>4. /\ s \in Seq(CellTypes) /\ Len(w) \in Nat
      /\ Len(s) = n + Len(w)
      /\ \A i \in 1..n : s[i] = h[i]
  <2>1. /\ s \in Seq(CellTypes) /\ Len(w) \in Nat
        /\ Len(s) = Len(h) + Len(w)
        /\ \A i \in 1..Len(h) : s[i] = h[i]
      BY <1>1, <1>3, CellOfConcat
  <2> HIDE DEF s, n
  <2> QED
      BY <1>3, <2>1
<1>5. SubSeq(s, n + 1, Len(s)) = w
  <2>1. n <= Len(h)
      BY <1>3
  <2>2. SubSeq(s, n + 1, Len(s)) = SubSeq(h, n + 1, Len(h)) \o w
      BY <1>1, <1>3, <2>1, CutConcat
  <2>3. SubSeq(h, n + 1, Len(h)) = <<>>
      BY <1>3, SubSeqEmpty
  <2>4. <<>> \o w = w
      BY <1>1, ConcatEmptySeq
  <2> HIDE DEF s, n
  <2> QED
      BY <2>2, <2>3, <2>4
<1>6. Stream(p) = s
    BY DEF Stream, s, h, w
<1> HIDE DEF s
<1>7. s[1] = hdr[1] /\ s[2] = hdr[2] /\ \A j \in 1..payloadSize : s[2 + j] = payload[j]
    BY <1>2, <1>3, <1>4
<1>8. FirstIn(s)
  <2>1. HeaderSize + s[2][2] = n
      BY <1>2, <1>7
  <2> HIDE DEF n
  <2>2. Len(s) >= n /\ n >= HeaderSize
      BY <1>1, <1>2, <1>3, <1>4
  <2>3. Len(s) >= HeaderSize
      BY <1>1, <1>3, <1>4, <2>2
  <2> QED
      BY <2>1, <2>2, <2>3 DEF FirstIn
<1>9. AfterFirst(s) = w
    BY <1>1, <1>2, <1>3, <1>5, <1>7 DEF AfterFirst
<1>10. FrameAt(s, 2) = Message
  <2>1. DOMAIN payload = 1..payloadSize
      BY <1>1, LenProperties
  <2>2. [j \in 1..s[2][2] |-> s[2 + j][2]] = [i \in DOMAIN payload |-> payload[i][2]]
      BY <1>2, <1>7, <2>1
  <2>3. s[2 - 1][2] = msgId
      BY <1>2, <1>7
  <2> QED
      BY <2>2, <2>3 DEF FrameAt, Message
<1>11. Stream(p)' = w /\ \A q \in Peers : q # p => Stream(q)' = Stream(q)
  <2>1. /\ hdr' = <<>> /\ payload' = <<>> /\ cur' = cur /\ wire' = wire
      BY DEF Continue, peerVars
  <2>2. <<>> \o <<>> = <<>> /\ <<>> \o w = w
      BY <1>1, EmptySeq, ConcatEmptySeq
  <2> QED
      BY <2>1, <2>2 DEF Stream, w
<1> QED
    BY <1>1, <1>6, <1>8, <1>9, <1>10, <1>11

\* What writing, breaking off and closing do to the streams.
LEMMA WriteStream ==
    ASSUME IInv, Flowing, NEW p \in Peers, Write(p)
    PROVE  /\ p \in open
           /\ Flow(Stream(p)', unsent'[p])
           /\ \E f \in Frames :
                  LET line == FramesIn(Stream(p)) IN
                  /\ FramesIn(Stream(p) \o unsent[p]) =
                         IF unsent[p] = <<>> THEN line ELSE Append(line, f)
                  /\ FramesIn(Stream(p)' \o unsent'[p]) = Append(line, f)
                  /\ FramesIn(Stream(p)') \in {line, Append(line, f)}
           /\ \A q \in Peers : q # p => Stream(q)' = Stream(q) /\ unsent'[q] = unsent[q]
<1>0. TypeOK /\ Place
    BY DEF IInv
<1>1. PICK out \in Seq(CellTypes) : \E n \in 1..Len(out) :
          /\ IF unsent[p] = <<>> THEN \E f \in Frames : out = Cells(f) ELSE out = unsent[p]
          /\ wire' = [wire EXCEPT ![p] = @ \o SubSeq(out, 1, n)]
          /\ unsent' = [unsent EXCEPT ![p] = SubSeq(out, n + 1, Len(out))]
          /\ SubSeq(out, 1, n) \in Seq(CellTypes)
    BY <1>0, Written
<1>2. PICK n \in 1..Len(out) :
          /\ IF unsent[p] = <<>> THEN \E f \in Frames : out = Cells(f) ELSE out = unsent[p]
          /\ wire' = [wire EXCEPT ![p] = @ \o SubSeq(out, 1, n)]
          /\ unsent' = [unsent EXCEPT ![p] = SubSeq(out, n + 1, Len(out))]
          /\ SubSeq(out, 1, n) \in Seq(CellTypes)
    BY <1>1
<1> DEFINE s == Stream(p)
           u == unsent[p]
           more == SubSeq(out, 1, n)
           rest == SubSeq(out, n + 1, Len(out))
<1>3. p \in open /\ Flow(s, u)
    BY DEF Write, Flowing
<1>4. s \in Seq(CellTypes) /\ u \in Seq(CellTypes)
    BY <1>0, StreamType
<1>5. wire \in [Peers -> Seq(CellTypes)] /\ unsent \in [Peers -> Seq(CellTypes)]
    BY <1>0 DEF TypeOK
<1>6. UNCHANGED <<cur, hdr, payload>>
    BY DEF Write
<1>7. IF u = <<>> THEN \E f \in Frames : out = Cells(f) ELSE out = u
    BY <1>2
<1> HIDE DEF s, u
<1>8. /\ Flow(s \o more, rest)
      /\ \E f \in Frames :
             /\ FramesIn((s \o more) \o rest) = Append(FramesIn(s), f)
             /\ FramesIn(s \o u) = IF u = <<>> THEN FramesIn(s) ELSE Append(FramesIn(s), f)
             /\ FramesIn(s \o more) \in {FramesIn(s), Append(FramesIn(s), f)}
    BY <1>3, <1>4, <1>7, FlowOn, Zenon
<1>9. more \in Seq(CellTypes)
    BY <1>2
<1>10. /\ wire'[p] = wire[p] \o more /\ unsent'[p] = rest
       /\ \A q \in Peers : q # p => wire'[q] = wire[q] /\ unsent'[q] = unsent[q]
    BY <1>2, <1>5
<1> HIDE DEF more, rest
<1>11. Stream(p)' = s \o more
  <2> DEFINE h == IF p = cur THEN hdr \o payload ELSE <<>>
             w == wire[p]
  <2>1. h \in Seq(CellTypes) /\ w \in Seq(CellTypes)
      BY <1>0, CellOfConcat, EmptySeq DEF TypeOK
  <2>2. s = h \o w
      BY DEF s, Stream
  <2>3. Stream(p)' = h \o (w \o more)
      BY <1>6, <1>10 DEF Stream
  <2> HIDE DEF h, w
  <2>4. (h \o w) \o more = h \o (w \o more)
      BY <1>9, <2>1, Regroup, Zenon
  <2> QED
      BY <2>2, <2>3, <2>4
<1>12. \A q \in Peers : q # p => Stream(q)' = Stream(q)
    BY <1>6, <1>10 DEF Stream
<1> QED
    BY <1>3, <1>8, <1>10, <1>11, <1>12 DEF s, u

LEMMA BreakStream ==
    ASSUME IInv, NEW p \in Peers, Aligned(Stream(p)), Break(p)
    PROVE  /\ Aligned(Stream(p)')
           /\ Stream(p)' \o unsent'[p] = Stream(p)'
           /\ \E j \in 0..Len(FramesIn(Stream(p))) :
                  FramesIn(Stream(p)') = SubSeq(FramesIn(Stream(p)), 1, j)
           /\ \A q \in Peers : q # p => Stream(q)' = Stream(q) /\ unsent'[q] = unsent[q]
<1>0. TypeOK /\ Place
    BY DEF IInv
<1>1. PICK n \in 0..Len(wire[p]) : wire' = [wire EXCEPT ![p] = SubSeq(@, 1, n)]
    BY DEF Break
<1>2. /\ wire \in [Peers -> Seq(CellTypes)] /\ unsent \in [Peers -> Seq(CellTypes)]
      /\ wire[p] \in Seq(CellTypes)
    BY <1>0 DEF TypeOK
<1> DEFINE h == IF p = cur THEN hdr \o payload ELSE <<>>
           w == wire[p]
           more == SubSeq(w, 1, n)
           rest == SubSeq(w, n + 1, Len(w))
<1>3. h \in Seq(CellTypes)
    BY <1>0, CellOfConcat, EmptySeq DEF TypeOK
<1>4. more \in Seq(CellTypes) /\ rest \in Seq(CellTypes) /\ more \o rest = w
    BY <1>2, Halves
<1>5. Stream(p) = h \o w /\ Stream(p)' = h \o more
    BY <1>1, <1>2 DEF Break, Stream
<1>6. \A q \in Peers : q # p => Stream(q)' = Stream(q) /\ unsent'[q] = unsent[q]
    BY <1>1, <1>2 DEF Break, Stream
<1> HIDE DEF h, w, more, rest
<1>7. (h \o more) \o rest = Stream(p) /\ h \o more \in Seq(CellTypes)
  <2>1. (h \o more) \o rest = h \o (more \o rest)
      BY <1>3, <1>4, Regroup, Zenon
  <2> QED
      BY <1>3, <1>4, <1>5, <2>1, CellOfConcat
<1>8. Aligned((h \o more) \o rest)
    BY <1>7
<1> DEFINE t == h \o more
<1>9. t \in Seq(CellTypes) /\ Aligned(t \o rest) /\ t \o rest = Stream(p)
    BY <1>7, <1>8
<1>10. Stream(p)' = t
    BY <1>5
<1> HIDE DEF t
<1>11. Aligned(t)
    BY <1>4, <1>9, AlignedPrefix
<1>12. \E j \in 0..Len(FramesIn(t \o rest)) : FramesIn(t) = SubSeq(FramesIn(t \o rest), 1, j)
    BY <1>4, <1>9, FramesOfFront
<1>13. Stream(p)' \o unsent'[p] = Stream(p)'
  <2>1. unsent'[p] = <<>>
      BY <1>2 DEF Break
  <2> QED
      BY <1>9, <1>10, <2>1, ConcatEmptySeq
<1> QED
    BY <1>6, <1>9, <1>10, <1>11, <1>12, <1>13

LEMMA CloseStream ==
    ASSUME IInv, NEW p, p = cur, p # Nobody, Close
    PROVE  /\ p \in Peers
           /\ Stream(p)' = <<>> /\ unsent'[p] = <<>> /\ p \notin open'
           /\ \A q \in Peers : q # p => /\ Stream(q)' = Stream(q)
                                     /\ unsent'[q] = unsent[q]
                                     /\ (q \in open' <=> q \in open)
<1>0. TypeOK /\ Place
    BY DEF IInv
<1>1. /\ p \in Peers /\ Nobody \notin Peers
      /\ wire \in [Peers -> Seq(CellTypes)] /\ unsent \in [Peers -> Seq(CellTypes)]
    BY <1>0, NetworkGatewayAssumption DEF TypeOK
<1>2. <<>> \o <<>> = <<>>
    BY EmptySeq, ConcatEmptySeq
<1>3. /\ \A q \in Peers : q # p => wire'[q] = wire[q] /\ unsent'[q] = unsent[q]
      /\ wire'[p] = <<>> /\ unsent'[p] = <<>> /\ cur' = Nobody /\ open' = open \ {p}
    BY <1>1 DEF Close
<1>4. \A q \in Peers : Stream(q)' = <<>> \o wire'[q]
    BY <1>1, <1>3 DEF Stream
<1>5. \A q \in Peers : q # p => Stream(q) = <<>> \o wire[q]
    BY DEF Stream
<1> QED
    BY <1>1, <1>2, <1>3, <1>4, <1>5

LEMMA AcceptStream ==
    ASSUME IInv, Accept
    PROVE  /\ backlog \in Peers
           /\ \A p \in Peers : Stream(p)' = Stream(p)
<1>0. TypeOK /\ Place
    BY DEF IInv
<1>1. hdr = <<>> /\ payload = <<>> /\ cur = Nobody /\ Nobody \notin Peers
    BY <1>0, NetworkGatewayAssumption DEF Accept, Place
<1>2. <<>> \o <<>> = <<>>
    BY EmptySeq, ConcatEmptySeq
<1> QED
    BY <1>0, <1>1, <1>2 DEF Accept, TypeOK, Stream

LEMMA AcceptFailsStream ==
    ASSUME IInv, AcceptFails
    PROVE  /\ UNCHANGED <<open, unsent, cur, inbox, short>>
           /\ \/ \A p \in Peers : Stream(p)' = Stream(p)
              \/ \E p \in Peers \ open :
                     /\ Stream(p)' = <<>>
                     /\ \A q \in Peers : q # p => Stream(q)' = Stream(q)
<1>0. TypeOK /\ Place
    BY DEF IInv
<1>1. /\ cur = Nobody /\ Nobody \notin Peers /\ wire \in [Peers -> Seq(CellTypes)]
    BY <1>0, NetworkGatewayAssumption DEF AcceptFails, Place, TypeOK
<1>2. <<>> \o <<>> = <<>>
    BY EmptySeq, ConcatEmptySeq
<1>3. UNCHANGED <<open, unsent, cur, inbox, short>>
    BY DEF AcceptFails
<1>4. \A q \in Peers : Stream(q) = <<>> \o wire[q] /\ Stream(q)' = <<>> \o wire'[q]
    BY <1>1, <1>3 DEF Stream
<1>5. CASE wire' = wire
    BY <1>3, <1>4, <1>5
<1>6. ASSUME backlog \in ended, wire' = [wire EXCEPT ![backlog] = <<>>]
      PROVE  \E r \in Peers \ open :
                 /\ Stream(r)' = <<>>
                 /\ \A q \in Peers : q # r => Stream(q)' = Stream(q)
  <2>1. PICK p : p = backlog
      OBVIOUS
  <2>2. p \in Peers \ open
      BY <1>0, <1>6, <2>1 DEF Place, TypeOK
  <2>3. wire'[p] = <<>> /\ \A q \in Peers : q # p => wire'[q] = wire[q]
      BY <1>1, <1>6, <2>1, <2>2
  <2> QED
      BY <1>2, <1>4, <2>2, <2>3
<1> QED
    BY <1>3, <1>5, <1>6 DEF AcceptFails

LEMMA InitSync == Init => SyncInv
<1> SUFFICES ASSUME Init PROVE Flowing
    BY InitInv DEF SyncInv
<1>1. <<>> \o <<>> = <<>>
    BY EmptySeq, ConcatEmptySeq
<1>2. \A p \in Peers : p \notin open /\ Stream(p) = <<>>
    BY <1>1, NetworkGatewayAssumption DEF Init, Stream
<1> QED
    BY <1>2, AlignedEmpty DEF Flowing

LEMMA NextSync == SyncInv /\ [Next]_vars => SyncInv'
<1> SUFFICES ASSUME SyncInv, [Next]_vars PROVE Flowing'
    BY NextInv DEF SyncInv
<1> USE DEF peerVars
<1>0. IInv /\ TypeOK /\ Place /\ Flowing
    BY DEF SyncInv, IInv
<1>a. \A p \in Peers : Aligned(Stream(p))
    BY <1>0, StreamType, FlowAligned DEF Flowing
<1>s. \A p \in Peers : Stream(p) \in Seq(CellTypes) /\ unsent[p] \in Seq(CellTypes)
    BY <1>0, StreamType
\* No stream changes and no client writes.
<1>k. ASSUME \A p \in Peers : Stream(p)' = Stream(p), UNCHANGED <<open, unsent>>
      PROVE  Flowing'
    BY <1>0, <1>k DEF Flowing
\* Only one stream changes.
<1>c. ASSUME NEW p \in Peers,
             \A q \in Peers : q # p => /\ Stream(q)' = Stream(q)
                                   /\ unsent'[q] = unsent[q]
                                   /\ (q \in open' <=> q \in open),
             IF p \in open' THEN Flow(Stream(p)', unsent'[p]) ELSE Aligned(Stream(p)')
      PROVE  Flowing'
    BY <1>0, <1>c DEF Flowing
<1>1. ASSUME NEW p \in Peers, Connect(p) PROVE Flowing'
  <2>1. /\ wire[p] = <<>> /\ unsent[p] = <<>> /\ p # cur
        /\ open' = open \cup {p} /\ UNCHANGED <<unsent, wire, cur, hdr, payload>>
      BY <1>0, <1>1 DEF Connect, Place
  <2>2. \A q \in Peers : Stream(q)' = Stream(q)
      BY <2>1 DEF Stream
  <2>3. Stream(p)' = <<>>
    <3>1. <<>> \o <<>> = <<>>
        BY EmptySeq, ConcatEmptySeq
    <3> QED
        BY <2>1, <3>1 DEF Stream
  <2>4. Flow(<<>>, <<>>)
    <3>1. <<>> \o NextHeader = NextHeader
        BY NextHeaderCell, ConcatEmptySeq
    <3> QED
        BY <3>1, AlignedNextHeader DEF Flow
  <2> QED
      BY <1>c, <2>1, <2>2, <2>3, <2>4
<1>2. ASSUME NEW p \in Peers, Write(p) PROVE Flowing'
  <2>1. /\ p \in open
        /\ Flow(Stream(p)', unsent'[p])
        /\ \A q \in Peers : q # p => Stream(q)' = Stream(q) /\ unsent'[q] = unsent[q]
      BY <1>0, <1>2, WriteStream
  <2>2. open' = open
      BY <1>2 DEF Write
  <2> QED
      BY <1>c, <2>1, <2>2
<1>3. ASSUME NEW p \in Peers, Break(p) PROVE Flowing'
  <2>1. /\ Aligned(Stream(p)')
        /\ \A q \in Peers : q # p => Stream(q)' = Stream(q) /\ unsent'[q] = unsent[q]
      BY <1>0, <1>a, <1>3, BreakStream
  <2>2. open' = open \ {p}
      BY <1>3 DEF Break
  <2> QED
      BY <1>c, <2>1, <2>2
<1>4. CASE Accept
    BY <1>0, <1>k, <1>4, AcceptStream DEF Accept
<1>5. CASE AcceptFails
  <2>1. UNCHANGED <<open, unsent>>
      BY <1>0, <1>5, AcceptFailsStream
  <2>2. CASE \A p \in Peers : Stream(p)' = Stream(p)
      BY <1>k, <2>1, <2>2
  <2>3. ASSUME NEW p \in Peers \ open, Stream(p)' = <<>>,
               \A q \in Peers : q # p => Stream(q)' = Stream(q)
        PROVE  Flowing'
      BY <1>c, <2>1, <2>3, AlignedEmpty
  <2> QED
      BY <1>0, <1>5, <2>2, <2>3, AcceptFailsStream
<1>6. CASE Delay \/ Copy \/ MemoryChanges \/ UNCHANGED vars \/ \E p \in Peers : ReportEnd(p)
  <2>1. UNCHANGED <<open, unsent, wire, cur, hdr, payload>>
      BY <1>6 DEF Delay, Copy, MemoryChanges, vars, ReportEnd
  <2>2. \A p \in Peers : Stream(p)' = Stream(p)
      BY <2>1 DEF Stream
  <2> QED
      BY <1>k, <2>1, <2>2
<1>7. CASE cur # Nobody /\ Close
  <2>1. PICK p : p = cur
      OBVIOUS
  <2>2. /\ p \in Peers
        /\ Stream(p)' = <<>> /\ p \notin open'
        /\ \A q \in Peers : q # p => /\ Stream(q)' = Stream(q)
                                  /\ unsent'[q] = unsent[q]
                                  /\ (q \in open' <=> q \in open)
      BY <1>0, <1>7, <2>1, CloseStream
  <2> QED
      BY <1>c, <2>2, AlignedEmpty
<1>8. CASE ReadHeader \/ ReadPayload
  <2>1. UNCHANGED <<open, unsent>>
      BY <1>8 DEF ReadHeader, ReadPayload
  <2> QED
      BY <1>0, <1>k, <1>8, <2>1, ReadingKeeps
<1>9. CASE HeaderRead
  <2>1. CASE Close
    <3>1. cur # Nobody
        BY <1>0, <1>9 DEF HeaderRead, Place
    <3> QED
        BY <1>7, <2>1, <3>1
  <2>2. CASE UNCHANGED <<peerVars, cur, hdr, payload, inbox, short>>
    <3>1. \A p \in Peers : Stream(p)' = Stream(p)
        BY <2>2 DEF Stream
    <3> QED
        BY <1>k, <2>2, <3>1
  <2> QED
      BY <1>9, <2>1, <2>2 DEF HeaderRead
<1>10. CASE ReadFails
  <2>1. cur # Nobody
      BY <1>0, <1>10 DEF ReadFails, Place
  <2> QED
      BY <1>7, <1>10, <2>1 DEF ReadFails
<1>11. CASE Ignore \/ CopyFails \/ Post
  <2>1. pc \in {"payload", "post"} /\ Len(payload) = payloadSize /\ Continue
      BY <1>0, <1>11 DEF Ignore, CopyFails, Post, Place
  <2>2. PICK p : p = cur
      OBVIOUS
  <2>3. /\ p \in Peers
        /\ FirstIn(Stream(p))
        /\ Stream(p)' = AfterFirst(Stream(p))
        /\ \A q \in Peers : q # p => Stream(q)' = Stream(q)
      BY <1>0, <2>1, <2>2, FirstFrame
  <2>4. UNCHANGED <<open, unsent>>
      BY <2>1 DEF Continue
  <2>5. CASE p \in open
    <3>1. Flow(Stream(p), unsent[p])
        BY <1>0, <2>3, <2>5 DEF Flowing
    <3>2. Flow(AfterFirst(Stream(p)), unsent[p])
        BY <1>s, <2>3, <3>1, FlowTaken
    <3> QED
        BY <1>c, <2>3, <2>4, <2>5, <3>2
  <2>6. CASE p \notin open
    <3>1. Aligned(AfterFirst(Stream(p)))
        BY <1>a, <1>s, <2>3, AlignedAfterFirst
    <3> QED
        BY <1>c, <2>3, <2>4, <2>6, <3>1
  <2> QED
      BY <2>5, <2>6
<1>12. ASSUME NEW t \in Tasks, Take(t) PROVE Flowing'
  <2>1. \A p \in Peers : Stream(p)' = Stream(p)
      BY <1>12 DEF Take, Stream
  <2> QED
      BY <1>k, <1>12, <2>1 DEF Take
<1> QED
    BY <1>1, <1>2, <1>3, <1>4, <1>5, <1>6, <1>8, <1>9, <1>10, <1>11, <1>12
    DEF Next, Session

LEMMA SyncIsInSync == SyncInv => InSync
<1> SUFFICES ASSUME SyncInv, NEW p \in Peers PROVE Aligned(Stream(p) \o unsent[p])
    BY DEF InSync
<1>1. TypeOK /\ Place /\ Flowing
    BY DEF SyncInv, IInv
<1>2. Stream(p) \in Seq(CellTypes) /\ unsent[p] \in Seq(CellTypes)
    BY <1>1, StreamType
<1>3. CASE p \in open
    BY <1>1, <1>2, <1>3, FlowAligned DEF Flowing
<1>4. CASE p \notin open
  <2>1. unsent[p] = <<>> /\ Aligned(Stream(p))
      BY <1>1, <1>4 DEF Place, Flowing
  <2> QED
      BY <1>2, <2>1, NothingToCome
<1> QED
    BY <1>3, <1>4

\* The gateway never takes payload for a header or a header for payload, however
\* recv() splits the stream and wherever connections break: for any frames of any
\* size, any decoders and routes and any number of connections.
THEOREM FramesInSync == Spec => []InSync
<1>1. Spec => Init /\ [][Next]_vars
    BY PTL DEF Spec
<1> QED
    BY <1>1, InitSync, NextSync, SyncIsInSync, PTL

-----------------------------------------------------------------------------
(* The channel.                                                            *)

Begun == [p \in Peers |-> FramesIn(Stream(p) \o unsent[p])]
Lines == [p \in Peers |-> FramesIn(Stream(p))]

\* The lines change where the streams do.
LEMMA LinesSame ==
    ASSUME \A q \in Peers : Stream(q)' = Stream(q), UNCHANGED unsent
    PROVE  Begun' = Begun /\ Lines' = Lines
BY DEF Begun, Lines

LEMMA LinesChange ==
    ASSUME NEW p \in Peers,
           \A q \in Peers : q # p => Stream(q)' = Stream(q) /\ unsent'[q] = unsent[q]
    PROVE  /\ Begun' = [Begun EXCEPT ![p] = FramesIn(Stream(p)' \o unsent'[p])]
           /\ Lines' = [Lines EXCEPT ![p] = FramesIn(Stream(p)')]
           /\ Begun[p] = FramesIn(Stream(p) \o unsent[p])
           /\ Lines[p] = FramesIn(Stream(p))
BY DEF Begun, Lines

\* A frame a client is writing is begun and not yet in the line.
LEMMA WriteIsChannel ==
    ASSUME SyncInv, NEW p \in Peers, Write(p)
    PROVE  Channel!Begin(p) \/ Channel!Finish(p) \/ UNCHANGED Channel!vars
<1> DEFINE line == FramesIn(Stream(p))
<1>0. IInv /\ TypeOK /\ Flowing
    BY DEF SyncInv, IInv
<1>1. /\ p \in open
      /\ \E f \in Frames :
             /\ FramesIn(Stream(p) \o unsent[p]) =
                    IF unsent[p] = <<>> THEN line ELSE Append(line, f)
             /\ FramesIn(Stream(p)' \o unsent'[p]) = Append(line, f)
             /\ FramesIn(Stream(p)') \in {line, Append(line, f)}
      /\ \A q \in Peers : q # p => Stream(q)' = Stream(q) /\ unsent'[q] = unsent[q]
    BY <1>0, WriteStream
<1>2. PICK f \in Frames :
          /\ FramesIn(Stream(p) \o unsent[p]) =
                 IF unsent[p] = <<>> THEN line ELSE Append(line, f)
          /\ FramesIn(Stream(p)' \o unsent'[p]) = Append(line, f)
          /\ FramesIn(Stream(p)') \in {line, Append(line, f)}
    BY <1>1
<1> DEFINE more == Append(line, f)
<1>3. line # more
  <2>1. line \in Seq(AnyFrame) /\ f \in AnyFrame
      BY <1>0, StreamType, FramesInType, NetworkGatewayAssumption
  <2> HIDE DEF line
  <2> QED
      BY <2>1, AppendProperties, LenProperties
<1> HIDE DEF line, more
<1>4. /\ Begun' = [Begun EXCEPT ![p] = more]
      /\ Lines' = [Lines EXCEPT ![p] = FramesIn(Stream(p)')]
      /\ Begun[p] = IF unsent[p] = <<>> THEN line ELSE more
      /\ Lines[p] = line
      /\ FramesIn(Stream(p)') \in {line, more}
    BY <1>1, <1>2, LinesChange DEF line, more
<1>5. UNCHANGED <<open, cur, inbox, short>>
    BY DEF Write
<1>6. CASE unsent[p] = <<>>
  <2>1. Begun[p] = Lines[p] /\ Begun' = [Begun EXCEPT ![p] = Append(@, f)]
      BY <1>4, <1>6 DEF more
  <2>2. Lines' \in {Lines, [Lines EXCEPT ![p] = Begun'[p]]}
    <3>1. Begun'[p] = more /\ Lines = [Lines EXCEPT ![p] = line]
        BY <1>4 DEF Begun, Lines
    <3> QED
        BY <1>4, <3>1
  <2>3. Channel!Begin(p)
      BY <1>1, <1>5, <2>1, <2>2 DEF Begun, Lines, Channel!Begin
  <2> QED
      BY <2>3
<1>7. CASE unsent[p] # <<>>
  <2>1. Begun[p] = more /\ Begun' = Begun
      BY <1>4, <1>7 DEF Begun
  <2>2. CASE FramesIn(Stream(p)') = line
    <3>1. Lines' = Lines
        BY <1>4, <2>2 DEF Lines
    <3> QED
        BY <1>5, <2>1, <3>1 DEF Begun, Lines, Channel!vars
  <2>3. CASE FramesIn(Stream(p)') = more
    <3>1. Lines' = [Lines EXCEPT ![p] = Begun[p]] /\ Lines[p] # Begun[p]
        BY <1>3, <1>4, <2>1, <2>3
    <3>2. Channel!Finish(p)
        BY <1>1, <1>5, <2>1, <3>1 DEF Begun, Lines, Channel!Finish
    <3> QED
        BY <3>2
  <2> QED
      BY <1>4, <2>2, <2>3
<1> QED
    BY <1>6, <1>7

\* What gets through of a connection that breaks is the front of its line.
LEMMA BreakIsChannel ==
    ASSUME SyncInv, NEW p \in Peers, Break(p)
    PROVE  Channel!Break(p)
<1>0. IInv /\ TypeOK /\ Flowing
    BY DEF SyncInv, IInv
<1>1. Aligned(Stream(p))
    BY <1>0, StreamType, FlowAligned DEF Flowing
<1>2. /\ Stream(p)' \o unsent'[p] = Stream(p)'
      /\ \E j \in 0..Len(FramesIn(Stream(p))) :
             FramesIn(Stream(p)') = SubSeq(FramesIn(Stream(p)), 1, j)
      /\ \A q \in Peers : q # p => Stream(q)' = Stream(q) /\ unsent'[q] = unsent[q]
    BY <1>0, <1>1, BreakStream
<1>3. /\ Begun' = [Begun EXCEPT ![p] = FramesIn(Stream(p)')]
      /\ Lines' = [Lines EXCEPT ![p] = FramesIn(Stream(p)')]
      /\ Lines[p] = FramesIn(Stream(p))
    BY <1>2, LinesChange
<1>4. \E j \in 0..Len(Lines[p]) : Lines' = [Lines EXCEPT ![p] = SubSeq(@, 1, j)]
    BY <1>2, <1>3
<1>5. Begun' = [Begun EXCEPT ![p] = Lines'[p]]
    BY <1>3 DEF Lines
<1>6. p \in open /\ open' = open \ {p} /\ UNCHANGED <<cur, inbox, short>>
    BY DEF Break
<1> QED
    BY <1>4, <1>5, <1>6 DEF Begun, Lines, Channel!Break

\* A session that is closed leaves nothing of its line.
LEMMA CloseLines ==
    ASSUME SyncInv, cur # Nobody, Close
    PROVE  /\ Begun' = [Begun EXCEPT ![cur] = <<>>]
           /\ Lines' = [Lines EXCEPT ![cur] = <<>>]
<1>0. IInv
    BY DEF SyncInv
<1>1. PICK p : p = cur
    OBVIOUS
<1>2. /\ p \in Peers /\ Stream(p)' = <<>> /\ unsent'[p] = <<>>
      /\ \A q \in Peers : q # p => Stream(q)' = Stream(q) /\ unsent'[q] = unsent[q]
    BY <1>0, <1>1, CloseStream
<1>3. Stream(p)' \o unsent'[p] = <<>>
    BY <1>2, EmptySeq, ConcatEmptySeq
<1>4. /\ Begun' = [Begun EXCEPT ![p] = FramesIn(Stream(p)' \o unsent'[p])]
      /\ Lines' = [Lines EXCEPT ![p] = FramesIn(Stream(p)')]
    BY <1>2, LinesChange
<1>5. FramesIn(Stream(p)' \o unsent'[p]) = <<>> /\ FramesIn(Stream(p)') = <<>>
    BY <1>2, <1>3, FramesOfNothing
<1> QED
    BY <1>1, <1>4, <1>5

\* The session ends with its frames used up: the connection is over.
LEMMA DismissIsChannel ==
    ASSUME SyncInv, cur # Nobody, cur \notin open, ~FirstIn(Stream(cur)), Close
    PROVE  Channel!Dismiss
<1>0. IInv /\ TypeOK /\ Place /\ Flowing
    BY DEF SyncInv, IInv
<1>1. cur \in Peers
    BY <1>0 DEF TypeOK
<1>2. Stream(cur) \in Seq(CellTypes) /\ Aligned(Stream(cur)) /\ unsent[cur] = <<>>
    BY <1>0, <1>1, StreamType DEF Flowing, Place
<1>3. FramesIn(Stream(cur)) = <<>> /\ Stream(cur) \o unsent[cur] = Stream(cur)
    BY <1>2, NoFirstFrame, ConcatEmptySeq
<1>4. Begun[cur] = <<>> /\ Lines[cur] = <<>>
    BY <1>1, <1>3 DEF Begun, Lines
<1>5. Begun' = Begun /\ Lines' = Lines
    BY <1>4, CloseLines DEF Begun, Lines
<1>6. cur' = Nobody /\ UNCHANGED <<open, inbox, short>>
    BY DEF Close
<1> QED
    BY <1>4, <1>5, <1>6 DEF Begun, Lines, Channel!Dismiss

\* A payload too large is that of the first frame of the line, come to its end or
\* not, unless the connection broke in the middle of it.
LEMMA RefuseIsChannel ==
    ASSUME SyncInv, pc = "header", Len(hdr) = HeaderSize, payloadSize > MaxPayload, Close
    PROVE  Channel!Refuse \/ Channel!Dismiss
<1>0. IInv /\ TypeOK /\ Place /\ Flowing
    BY DEF SyncInv, IInv
<1>1. cur \in Peers /\ cur # Nobody /\ payload = <<>>
    BY <1>0 DEF Place, TypeOK
<1> DEFINE s == Stream(cur)
           u == unsent[cur]
           r == s \o u
<1>2. s \in Seq(CellTypes) /\ u \in Seq(CellTypes)
    BY <1>0, <1>1, StreamType
<1>3. Len(s) >= 2 /\ s[2] = hdr[2]
  <2> DEFINE w == wire[cur]
  <2>1. hdr \in Seq(CellTypes) /\ w \in Seq(CellTypes) /\ Len(hdr) = 2
      BY <1>0, <1>1 DEF TypeOK, HeaderSize
  <2>2. s = hdr \o w
      BY <1>1, <2>1, ConcatEmptySeq DEF Stream
  <2> HIDE DEF s, w
  <2>3. /\ Len(w) \in Nat /\ Len(hdr \o w) = Len(hdr) + Len(w)
        /\ \A i \in 1..Len(hdr) : (hdr \o w)[i] = hdr[i]
      BY <2>1, CellOfConcat
  <2> QED
      BY <2>1, <2>2, <2>3
<1>4. Aligned(r) /\ (cur \in open => Aligned(r \o NextHeader))
    BY <1>0, <1>1, <1>2, FlowAligned, SyncIsInSync DEF Flowing, InSync
<1>5. Begun[cur] = FramesIn(r)
    BY <1>1 DEF Begun
<1>6. cur \notin open => r = s
    BY <1>0, <1>1, <1>2, ConcatEmptySeq DEF Place
<1> HIDE DEF s, u
<1>7. r \in Seq(CellTypes) /\ Len(r) \in Nat /\ Len(r) >= 2 /\ r[2] = hdr[2]
    BY <1>2, <1>3, CellOfConcat
<1> HIDE DEF r
<1>8. CASE FirstIn(r)
  <2> DEFINE first == Head(FramesIn(r))
  <2>1. FramesIn(r) # <<>> /\ first = FrameAt(r, 2)
      BY <1>4, <1>7, <1>8, FramesTaken
  <2>2. payloadSize \in Nat /\ r[2][2] = payloadSize
      BY <1>0, <1>7, HeaderNumbers DEF payloadSize
  <2>3. first.payload = [j \in 1..payloadSize |-> r[2 + j][2]]
      BY <2>1, <2>2 DEF FrameAt
  <2>4. Len(first.payload) = payloadSize
      BY <2>2, <2>3
  <2>5. Begun[cur] # <<>> /\ Oversize(Head(Begun[cur]))
      BY <1>5, <2>1, <2>4 DEF Oversize
  <2>6. cur' = Nobody /\ open' = open \ {cur} /\ UNCHANGED <<inbox, short>>
      BY DEF Close
  <2>7. Channel!Refuse
      BY <1>1, <2>5, <2>6, CloseLines DEF Begun, Lines, Channel!Refuse
  <2> QED
      BY <2>7
<1>9. CASE ~FirstIn(r)
  <2>1. 2 \in 1..Len(r) /\ r[2][1] = "size"
      BY <1>4, <1>7, HeaderFirst
  <2>2. cur \notin open
    <3>1. Aligned(r \o NextHeader) => 2 + r[2][2] <= Len(r)
        BY <1>7, <2>1, SizesFit
    <3> QED
        BY <1>4, <1>7, <1>9, <3>1 DEF FirstIn, HeaderSize
  <2>3. Channel!Dismiss
      BY <1>1, <1>6, <1>9, <2>2, DismissIsChannel DEF s
  <2> QED
      BY <2>3
<1> QED
    BY <1>8, <1>9

\* A connection that is over and has nothing left to read ends in the middle of a
\* frame, or between two.
LEMMA ReadFailsIsChannel ==
    ASSUME SyncInv, ReadFails
    PROVE  Channel!Dismiss
<1>0. IInv /\ TypeOK /\ Place
    BY DEF SyncInv, IInv
<1>1. cur \in Peers /\ cur # Nobody /\ cur \notin open /\ wire[cur] = <<>> /\ Close
    BY <1>0 DEF ReadFails, Place, TypeOK
<1>2. hdr \in Seq(CellTypes) /\ payload \in Seq(CellTypes) /\ hdr \o payload \in Seq(CellTypes)
    BY <1>0, CellOfConcat DEF TypeOK
<1>3. Stream(cur) = hdr \o payload
    BY <1>1, <1>2, ConcatEmptySeq DEF Stream
<1> DEFINE s == hdr \o payload
<1>4. /\ Len(hdr) \in Nat /\ Len(payload) \in Nat /\ Len(s) = Len(hdr) + Len(payload)
      /\ \A i \in 1..Len(hdr) : s[i] = hdr[i]
    BY <1>2, CellOfConcat
<1> HIDE DEF s
<1>5. CASE pc = "header" /\ Len(hdr) < HeaderSize
  <2>1. Len(payload) = 0
      BY <1>0, <1>5, EmptySeq DEF Place
  <2> QED
      BY <1>1, <1>3, <1>4, <1>5, <2>1, DismissIsChannel DEF s, FirstIn, HeaderSize
<1>6. CASE pc = "payload" /\ Len(payload) < payloadSize
  <2>1. Len(hdr) = 2 /\ payloadSize \in Nat
      BY <1>0, <1>6, HeaderNumbers DEF Place, HeaderSize
  <2>2. s[2][2] = payloadSize
      BY <1>4, <2>1 DEF payloadSize
  <2>3. ~FirstIn(s)
      BY <1>4, <1>6, <2>1, <2>2 DEF FirstIn, HeaderSize
  <2> QED
      BY <1>1, <1>3, <2>3, DismissIsChannel DEF s
<1> QED
    BY <1>5, <1>6 DEF ReadFails

\* The gateway goes on to the next header: the first frame of the line is gone.
LEMMA ContinueLines ==
    ASSUME SyncInv, pc \in {"payload", "post"}, Len(payload) = payloadSize, Continue
    PROVE  /\ Accepted(Message) <=> Valid(msgId, payloadSize)
           /\ ~Oversize(Message)
           /\ TargetOf(Message) = Routes[msgId]
           /\ cur # Nobody /\ Lines[cur] # <<>> /\ Head(Lines[cur]) = Message
           /\ Lines' = [Lines EXCEPT ![cur] = Tail(@)]
           /\ Begun' = [Begun EXCEPT ![cur] = Tail(@)]
           /\ UNCHANGED <<open, cur, short>>
<1>0. IInv /\ TypeOK /\ Place /\ Flowing
    BY DEF SyncInv, IInv
<1>1. PICK p : p = cur
    OBVIOUS
<1>2. /\ p \in Peers
      /\ FirstIn(Stream(p))
      /\ FrameAt(Stream(p), 2) = Message
      /\ Stream(p)' = AfterFirst(Stream(p))
      /\ \A q \in Peers : q # p => Stream(q)' = Stream(q)
    BY <1>0, <1>1, FirstFrame
<1>3. UNCHANGED <<open, unsent, cur, short>>
    BY DEF Continue, peerVars
<1> DEFINE s == Stream(p)
           u == unsent[p]
<1>4. s \in Seq(CellTypes) /\ u \in Seq(CellTypes) /\ s \o u \in Seq(CellTypes)
    BY <1>0, <1>2, StreamType, CellOfConcat
<1>5. Aligned(s) /\ Aligned(s \o u)
    BY <1>0, <1>2, <1>4, AlignedPrefix, SyncIsInSync DEF InSync
<1> HIDE DEF s, u
<1>6. FirstIn(s) /\ FirstIn(s \o u) /\ AfterFirst(s \o u) = AfterFirst(s) \o u
    BY <1>2, <1>4, FirstBefore DEF s
<1>7. /\ FramesIn(s) # <<>>
      /\ Head(FramesIn(s)) = FrameAt(s, 2)
      /\ Tail(FramesIn(s)) = FramesIn(AfterFirst(s))
    BY <1>4, <1>5, <1>6, FramesTaken
<1>8. Tail(FramesIn(s \o u)) = FramesIn(AfterFirst(s) \o u)
  <2>1. Tail(FramesIn(s \o u)) = FramesIn(AfterFirst(s \o u))
      BY <1>4, <1>5, <1>6, FramesTaken
  <2> QED
      BY <1>6, <2>1
<1>9. /\ Begun' = [Begun EXCEPT ![p] = FramesIn(Stream(p)' \o unsent'[p])]
      /\ Lines' = [Lines EXCEPT ![p] = FramesIn(Stream(p)')]
      /\ Begun[p] = FramesIn(s \o u)
      /\ Lines[p] = FramesIn(s)
    BY <1>2, <1>3, LinesChange DEF s, u
<1>10. /\ Begun' = [Begun EXCEPT ![p] = Tail(@)]
       /\ Lines' = [Lines EXCEPT ![p] = Tail(@)]
  <2>1. Stream(p)' = AfterFirst(s) /\ unsent'[p] = u
      BY <1>2, <1>3 DEF s, u
  <2> QED
      BY <1>7, <1>8, <1>9, <2>1
<1>11. Len(hdr) = HeaderSize /\ payloadSize <= MaxPayload
    BY <1>0 DEF Place
<1>12. Message.id = msgId /\ Len(Message.payload) = payloadSize
    BY <1>0, <1>11, MessageType
<1>13. payloadSize \in Nat /\ MaxPayload \in Nat
    BY <1>0, <1>11, HeaderNumbers, NetworkGatewayAssumption
<1>14. /\ Accepted(Message) <=> Valid(msgId, payloadSize)
       /\ ~Oversize(Message)
       /\ TargetOf(Message) = Routes[msgId]
    BY <1>11, <1>12, <1>13 DEF Accepted, Oversize, TargetOf
<1>15. cur # Nobody
    BY <1>1, <1>2, NetworkGatewayAssumption
<1> QED
    BY <1>1, <1>2, <1>3, <1>7, <1>9, <1>10, <1>14, <1>15 DEF s

\* A connection lost before it was served leaves nothing of its line.
LEMMA AcceptFailsIsChannel ==
    ASSUME SyncInv, AcceptFails
    PROVE  (\E p \in Peers : Channel!Abandon(p)) \/ UNCHANGED Channel!vars
<1>0. IInv /\ TypeOK /\ Place
    BY DEF SyncInv, IInv
<1>1. UNCHANGED <<open, unsent, cur, inbox, short>> /\ cur = Nobody
    BY <1>0, AcceptFailsStream DEF AcceptFails, Place
<1>2. CASE \A p \in Peers : Stream(p)' = Stream(p)
  <2>1. Begun' = Begun /\ Lines' = Lines
      BY <1>1, <1>2, LinesSame
  <2> QED
      BY <1>1, <2>1 DEF Begun, Lines, Channel!vars
<1>3. ASSUME NEW p \in Peers \ open, Stream(p)' = <<>>,
             \A q \in Peers : q # p => Stream(q)' = Stream(q)
      PROVE  Channel!Abandon(p)
  <2>1. unsent'[p] = <<>>
      BY <1>0, <1>1 DEF Place
  <2>2. Stream(p)' \o unsent'[p] = <<>>
      BY <1>3, <2>1, EmptySeq, ConcatEmptySeq
  <2>3. Begun' = [Begun EXCEPT ![p] = <<>>] /\ Lines' = [Lines EXCEPT ![p] = <<>>]
      BY <1>1, <1>3, <2>2, LinesChange, FramesOfNothing
  <2>4. p # cur
      BY <1>1, NetworkGatewayAssumption
  <2> QED
      BY <1>1, <2>3, <2>4 DEF Begun, Lines, Channel!Abandon
<1> QED
    BY <1>0, <1>2, <1>3, AcceptFailsStream

\* Each step is one of the channel, or none.
LEMMA ChannelStep == SyncInv /\ [Next]_vars => [Channel!Next]_(Channel!vars)
<1> SUFFICES ASSUME SyncInv, [Next]_vars PROVE Channel!Next \/ UNCHANGED Channel!vars
    OBVIOUS
<1> USE DEF peerVars
<1>0. IInv /\ TypeOK /\ Place
    BY DEF SyncInv, IInv
<1>k. ASSUME \A p \in Peers : Stream(p)' = Stream(p), UNCHANGED <<open, unsent, cur, inbox, short>>
      PROVE  UNCHANGED Channel!vars
  <2>1. Begun' = Begun /\ Lines' = Lines
      BY <1>k, LinesSame
  <2> QED
      BY <1>k, <2>1 DEF Begun, Lines, Channel!vars
<1>1. ASSUME NEW p \in Peers, Connect(p) PROVE Channel!Next
  <2>1. /\ p \notin open /\ p # cur /\ wire[p] = <<>> /\ unsent[p] = <<>>
        /\ open' = open \cup {p} /\ UNCHANGED <<unsent, wire, cur, hdr, payload, inbox, short>>
      BY <1>0, <1>1 DEF Connect, Place
  <2>2. Stream(p) \o unsent[p] = <<>>
      BY <2>1, EmptySeq, ConcatEmptySeq DEF Stream
  <2>3. Begun[p] = <<>> /\ Begun' = Begun /\ Lines' = Lines
      BY <2>1, <2>2, LinesSame, FramesOfNothing DEF Begun, Stream
  <2>4. Channel!Connect(p)
      BY <2>1, <2>3 DEF Begun, Lines, Channel!Connect
  <2> QED
      BY <2>4 DEF Channel!Next
<1>2. ASSUME NEW p \in Peers, Write(p) PROVE Channel!Next \/ UNCHANGED Channel!vars
    BY <1>2, WriteIsChannel DEF Channel!Next
<1>3. ASSUME NEW p \in Peers, Break(p) PROVE Channel!Next
    BY <1>3, BreakIsChannel DEF Channel!Next
<1>4. CASE Accept
  <2>1. backlog \in Peers /\ \A p \in Peers : Stream(p)' = Stream(p)
      BY <1>0, <1>4, AcceptStream
  <2>2. cur = Nobody /\ cur' = backlog /\ UNCHANGED <<open, unsent, inbox, short>>
      BY <1>0, <1>4 DEF Accept, Place
  <2>3. Begun' = Begun /\ Lines' = Lines
      BY <2>1, <2>2, LinesSame
  <2>4. Channel!Serve(backlog)
      BY <2>2, <2>3 DEF Begun, Lines, Channel!Serve
  <2> QED
      BY <2>1, <2>4 DEF Channel!Next
<1>5. CASE AcceptFails
    BY <1>5, AcceptFailsIsChannel DEF Channel!Next
<1>6. CASE Delay \/ Copy \/ UNCHANGED vars \/ \E p \in Peers : ReportEnd(p)
    BY <1>k, <1>6 DEF Delay, Copy, vars, ReportEnd, Stream
<1>7. CASE ReadHeader \/ ReadPayload
  <2>1. UNCHANGED <<open, unsent, cur, inbox, short>>
      BY <1>7 DEF ReadHeader, ReadPayload
  <2> QED
      BY <1>0, <1>k, <1>7, <2>1, ReadingKeeps
<1>8. CASE HeaderRead
  <2>1. CASE payloadSize > MaxPayload /\ Close
      BY <1>8, <2>1, RefuseIsChannel DEF HeaderRead, Channel!Next
  <2>2. CASE UNCHANGED <<peerVars, cur, hdr, payload, inbox, short>>
      BY <1>k, <2>2 DEF Stream
  <2> QED
      BY <1>8, <2>1, <2>2 DEF HeaderRead
<1>9. CASE ReadFails
    BY <1>9, ReadFailsIsChannel DEF Channel!Next
<1>10. CASE Ignore
  <2>1. Channel!Move
      BY <1>10, ContinueLines DEF Ignore, Begun, Lines, Channel!Move
  <2> QED
      BY <2>1 DEF Channel!Next
<1>11. CASE CopyFails
  <2>1. Channel!Move
      BY <1>11, ContinueLines DEF CopyFails, Begun, Lines, Channel!Move
  <2> QED
      BY <2>1 DEF Channel!Next
<1>12. CASE Post
  <2>1. Len(payload) = payloadSize /\ Valid(msgId, payloadSize)
      BY <1>0, <1>12 DEF Post, Place
  <2>2. Channel!Move
      BY <1>12, <2>1, ContinueLines DEF Post, Begun, Lines, Channel!Move
  <2> QED
      BY <2>2 DEF Channel!Next
<1>13. ASSUME NEW t \in Tasks, Take(t) PROVE Channel!Next
  <2>1. Begun' = Begun /\ Lines' = Lines
      BY <1>13, LinesSame DEF Take, Stream
  <2>2. Channel!Take(t)
      BY <1>13, <2>1 DEF Take, Begun, Lines, Channel!Take
  <2> QED
      BY <2>2 DEF Channel!Next
<1>14. CASE MemoryChanges
  <2>1. Begun' = Begun /\ Lines' = Lines
      BY <1>14, LinesSame DEF MemoryChanges, Stream
  <2>2. Channel!MemoryChanges
      BY <1>14, <2>1 DEF MemoryChanges, Begun, Lines, Channel!MemoryChanges
  <2> QED
      BY <2>2 DEF Channel!Next
<1> QED
    BY <1>1, <1>2, <1>3, <1>4, <1>5, <1>6, <1>7, <1>8, <1>9, <1>10, <1>11, <1>12,
       <1>13, <1>14
    DEF Next, Session

LEMMA ChannelInit == Init => Channel!Init
<1> SUFFICES ASSUME Init PROVE Channel!Init
    OBVIOUS
<1>1. <<>> \o <<>> = <<>>
    BY EmptySeq, ConcatEmptySeq
<1>2. \A p \in Peers : Stream(p) = <<>>
    BY <1>1, NetworkGatewayAssumption DEF Init, Stream
<1>3. /\ [p \in Peers |-> FramesIn(Stream(p) \o unsent[p])] = [p \in Peers |-> <<>>]
      /\ [p \in Peers |-> FramesIn(Stream(p))] = [p \in Peers |-> <<>>]
    BY <1>1, <1>2, FramesOfNothing DEF Init
<1> QED
    BY <1>3 DEF Init, Channel!Init

\* Each connection is a line of whole frames: however bytes arrive and whoever
\* reconnects, the first frame of the client served goes to the task it is routed
\* to, unchanged, once and before the next.  A frame is lost only when the client's
\* end breaks, behind a frame too large for the buffer, or while memory is short: a
\* session that ends on a connection that holds ends at such a frame, and one whose
\* connection broke ends with every frame that came handed over.  For any frames,
\* decoders, routes and queue lengths and any number of connections.
THEOREM ChannelSimulation == Spec => SimulatesFrameChannel
<1>1. Spec => Init /\ [][Next]_vars
    BY PTL DEF Spec
<1> QED
    BY <1>1, InitSync, NextSync, ChannelInit, ChannelStep, PTL DEF SimulatesFrameChannel

=============================================================================
