------------------------- MODULE ClientGatewayProofs -------------------------
(***************************************************************************)
(* Safety of ClientGateway for any messages, any queue length and any      *)
(* number of sockets: type correctness, the accounting of sockets, that    *)
(* every connection carries whole frames end to end, and that the link     *)
(* implements OutboundLine.                                                *)
(***************************************************************************)
EXTENDS ClientGateway, FrameLemmas

-----------------------------------------------------------------------------
(* Type correctness.                                                       *)

LEMMA InitType == Init => TypeOK
<1> SUFFICES ASSUME Init PROVE TypeOK
    OBVIOUS
<1>1. /\ <<>> \in Seq(Messages) /\ Len(<<>>) = 0
      /\ <<>> \in Seq(CellTypes)
    BY EmptySeq
<1> QED
    BY <1>1, ClientGatewayAssumption DEF Init, TypeOK

\* Where the task is decides whether there is a socket and how many addresses are
\* left: without it neither the types (connect() needs a socket) nor the accounting
\* below would be inductive.
Link ==
    /\ allocated = {sock} \ {Nil}
    /\ pc = "socket" => sock = Nil
    /\ pc \in {"resolve", "connect", "send"} => sock # Nil
    /\ pc # "connect" => tries = 0

IInv == TypeOK /\ Link

LEMMA NextType == IInv /\ [Next]_vars => TypeOK'
<1> SUFFICES ASSUME TypeOK, Link, [Next]_vars PROVE TypeOK'
    BY DEF IInv
<1> USE ClientGatewayAssumption DEF linkVars
<1>0. Len(inbox) \in Nat /\ <<>> \in Seq(CellTypes)
    BY LenProperties, EmptySeq DEF TypeOK
<1>1. CASE Submit
  <2>1. PICK m \in Messages : inbox' = Append(inbox, m)
      BY <1>1 DEF Submit
  <2>2. inbox' \in Seq(Messages) /\ Len(inbox') = Len(inbox) + 1
      BY <2>1, AppendProperties DEF TypeOK
  <2>3. Len(inbox') <= QueueLen
      BY <1>0, <1>1, <2>2 DEF Submit
  <2> QED
      BY <1>1, <2>2, <2>3 DEF Submit, TypeOK
<1>2. ASSUME inbox # <<>>, inbox' = Tail(inbox)
      PROVE  /\ Head(inbox) \in Messages
             /\ inbox' \in Seq(Messages) /\ Len(inbox') <= QueueLen
  <2>1. /\ Head(inbox) \in Messages
        /\ inbox' \in Seq(Messages) /\ Len(inbox') = Len(inbox) - 1
      BY <1>2, HeadTailProperties DEF TypeOK
  <2> QED
      BY <1>0, <2>1 DEF TypeOK
<1>3. CASE NoEncoder
    BY <1>2, <1>3 DEF NoEncoder, TypeOK
<1>4. CASE Encode
  <2>1. Head(inbox) \in Messages /\ inbox' \in Seq(Messages) /\ Len(inbox') <= QueueLen
      BY <1>2, <1>4 DEF Encode
  <2>2. frame' \in Seq(CellTypes)
      BY <1>4, <2>1, CellsType DEF Encode
  <2> QED
      BY <1>4, <2>1, <2>2 DEF Encode, EnsureConnected, TypeOK
<1>5. CASE SocketFails
    BY <1>0, <1>5 DEF SocketFails, Return, TypeOK
<1>6. CASE Socket
    BY <1>6 DEF Socket, TypeOK
<1>7. CASE ResolveFails
    BY <1>0, <1>7 DEF ResolveFails, CloseLink, Return, TypeOK
<1>8. CASE Resolve
    BY <1>8 DEF Resolve, TypeOK
<1>9. CASE ConnectFails
  <2>1. CASE tries > 1 /\ tries' = tries - 1 /\ UNCHANGED <<pc, msg, frame, sock, allocated>>
    <3>1. tries' \in 0..MaxAddrs
        BY <2>1 DEF TypeOK
    <3> QED
        BY <1>9, <2>1, <3>1 DEF ConnectFails, TypeOK
  <2>2. CASE CloseLink /\ Return
      BY <1>0, <1>9, <2>2 DEF ConnectFails, CloseLink, Return, TypeOK
  <2> QED
      BY <1>9, <2>1, <2>2 DEF ConnectFails
<1>10. CASE Connect
    BY <1>10 DEF Connect, Link, TypeOK
<1>11. CASE Send
  <2>1. PICK n \in 1..Len(frame) :
            /\ frame' = SubSeq(frame, n + 1, Len(frame))
            /\ \/ /\ sock \in far
                  /\ Len(wire[sock]) + n <= WireMax
                  /\ wire' = [wire EXCEPT ![sock] = @ \o SubSeq(frame, 1, n)]
               \/ /\ sock \notin far
                  /\ UNCHANGED wire
      BY <1>11 DEF Send
  <2>2. frame \in Seq(CellTypes)
      BY DEF TypeOK
  <2>3. frame' \in Seq(CellTypes)
      BY <2>1, <2>2, PieceType, LenProperties
  <2>4. SubSeq(frame, 1, n) \in Seq(CellTypes)
      BY <2>1, <2>2, PieceType, LenProperties
  <2>5. wire' \in [Conns -> Seq(CellTypes)]
    <3>1. CASE sock \in far
      <4>1. sock \in Conns /\ wire \in [Conns -> Seq(CellTypes)]
          BY <3>1 DEF TypeOK
      <4>2. wire[sock] \o SubSeq(frame, 1, n) \in Seq(CellTypes)
          BY <4>1, <2>4, ConcatProperties
      <4> QED
          BY <2>1, <3>1, <4>1, <4>2
    <3>2. CASE sock \notin far
        BY <2>1, <3>2 DEF TypeOK
    <3> QED
        BY <3>1, <3>2
  <2> QED
      BY <1>11, <2>3, <2>5 DEF Send, TypeOK
<1>12. CASE Sent
    BY <1>0, <1>12 DEF Sent, Return, TypeOK
<1>13. CASE SendFails
    BY <1>0, <1>13 DEF SendFails, CloseLink, Return, TypeOK
<1>14. ASSUME NEW c \in Conns, Take(c) PROVE TypeOK'
  <2>1. wire \in [Conns -> Seq(CellTypes)] /\ wire[c] \in Seq(CellTypes)
      BY DEF TypeOK
  <2>2. Len(wire[c]) \in Nat /\ Len(wire[c]) >= 2
      BY <1>14, <2>1, LenProperties DEF Take, HeaderSize
  <2>3. wire[c][2] \in CellTypes
      BY <2>1, <2>2, ElementOfSeq
  <2>4. wire[c][2][2] \in Nat
      BY <2>3 DEF CellTypes
  <2>5. SubSeq(wire[c], HeaderSize + wire[c][2][2] + 1, Len(wire[c])) \in Seq(CellTypes)
    <3> DEFINE first == HeaderSize + wire[c][2][2] + 1
    <3>1. first \in Nat /\ first >= 1
        BY <2>4 DEF HeaderSize
    <3> HIDE DEF first
    <3>2. SubSeq(wire[c], first, Len(wire[c])) \in Seq(CellTypes)
        BY <2>1, <2>2, <3>1, PieceType
    <3> QED
        BY <3>2 DEF first
  <2>6. wire' \in [Conns -> Seq(CellTypes)]
      BY <1>14, <2>1, <2>5 DEF Take
  <2> QED
      BY <1>14, <2>6 DEF Take, TypeOK
<1>15. ASSUME NEW c \in Conns, Gone(c) PROVE TypeOK'
    BY <1>0, <1>15 DEF Gone, TypeOK
<1>16. CASE UNCHANGED vars
    BY <1>16 DEF vars, TypeOK
<1> QED
    BY <1>1, <1>3, <1>4, <1>5, <1>6, <1>7, <1>8, <1>9, <1>10, <1>11, <1>12, <1>13,
       <1>14, <1>15, <1>16
    DEF Next, Handle

-----------------------------------------------------------------------------
(* Accounting of sockets.                                                  *)

LEMMA InitInv == Init => IInv
    BY InitType DEF Init, IInv, Link

LEMMA NextInv == IInv /\ [Next]_vars => IInv'
<1> SUFFICES ASSUME IInv, [Next]_vars PROVE IInv'
    OBVIOUS
<1> USE ClientGatewayAssumption DEF linkVars
<1>0. TypeOK'
    BY NextType
<1>1. CASE Submit
    BY <1>0, <1>1 DEF Submit, IInv, Link
<1>2. CASE NoEncoder
    BY <1>0, <1>2 DEF NoEncoder, IInv, Link
<1>3. CASE Encode
    BY <1>0, <1>3 DEF Encode, EnsureConnected, IInv, Link
<1>4. CASE SocketFails
    BY <1>0, <1>4 DEF SocketFails, Return, IInv, Link
<1>5. CASE Socket
    BY <1>0, <1>5 DEF Socket, IInv, Link
<1>6. CASE ResolveFails
    BY <1>0, <1>6 DEF ResolveFails, CloseLink, Return, IInv, Link
<1>7. CASE Resolve
    BY <1>0, <1>7 DEF Resolve, IInv, Link
<1>8. CASE ConnectFails
    BY <1>0, <1>8 DEF ConnectFails, CloseLink, Return, IInv, Link
<1>9. CASE Connect
    BY <1>0, <1>9 DEF Connect, IInv, Link
<1>10. CASE Send
    BY <1>0, <1>10 DEF Send, IInv, Link
<1>11. CASE Sent
    BY <1>0, <1>11 DEF Sent, Return, IInv, Link
<1>12. CASE SendFails
    BY <1>0, <1>12 DEF SendFails, CloseLink, Return, IInv, Link
<1>13. ASSUME NEW c \in Conns, Take(c) \/ Gone(c) PROVE IInv'
    BY <1>0, <1>13 DEF Take, Gone, IInv, Link
<1>14. CASE UNCHANGED vars
    BY <1>0, <1>14 DEF vars, IInv, Link
<1> QED
    BY <1>1, <1>2, <1>3, <1>4, <1>5, <1>6, <1>7, <1>8, <1>9, <1>10, <1>11, <1>12,
       <1>13, <1>14
    DEF Next, Handle

\* The queue never holds more than its length and the link, its connections and
\* the frame in hand keep their types: for every queue length and message set.
THEOREM TypeCorrect == Spec => []TypeOK
<1>1. Spec => Init /\ [][Next]_vars
    BY PTL DEF Spec
<1>2. IInv => TypeOK
    BY DEF IInv
<1> QED
    BY <1>1, <1>2, InitInv, NextInv, PTL

\* No path through open() and close() leaks a socket or leaves one half connected
\* in the link: for every number of sockets and addresses.
THEOREM EverySocketAccounted == Spec => []SocketsAccounted
<1>1. Spec => Init /\ [][Next]_vars
    BY PTL DEF Spec
<1>2. IInv => SocketsAccounted
    BY DEF IInv, Link, SocketsAccounted
<1> QED
    BY <1>1, <1>2, InitInv, NextInv, PTL

-----------------------------------------------------------------------------
(* Synchronisation.                                                        *)

\* What is to follow the cells under way on connection c.
ToCome(c) == IF c = sock /\ c \in far THEN frame \o NextHeader ELSE <<>>

\* Nothing is under way on a connection the remote end does not have; a frame in
\* hand is whole until there is a connection to write it to, and handed over or
\* given up when the handler returns.
Writing ==
    /\ \A c \in Conns \ far : wire[c] = <<>>
    /\ pc = "wait" => frame = <<>>
    /\ pc \in {"socket", "resolve", "connect"} =>
           /\ msg \in Messages
           /\ frame = Cells(msg)
           /\ sock \notin far

SyncInv == IInv /\ Writing /\ InSync

\* Every connection carries frames end to end.
LEMMA WireAligned ==
    ASSUME TypeOK, InSync, NEW c \in Conns
    PROVE  Aligned(wire[c])
<1>1. wire[c] \in Seq(CellTypes) /\ frame \o NextHeader \in Seq(CellTypes)
    BY NextHeaderCell, ConcatProperties DEF TypeOK
<1>2. CASE c = sock /\ c \in far
  <2>1. Aligned(wire[c] \o (frame \o NextHeader))
      BY <1>2 DEF InSync
  <2> QED
      BY <1>1, <2>1, AlignedPrefix
<1>3. CASE ~(c = sock /\ c \in far)
  <2>1. Aligned(wire[c] \o <<>>)
      BY <1>3 DEF InSync
  <2>2. <<>> \in Seq(CellTypes)
      BY EmptySeq
  <2> QED
      BY <1>1, <2>1, <2>2, AlignedPrefix
<1> QED
    BY <1>2, <1>3

LEMMA InitSync == Init => SyncInv
<1> SUFFICES ASSUME Init PROVE SyncInv
    OBVIOUS
<1>1. IInv
    BY InitInv
<1>2. Writing
    BY DEF Init, Writing
<1>3. InSync
  <2> SUFFICES ASSUME NEW c \in Conns PROVE Aligned(wire[c] \o ToCome(c))
      BY DEF InSync, ToCome
  <2>1. wire[c] = <<>> /\ ToCome(c) = <<>>
      BY DEF Init, ToCome
  <2>2. <<>> \in Seq(CellTypes)
      BY EmptySeq
  <2> QED
      BY <2>1, <2>2, AlignedEmpty, NothingToCome
<1> QED
    BY <1>1, <1>2, <1>3 DEF SyncInv

LEMMA NextSync == SyncInv /\ [Next]_vars => SyncInv'
<1> SUFFICES ASSUME SyncInv, [Next]_vars PROVE SyncInv'
    OBVIOUS
<1> USE ClientGatewayAssumption DEF linkVars
<1>t. TypeOK /\ Link /\ Writing /\ InSync
    BY DEF SyncInv, IInv
<1>i. IInv'
    BY NextInv DEF SyncInv
<1>a. \A c \in Conns : wire[c] \in Seq(CellTypes) /\ Aligned(wire[c])
    BY <1>t, WireAligned DEF TypeOK
<1>b. \A c \in Conns : Aligned(wire[c] \o ToCome(c))
    BY <1>t DEF InSync, ToCome
<1>c. ASSUME \A c \in Conns : Aligned(wire'[c] \o ToCome(c)') PROVE InSync'
    BY <1>c DEF InSync, ToCome
<1>n. far \subseteq Conns /\ sock \in Conns \cup {Nil} /\ frame \in Seq(CellTypes)
    BY <1>t DEF TypeOK
\* Nothing is written to any connection.
<1>s. ASSUME wire' = wire, far' = far, sock' \notin far PROVE InSync'
  <2>1. \A c \in Conns : ToCome(c)' = <<>>
      BY <1>s DEF ToCome
  <2>2. \A c \in Conns : Aligned(wire'[c] \o ToCome(c)')
      BY <1>a, <1>s, <2>1, NothingToCome
  <2> QED
      BY <1>c, <2>2
\* The same is to come as before.
<1>u. ASSUME wire' = wire, far' = far, sock' = sock, frame' = frame PROVE InSync'
    BY <1>t, <1>u DEF InSync
<1>1. CASE Submit
    BY <1>i, <1>t, <1>u, <1>1 DEF Submit, Writing, SyncInv
<1>2. CASE NoEncoder
    BY <1>i, <1>t, <1>u, <1>2 DEF NoEncoder, Writing, SyncInv
<1>3. CASE Encode
  <2> DEFINE m == Head(inbox)
  <2>1. m \in Messages
      BY <1>t, <1>3, HeadTailProperties DEF TypeOK, Encode
  <2>2. Writing'
      BY <1>t, <1>n, <1>3, <2>1 DEF Encode, EnsureConnected, Writing
  <2>3. ASSUME NEW c \in Conns PROVE Aligned(wire'[c] \o ToCome(c)')
    <3>1. CASE c = sock /\ c \in far
      <4>1. ToCome(c) = <<>> \o NextHeader
          BY <1>t, <1>3, <3>1 DEF ToCome, Writing, Encode
      <4>2. <<>> \o NextHeader = NextHeader
          BY NextHeaderCell, ConcatEmptySeq
      <4>3. Aligned(wire[c] \o NextHeader)
          BY <1>b, <4>1, <4>2
      <4>4. ToCome(c)' = Cells(m) \o NextHeader
          BY <1>3, <3>1 DEF ToCome, Encode
      <4>5. Aligned(wire[c] \o (Cells(m) \o NextHeader))
          BY <1>a, <2>1, <4>3, AlignedExtend
      <4> QED
          BY <1>3, <4>4, <4>5 DEF Encode
    <3>2. CASE ~(c = sock /\ c \in far)
      <4>1. ToCome(c)' = <<>>
          BY <1>3, <3>2 DEF ToCome, Encode
      <4> QED
          BY <1>3, <1>a, <4>1, NothingToCome DEF Encode
    <3> QED
        BY <3>1, <3>2
  <2> QED
      BY <1>c, <1>i, <2>2, <2>3 DEF SyncInv
<1>4. CASE SocketFails
  <2>1. InSync'
      BY <1>t, <1>s, <1>4 DEF SocketFails, Writing
  <2> QED
      BY <1>i, <1>t, <1>4, <2>1 DEF SocketFails, Return, Writing, SyncInv
<1>5. CASE Socket
  <2>1. sock' \notin far
      BY <1>5 DEF Socket
  <2>2. InSync'
      BY <1>s, <1>5, <2>1 DEF Socket
  <2> QED
      BY <1>i, <1>t, <1>5, <2>1, <2>2 DEF Socket, Writing, SyncInv
<1>6. CASE ResolveFails
  <2>1. InSync'
      BY <1>n, <1>s, <1>6 DEF ResolveFails, CloseLink
  <2> QED
      BY <1>i, <1>t, <1>6, <2>1 DEF ResolveFails, CloseLink, Return, Writing, SyncInv
<1>7. CASE Resolve
    BY <1>i, <1>t, <1>u, <1>7 DEF Resolve, Writing, SyncInv
<1>8. CASE ConnectFails
  <2>1. CASE UNCHANGED <<pc, msg, frame, sock, allocated>>
      BY <1>i, <1>t, <1>u, <1>8, <2>1 DEF ConnectFails, Writing, SyncInv
  <2>2. CASE CloseLink /\ Return
    <3>1. InSync'
        BY <1>n, <1>s, <1>8, <2>2 DEF ConnectFails, CloseLink
    <3> QED
        BY <1>i, <1>t, <1>8, <2>2, <3>1 DEF ConnectFails, Return, Writing, SyncInv
  <2> QED
      BY <1>8, <2>1, <2>2 DEF ConnectFails
<1>9. CASE Connect
  <2>1. /\ sock \in Conns \ far /\ wire[sock] = <<>>
        /\ msg \in Messages /\ frame = Cells(msg)
      BY <1>t, <1>n, <1>9 DEF Connect, Writing, Link
  <2>2. Writing'
      BY <1>t, <1>9 DEF Connect, Writing
  <2>3. ASSUME NEW c \in Conns PROVE Aligned(wire'[c] \o ToCome(c)')
    <3>1. CASE c = sock
      <4>1. <<>> \in Seq(CellTypes) /\ <<>> \o NextHeader = NextHeader
          BY EmptySeq, NextHeaderCell, ConcatEmptySeq
      <4>2. Aligned(<<>> \o (Cells(msg) \o NextHeader))
          BY <2>1, <4>1, AlignedNextHeader, AlignedExtend
      <4>3. ToCome(c)' = Cells(msg) \o NextHeader
          BY <1>9, <2>1, <3>1 DEF Connect, ToCome
      <4>4. wire'[c] = <<>>
          BY <1>9, <2>1, <3>1 DEF Connect
      <4> QED
          BY <4>2, <4>3, <4>4
    <3>2. CASE c # sock
      <4>1. ToCome(c)' = <<>> /\ wire' = wire
          BY <1>9, <3>2 DEF Connect, ToCome
      <4> QED
          BY <1>a, <4>1, NothingToCome
    <3> QED
        BY <3>1, <3>2
  <2> QED
      BY <1>c, <1>i, <2>2, <2>3 DEF SyncInv
<1>10. CASE Send
  <2>1. PICK n \in 1..Len(frame) :
            /\ frame' = SubSeq(frame, n + 1, Len(frame))
            /\ \/ /\ sock \in far
                  /\ wire' = [wire EXCEPT ![sock] = @ \o SubSeq(frame, 1, n)]
               \/ /\ sock \notin far
                  /\ UNCHANGED wire
      BY <1>10 DEF Send
  <2>2. CASE sock \notin far
    <3>1. InSync'
        BY <1>s, <1>10, <2>1, <2>2 DEF Send
    <3> QED
        BY <1>i, <1>t, <1>10, <2>1, <2>2, <3>1 DEF Send, Writing, SyncInv
  <2>3. CASE sock \in far
    <3> DEFINE sent == SubSeq(frame, 1, n)
               rest == SubSeq(frame, n + 1, Len(frame))
    <3>1. n \in 0..Len(frame)
        BY <1>n, LenProperties
    <3>2. sent \in Seq(CellTypes) /\ rest \in Seq(CellTypes) /\ sent \o rest = frame
        BY <1>n, <3>1, Halves
    <3>3. sock \in Conns /\ wire[sock] \in Seq(CellTypes) /\ wire \in [Conns -> Seq(CellTypes)]
        BY <1>a, <1>n, <1>t, <2>3 DEF TypeOK
    <3> HIDE DEF sent, rest
    <3>4. /\ wire'[sock] = wire[sock] \o sent
          /\ \A c \in Conns \ {sock} : wire'[c] = wire[c]
          /\ frame' = rest
        BY <2>1, <2>3, <3>3 DEF sent, rest
    <3>5. ASSUME NEW c \in Conns PROVE Aligned(wire'[c] \o ToCome(c)')
      <4>1. CASE c = sock
        <5>1. ToCome(c) = frame \o NextHeader /\ ToCome(c)' = rest \o NextHeader
            BY <1>10, <2>3, <3>4, <4>1 DEF Send, ToCome
        <5>2. Aligned(wire[sock] \o ((sent \o rest) \o NextHeader))
            BY <1>b, <3>2, <3>3, <4>1, <5>1
        <5>3. (sent \o rest) \o NextHeader = sent \o (rest \o NextHeader)
          <6>1. sent \in Seq(CellTypes) /\ rest \in Seq(CellTypes) /\ NextHeader \in Seq(CellTypes)
              BY <3>2, NextHeaderCell
          <6> QED
              BY <6>1, Regroup, Zenon
        <5>4. wire[sock] \o (sent \o (rest \o NextHeader))
                  = (wire[sock] \o sent) \o (rest \o NextHeader)
          <6> DEFINE before == wire[sock]
                     after  == rest \o NextHeader
          <6>1. /\ before \in Seq(CellTypes)
                /\ sent \in Seq(CellTypes)
                /\ after \in Seq(CellTypes)
              BY <3>2, <3>3, NextHeaderCell, ConcatProperties
          <6> HIDE DEF before, after
          <6>2. (before \o sent) \o after = before \o (sent \o after)
              BY <6>1, ConcatAssociative
          <6> QED
              BY <6>2 DEF before, after
        <5> QED
            BY <3>4, <4>1, <5>1, <5>2, <5>3, <5>4
      <4>2. CASE c # sock
        <5>1. ToCome(c)' = <<>> /\ wire'[c] = wire[c]
            BY <1>10, <3>4, <4>2 DEF Send, ToCome
        <5> QED
            BY <1>a, <5>1, NothingToCome
      <4> QED
          BY <4>1, <4>2
    <3>6. Writing'
        BY <1>t, <1>10, <2>3, <3>4 DEF Send, Writing
    <3> QED
        BY <1>c, <1>i, <3>5, <3>6 DEF SyncInv
  <2> QED
      BY <2>2, <2>3
<1>11. CASE Sent
  <2>1. InSync'
      BY <1>u, <1>11 DEF Sent, Return
  <2> QED
      BY <1>i, <1>t, <1>11, <2>1 DEF Sent, Return, Writing, SyncInv
<1>12. CASE SendFails
  <2>1. InSync'
      BY <1>n, <1>s, <1>12 DEF SendFails, CloseLink
  <2> QED
      BY <1>i, <1>t, <1>12, <2>1 DEF SendFails, Return, Writing, SyncInv
<1>13. ASSUME NEW d \in Conns, Take(d) PROVE SyncInv'
  <2> DEFINE w == wire[d]
             n == HeaderSize + w[2][2]
             rest == SubSeq(w, n + 1, Len(w))
  <2>1. /\ w \in Seq(CellTypes) /\ Len(w) \in Nat /\ Len(w) >= 2 /\ HeaderSize = 2
      BY <1>a, <1>13, LenProperties DEF Take, HeaderSize
  <2>2. w[2][2] \in Nat
      BY <2>1, CellNumber
  <2>3. n \in Nat /\ n >= 2 /\ n <= Len(w)
      BY <1>13, <2>1, <2>2 DEF Take
  <2>4. wire'[d] = rest /\ \A c \in Conns \ {d} : wire'[c] = wire[c]
      BY <1>t, <1>13 DEF Take, TypeOK
  <2>5. d \in far
      BY <1>t, <2>1, EmptySeq DEF Writing
  <2>6. Writing'
      BY <1>t, <1>13, <2>4, <2>5 DEF Take, Writing
  <2>7. \A c \in Conns : ToCome(c)' = ToCome(c) /\ ToCome(c) \in Seq(CellTypes)
      BY <1>n, <1>13, NextHeaderCell, ConcatProperties, EmptySeq DEF Take, ToCome
  <2>8. Aligned(rest \o ToCome(d))
    <3> DEFINE t == ToCome(d)
               s == w \o t
    <3>1. /\ t \in Seq(CellTypes) /\ s \in Seq(CellTypes)
          /\ Len(t) \in Nat /\ Len(s) = Len(w) + Len(t)
          /\ \A i \in 1..Len(w) : s[i] = w[i]
          /\ \A i \in 1..Len(t) : s[Len(w) + i] = t[i]
        BY <2>1, <2>7, CellOfConcat
    <3>2. Aligned(s)
        BY <1>b
    <3>3. Len(s) >= HeaderSize /\ s[2] = w[2]
        BY <2>1, <3>1
    <3>4. Aligned(SubSeq(s, n + 1, Len(s)))
        BY <3>1, <3>2, <3>3, AlignedDrop
    <3>5. SubSeq(s, n + 1, Len(s)) = rest \o t
        BY <2>1, <2>3, <3>1, CutConcat
    <3> QED
        BY <3>4, <3>5
  <2>9. \A c \in Conns : Aligned(wire'[c] \o ToCome(c)')
      BY <1>b, <2>4, <2>7, <2>8
  <2> QED
      BY <1>c, <1>i, <2>6, <2>9 DEF SyncInv
<1>14. ASSUME NEW d \in Conns, Gone(d) PROVE SyncInv'
  <2>1. /\ wire' = [wire EXCEPT ![d] = <<>>] /\ far' = far \ {d}
        /\ UNCHANGED <<pc, msg, frame, sock>>
      BY <1>14 DEF Gone
  <2>2. wire'[d] = <<>> /\ \A c \in Conns \ {d} : wire'[c] = wire[c]
      BY <1>t, <2>1 DEF TypeOK
  <2>3. Writing'
      BY <1>t, <2>1, <2>2 DEF Writing
  <2>4. ASSUME NEW c \in Conns PROVE Aligned(wire'[c] \o ToCome(c)')
    <3>1. CASE c = d
      <4>1. ToCome(c)' = <<>>
          BY <2>1, <3>1 DEF ToCome
      <4>2. <<>> \in Seq(CellTypes)
          BY EmptySeq
      <4> QED
          BY <2>2, <3>1, <4>1, <4>2, AlignedEmpty, NothingToCome
    <3>2. CASE c # d
      <4>1. ToCome(c)' = ToCome(c)
          BY <2>1, <3>2 DEF ToCome
      <4> QED
          BY <1>b, <2>2, <3>2, <4>1
    <3> QED
        BY <3>1, <3>2
  <2> QED
      BY <1>c, <1>i, <2>3, <2>4 DEF SyncInv
<1>15. CASE UNCHANGED vars
    BY <1>i, <1>t, <1>u, <1>15 DEF vars, Writing, SyncInv
<1> QED
    BY <1>1, <1>2, <1>3, <1>4, <1>5, <1>6, <1>7, <1>8, <1>9, <1>10, <1>11, <1>12,
       <1>13, <1>14, <1>15
    DEF Next, Handle

\* Short writes, failures, reconnections and remote ends that go away never leave a
\* part of a frame before another frame: for any messages of any size, any windows
\* and any number of connections.
THEOREM FramesInSync == Spec => []InSync
<1>1. Spec => Init /\ [][Next]_vars
    BY PTL DEF Spec
<1>2. SyncInv => InSync
    BY DEF SyncInv
<1> QED
    BY <1>1, <1>2, InitSync, NextSync, PTL

-----------------------------------------------------------------------------
(* The line.                                                               *)

FrameOf(m) == [id |-> m.id, payload |-> m.payload]

\* While a frame is written, what is under way on the connection ends with the
\* part of it that send() has taken: only so does its last piece complete the frame
\* of the message in hand, and nothing before it completes any.
Carrying ==
    pc = "send" =>
        /\ msg \in Messages
        /\ frame # <<>> /\ sock \in far => Midway(wire[sock], frame, FrameOf(msg))

LineInv == SyncInv /\ Carrying

LEMMA FrameOfMessage ==
    ASSUME NEW m \in Messages
    PROVE  FrameOf(m) \in AnyFrame /\ Cells(FrameOf(m)) = Cells(m)
BY ClientGatewayAssumption DEF FrameOf, AnyFrame, Cells

\* Writing a frame starts where a header can follow.
LEMMA CarryingStarts ==
    ASSUME NEW w \in Seq(CellTypes), Aligned(w \o NextHeader), NEW m \in Messages
    PROVE  Midway(w, Cells(m), FrameOf(m)) /\ Cells(m) # <<>>
<1>1. FrameOf(m) \in AnyFrame /\ Cells(FrameOf(m)) = Cells(m)
    BY FrameOfMessage
<1>2. /\ Midway(w, Cells(FrameOf(m)), FrameOf(m))
      /\ Cells(FrameOf(m)) # <<>>
    BY <1>1, MidwayStart
<1> QED
    BY <1>1, <1>2

LEMMA CellsOfMessage == ASSUME NEW m \in Messages PROVE Cells(m) # <<>>
<1>1. <<>> \in Seq(CellTypes) /\ <<>> \o NextHeader = NextHeader
    BY EmptySeq, NextHeaderCell, ConcatEmptySeq
<1> QED
    BY <1>1, AlignedNextHeader, CarryingStarts

\* Between frames the connection in use is where a header can follow.
LEMMA BetweenFrames ==
    ASSUME SyncInv, frame = <<>>, sock \in far
    PROVE  wire[sock] \in Seq(CellTypes) /\ Aligned(wire[sock] \o NextHeader)
<1>1. sock \in Conns /\ wire[sock] \in Seq(CellTypes)
    BY DEF SyncInv, IInv, TypeOK
<1>2. Aligned(wire[sock] \o (frame \o NextHeader))
    BY <1>1 DEF SyncInv, InSync
<1>3. <<>> \o NextHeader = NextHeader
    BY NextHeaderCell, ConcatEmptySeq
<1> QED
    BY <1>1, <1>2, <1>3

\* What a piece more does to the connection and to its frames.
LEMMA SendMore ==
    ASSUME LineInv, Send, sock \in far
    PROVE  /\ frame # <<>>
           /\ sock \in Conns
           /\ \A c \in Conns : c # sock => wire'[c] = wire[c]
           /\ frame' # <<>> => /\ Midway(wire'[sock], frame', FrameOf(msg))
                               /\ FramesIn(wire'[sock]) = FramesIn(wire[sock])
           /\ frame' = <<>> =>
                  FramesIn(wire'[sock]) = Append(FramesIn(wire[sock]), FrameOf(msg))
<1>1. /\ sock \in Conns /\ frame \in Seq(CellTypes)
      /\ wire \in [Conns -> Seq(CellTypes)] /\ wire[sock] \in Seq(CellTypes)
      /\ pc = "send" /\ msg \in Messages
    BY DEF LineInv, SyncInv, IInv, TypeOK, Send, Carrying
<1>2. PICK n \in 1..Len(frame) :
          /\ frame' = SubSeq(frame, n + 1, Len(frame))
          /\ wire' = [wire EXCEPT ![sock] = @ \o SubSeq(frame, 1, n)]
    BY DEF Send
<1>3. frame # <<>>
    BY <1>2, EmptySeq
<1>4. Midway(wire[sock], frame, FrameOf(msg))
    BY <1>1, <1>3 DEF LineInv, Carrying
<1>5. FrameOf(msg) \in AnyFrame
    BY <1>1, FrameOfMessage
<1>6. /\ wire'[sock] = wire[sock] \o SubSeq(frame, 1, n)
      /\ \A c \in Conns : c # sock => wire'[c] = wire[c]
    BY <1>1, <1>2
<1> DEFINE s == wire[sock]
           f == FrameOf(msg)
           more == SubSeq(frame, 1, n)
           rest == SubSeq(frame, n + 1, Len(frame))
<1>7. s \in Seq(CellTypes) /\ frame \in Seq(CellTypes) /\ f \in AnyFrame
      /\ Midway(s, frame, f) /\ n \in 1..Len(frame)
    BY <1>1, <1>4, <1>5
<1> HIDE DEF s, f
<1>8. /\ rest # <<>> => /\ Midway(s \o more, rest, f)
                        /\ FramesIn(s \o more) = FramesIn(s)
      /\ rest = <<>> => FramesIn(s \o more) = Append(FramesIn(s), f)
    BY <1>7, MidwayOn, Zenon
<1> QED
    BY <1>1, <1>2, <1>3, <1>6, <1>8 DEF s, f

\* What the remote end takes is the first frame of the connection.
LEMMA TakeFirst ==
    ASSUME LineInv, NEW c \in Conns, Take(c)
    PROVE  /\ wire[c] \in Seq(CellTypes) /\ Aligned(wire[c]) /\ FirstIn(wire[c])
           /\ wire'[c] = AfterFirst(wire[c])
           /\ \A d \in Conns : d # c => wire'[d] = wire[d]
<1>1. wire \in [Conns -> Seq(CellTypes)] /\ wire[c] \in Seq(CellTypes)
    BY DEF LineInv, SyncInv, IInv, TypeOK
<1>2. Aligned(wire[c])
    BY WireAligned DEF LineInv, SyncInv, IInv
<1>3. FirstIn(wire[c])
    BY DEF Take, FirstIn
<1>4. wire'[c] = AfterFirst(wire[c]) /\ \A d \in Conns : d # c => wire'[d] = wire[d]
    BY <1>1 DEF Take, AfterFirst
<1> QED
    BY <1>1, <1>2, <1>3, <1>4

LEMMA InitLine == Init => LineInv
<1> SUFFICES ASSUME Init PROVE LineInv
    OBVIOUS
<1>1. SyncInv
    BY InitSync
<1>2. Carrying
    BY DEF Init, Carrying
<1> QED
    BY <1>1, <1>2 DEF LineInv

LEMMA NextLine == LineInv /\ [Next]_vars => LineInv'
<1> SUFFICES ASSUME LineInv, [Next]_vars PROVE LineInv'
    OBVIOUS
<1> SUFFICES Carrying'
    BY NextSync DEF LineInv
<1> USE DEF linkVars
<1>t. TypeOK /\ Link /\ Writing /\ Carrying /\ SyncInv
    BY DEF LineInv, SyncInv, IInv
<1>u. ASSUME UNCHANGED <<pc, msg, frame, sock>>, far' \subseteq far, sock \in far' => wire'[sock] = wire[sock]
      PROVE  Carrying'
    BY <1>t, <1>u DEF Carrying
<1>1. CASE Submit \/ NoEncoder
    BY <1>u, <1>1 DEF Submit, NoEncoder
<1>2. CASE Encode
  <2>1. Head(inbox) \in Messages
      BY <1>t, <1>2, HeadTailProperties DEF TypeOK, Encode
  <2>2. sock \in far => Midway(wire[sock], Cells(Head(inbox)), FrameOf(Head(inbox)))
    <3> SUFFICES ASSUME sock \in far
                 PROVE  Midway(wire[sock], Cells(Head(inbox)), FrameOf(Head(inbox)))
        OBVIOUS
    <3>1. frame = <<>>
        BY <1>t, <1>2 DEF Encode, Writing
    <3>2. wire[sock] \in Seq(CellTypes) /\ Aligned(wire[sock] \o NextHeader)
        BY <1>t, <3>1, BetweenFrames
    <3> QED
        BY <2>1, <3>2, CarryingStarts
  <2> QED
      BY <1>2, <2>1, <2>2 DEF Encode, Carrying
<1>3. CASE SocketFails \/ Socket \/ ResolveFails \/ Resolve \/ Sent \/ SendFails
    BY <1>3 DEF SocketFails, Socket, ResolveFails, Resolve, Sent, SendFails, Return, Carrying
<1>4. CASE ConnectFails
    BY <1>4 DEF ConnectFails, Return, Carrying
<1>5. CASE Connect
  <2>1. /\ sock \in Conns \ far /\ wire[sock] = <<>>
        /\ msg \in Messages /\ frame = Cells(msg)
      BY <1>t, <1>5 DEF Connect, TypeOK, Writing, Link
  <2>2. <<>> \in Seq(CellTypes) /\ <<>> \o NextHeader = NextHeader
      BY EmptySeq, NextHeaderCell, ConcatEmptySeq
  <2>3. Midway(<<>>, Cells(msg), FrameOf(msg))
      BY <2>1, <2>2, AlignedNextHeader, CarryingStarts
  <2> QED
      BY <1>5, <2>1, <2>3 DEF Connect, Carrying
<1>6. CASE Send
  <2>1. CASE sock \in far
      BY <1>t, <1>6, <2>1, SendMore DEF LineInv, Send, Carrying
  <2>2. CASE sock \notin far
      BY <1>t, <1>6, <2>2 DEF Send, Carrying
  <2> QED
      BY <2>1, <2>2
<1>7. ASSUME NEW c \in Conns, Take(c) PROVE Carrying'
  <2>1. CASE pc = "send" /\ frame # <<>> /\ sock \in far /\ c = sock
    <3>1. Midway(wire[c], frame, FrameOf(msg)) /\ msg \in Messages
        BY <1>t, <2>1 DEF Carrying
    <3>2. /\ wire[c] \in Seq(CellTypes) /\ FirstIn(wire[c])
          /\ wire'[c] = AfterFirst(wire[c])
        BY <1>7, TakeFirst
    <3>3. frame \in Seq(CellTypes) /\ FrameOf(msg) \in AnyFrame
        BY <1>t, <3>1, FrameOfMessage DEF TypeOK
    <3>4. Midway(wire'[c], frame, FrameOf(msg))
        BY <2>1, <3>1, <3>2, <3>3, MidwayTaken
    <3> QED
        BY <1>7, <2>1, <3>1, <3>4 DEF Take, Carrying
  <2>2. CASE ~(pc = "send" /\ frame # <<>> /\ sock \in far /\ c = sock)
    <3>1. \A d \in Conns : d # c => wire'[d] = wire[d]
        BY <1>7, TakeFirst
    <3>2. sock \in Conns \cup {Nil} /\ far \subseteq Conns
        BY <1>t DEF TypeOK
    <3> QED
        BY <1>t, <1>7, <2>2, <3>1, <3>2 DEF Take, Carrying
  <2> QED
      BY <2>1, <2>2
<1>8. ASSUME NEW c \in Conns, Gone(c) PROVE Carrying'
  <2>1. far' \subseteq far /\ (sock \in far' => wire'[sock] = wire[sock])
      BY <1>t, <1>8 DEF Gone, TypeOK
  <2> QED
      BY <1>u, <1>8, <2>1 DEF Gone
<1>9. CASE UNCHANGED vars
    BY <1>u, <1>9 DEF vars
<1> QED
    BY <1>1, <1>2, <1>3, <1>4, <1>5, <1>6, <1>7, <1>8, <1>9 DEF Next, Handle

\* The line as the remote end will find it changes as its connections do.
LEMMA LinesChange ==
    ASSUME NEW c \in Conns, \A d \in Conns : d # c => wire'[d] = wire[d]
    PROVE  Lines' = [Lines EXCEPT ![c] = FramesIn(wire'[c])]
BY DEF Lines

\* Each step is one of the line, or none.
LEMMA LineStep == LineInv /\ [Next]_vars => [Line!Next]_Line!vars
<1> SUFFICES ASSUME LineInv, [Next]_vars PROVE Line!Next \/ UNCHANGED Line!vars
    OBVIOUS
<1> USE DEF linkVars, InHand, Lines
<1>t. TypeOK /\ Link /\ Writing /\ Carrying /\ SyncInv
    BY DEF LineInv, SyncInv, IInv
<1>h. Nil \notin Conns /\ Nothing \notin Messages /\ sock \in Conns \cup {Nil} /\ far \subseteq Conns
    BY <1>t, ClientGatewayAssumption DEF TypeOK
<1>1. CASE Submit
  <2>1. Line!Submit
      BY <1>1 DEF Submit, Line!Submit
  <2> QED
      BY <2>1 DEF Line!Next
<1>2. CASE NoEncoder
  <2>1. Line!Skip
      BY <1>t, <1>2 DEF NoEncoder, Writing, Line!Skip
  <2> QED
      BY <2>1 DEF Line!Next
<1>3. CASE Encode
  <2>1. Head(inbox) \in Messages
      BY <1>t, <1>3, HeadTailProperties DEF TypeOK, Encode
  <2>2. Cells(Head(inbox)) # <<>>
      BY <2>1, CellsOfMessage
  <2>3. frame = <<>>
      BY <1>t, <1>3 DEF Encode, Writing
  <2>4. Line!Take
      BY <1>3, <2>2, <2>3 DEF Encode, EnsureConnected, Line!Take
  <2> QED
      BY <2>4 DEF Line!Next
\* Without a connection the handler gives up the message in hand.
<1>g. ASSUME pc \in {"socket", "resolve", "connect"}, Return, sock' = Nil, UNCHANGED <<inbox, wire>>
      PROVE  Line!Next
  <2>1. msg \in Messages /\ frame # <<>>
      BY <1>t, <1>g, CellsOfMessage DEF Writing
  <2>2. Line!Discard
      BY <1>g, <1>h, <2>1 DEF Return, Line!Discard
  <2> QED
      BY <2>2 DEF Line!Next
<1>4. CASE SocketFails
    BY <1>t, <1>g, <1>4 DEF SocketFails, Link
<1>5. CASE Socket \/ Resolve
    BY <1>t, <1>5 DEF Socket, Resolve, Link, Line!vars
<1>6. CASE ResolveFails
    BY <1>g, <1>6 DEF ResolveFails, CloseLink
<1>7. CASE ConnectFails
  <2>1. CASE UNCHANGED <<pc, msg, frame, sock, allocated>>
      BY <1>7, <2>1 DEF ConnectFails, Line!vars
  <2>2. CASE CloseLink /\ Return
      BY <1>g, <1>7, <2>2 DEF ConnectFails, CloseLink
  <2> QED
      BY <1>7, <2>1, <2>2 DEF ConnectFails
<1>8. CASE Connect
  <2>1. /\ sock \in Conns \ far /\ wire[sock] = <<>>
        /\ msg \in Messages /\ frame # <<>>
      BY <1>t, <1>h, <1>8, CellsOfMessage DEF Connect, Writing, Link
  <2>2. Line!Dial(sock)
      BY <1>h, <1>8, <2>1, FramesOfNothing DEF Connect, Line!Dial
  <2> QED
      BY <2>1, <2>2 DEF Line!Next
<1>9. CASE Send
  <2>1. CASE sock \in far
    <3>1. /\ frame # <<>> /\ sock \in Conns /\ sock # Nil /\ msg \in Messages
          /\ \A c \in Conns : c # sock => wire'[c] = wire[c]
        BY <1>t, <1>h, <1>9, <2>1, SendMore DEF Send, Carrying
    <3>2. Lines' = [Lines EXCEPT ![sock] = FramesIn(wire'[sock])]
        BY <3>1, LinesChange
    <3>3. CASE frame' = <<>>
      <4>1. FramesIn(wire'[sock]) = Append(FramesIn(wire[sock]), FrameOf(msg))
          BY <1>9, <2>1, <3>3, SendMore
      <4>2. Lines' = [Lines EXCEPT ![sock] = Append(@, FrameOf(msg))]
          BY <3>1, <3>2, <4>1 DEF Lines
      <4>3. Line!Put
          BY <1>h, <1>9, <3>1, <3>3, <4>2 DEF Send, Lines, FrameOf, Line!Put
      <4> QED
          BY <4>3 DEF Line!Next
    <3>4. CASE frame' # <<>>
      <4>1. FramesIn(wire'[sock]) = FramesIn(wire[sock])
          BY <1>9, <2>1, <3>4, SendMore
      <4>2. Lines' = Lines
          BY <3>1, <3>2, <4>1 DEF Lines
      <4> QED
          BY <1>9, <3>1, <3>4, <4>2 DEF Send, Lines, Line!vars
    <3> QED
        BY <3>3, <3>4
  <2>2. CASE sock \notin far
    <3>1. frame # <<>> /\ msg \in Messages /\ wire' = wire
        BY <1>t, <1>9, <2>2, EmptySeq DEF Send, Carrying
    <3>2. CASE frame' = <<>>
      <4>1. Line!Discard
          BY <1>h, <1>9, <3>1, <3>2 DEF Send, Line!Discard
      <4> QED
          BY <4>1 DEF Line!Next
    <3>3. CASE frame' # <<>>
        BY <1>9, <3>1, <3>3 DEF Send, Line!vars
    <3> QED
        BY <3>2, <3>3
  <2> QED
      BY <2>1, <2>2
<1>10. CASE Sent
    BY <1>10 DEF Sent, Return, Line!vars
<1>11. CASE SendFails
  <2>1. sock # Nil
      BY <1>t, <1>11 DEF SendFails, Link
  <2>2. Line!HangUp
      BY <1>11, <2>1 DEF SendFails, CloseLink, Return, Line!HangUp
  <2> QED
      BY <2>2 DEF Line!Next
<1>12. ASSUME NEW c \in Conns, Take(c) PROVE Line!Next
  <2>1. /\ wire[c] \in Seq(CellTypes) /\ Aligned(wire[c]) /\ FirstIn(wire[c])
        /\ wire'[c] = AfterFirst(wire[c])
        /\ \A d \in Conns : d # c => wire'[d] = wire[d]
      BY <1>12, TakeFirst
  <2>2. FramesIn(wire[c]) # <<>> /\ FramesIn(wire'[c]) = Tail(FramesIn(wire[c]))
      BY <2>1, FramesTaken
  <2>3. Lines' = [Lines EXCEPT ![c] = Tail(@)] /\ Lines[c] # <<>>
      BY <2>1, <2>2, LinesChange DEF Lines
  <2>4. Line!Fetch(c)
      BY <1>12, <2>3 DEF Take, Lines, Line!Fetch
  <2> QED
      BY <2>4 DEF Line!Next
<1>13. ASSUME NEW c \in Conns, Gone(c) PROVE Line!Next
  <2>1. wire'[c] = <<>> /\ \A d \in Conns : d # c => wire'[d] = wire[d]
      BY <1>t, <1>13 DEF Gone, TypeOK
  <2>2. Lines' = [Lines EXCEPT ![c] = <<>>]
      BY <2>1, LinesChange, FramesOfNothing
  <2>3. Line!Cut(c)
      BY <1>13, <2>2 DEF Gone, Lines, Line!Cut
  <2> QED
      BY <2>3 DEF Line!Next
<1>14. CASE UNCHANGED vars
    BY <1>14 DEF vars, Line!vars
<1> QED
    BY <1>1, <1>2, <1>3, <1>4, <1>5, <1>6, <1>7, <1>8, <1>9, <1>10, <1>11, <1>12,
       <1>13, <1>14
    DEF Next, Handle

\* Lazy connection, writing in pieces, failures at any place and remote ends that
\* go away implement the line: whole frames in the order of the posts, unchanged
\* and at most once, for any messages, any windows and any number of sockets.
THEOREM LineImplemented == Spec => ImplementsOutboundLine
<1>1. Spec => Init /\ [][Next]_vars
    BY PTL DEF Spec
<1>2. Init => Line!Init
    BY FramesOfNothing DEF Init, InHand, Lines, Line!Init
<1> QED
    BY <1>1, <1>2, InitLine, NextLine, LineStep, PTL DEF ImplementsOutboundLine, Line!Spec

=============================================================================
