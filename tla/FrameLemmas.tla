---------------------------- MODULE FrameLemmas ----------------------------
(***************************************************************************)
(* Facts about streams of frames that the proofs of both gateways need:    *)
(* what keeps a stream where its sender meant it, and which frames are     *)
(* complete in it after some cells came to its end, left its front, or     *)
(* were lost at its end.                                                   *)
(***************************************************************************)
EXTENDS FrameFormat, SequenceTheorems, WellFoundedInduction, TLAPS

-----------------------------------------------------------------------------
(* Cells.                                                                  *)

\* Which cell of a concatenation comes from which of its parts.
LEMMA CellOfConcat ==
    ASSUME NEW s \in Seq(CellTypes), NEW t \in Seq(CellTypes)
    PROVE  /\ s \o t \in Seq(CellTypes)
           /\ Len(s) \in Nat /\ Len(t) \in Nat
           /\ Len(s \o t) = Len(s) + Len(t)
           /\ \A i \in 1..Len(s) : (s \o t)[i] = s[i]
           /\ \A i \in 1..Len(t) : (s \o t)[Len(s) + i] = t[i]
    BY ConcatProperties, LenProperties

LEMMA Regroup ==
    ASSUME NEW s \in Seq(CellTypes), NEW t \in Seq(CellTypes), NEW u \in Seq(CellTypes)
    PROVE  (s \o t) \o u = s \o (t \o u)
BY ConcatAssociative

\* The number a cell carries.
LEMMA CellNumber ==
    ASSUME NEW s \in Seq(CellTypes), NEW i \in 1..Len(s)
    PROVE  s[i][2] \in Nat
    BY ElementOfSeq DEF CellTypes

\* A piece of a sequence of cells is one.
LEMMA PieceType ==
    ASSUME NEW s \in Seq(CellTypes), NEW a \in Nat, NEW b \in Nat,
           a >= 1, b <= Len(s)
    PROVE  SubSeq(s, a, b) \in Seq(CellTypes)
<1>1. \A i \in a..b : s[i] \in CellTypes
    BY ElementOfSeq, LenProperties
<1> QED
    BY <1>1, SubSeqProperties

\* The end of a sequence of cells.
LEMMA PieceOf ==
    ASSUME NEW s \in Seq(CellTypes), NEW n \in Nat, n <= Len(s)
    PROVE  LET r == SubSeq(s, n + 1, Len(s)) IN
           /\ r \in Seq(CellTypes)
           /\ Len(r) = Len(s) - n
           /\ \A i \in 1..Len(r) : r[i] = s[n + i]
<1> DEFINE r == SubSeq(s, n + 1, Len(s))
<1>1. Len(s) \in Nat /\ n + 1 \in Int /\ Len(s) \in Int
    BY LenProperties
<1>2. \A i \in (n + 1)..Len(s) : s[i] \in CellTypes
    BY <1>1, ElementOfSeq
<1>3. /\ r \in Seq(CellTypes)
      /\ Len(r) = IF n + 1 <= Len(s) THEN Len(s) - (n + 1) + 1 ELSE 0
      /\ \A i \in 1..(Len(s) - (n + 1) + 1) : r[i] = s[(n + 1) + i - 1]
    BY <1>1, <1>2, SubSeqProperties
<1> HIDE DEF r
<1>4. Len(s) - (n + 1) + 1 = Len(s) - n /\ Len(r) = Len(s) - n
    BY <1>1, <1>3
<1>5. \A i \in 1..Len(r) : (n + 1) + i - 1 = n + i
    BY <1>1, <1>4
<1>6. /\ r \in Seq(CellTypes) /\ Len(r) = Len(s) - n
      /\ \A i \in 1..Len(r) : r[i] = s[n + i]
    BY <1>3, <1>4, <1>5
<1> QED
    BY <1>6 DEF r

\* A sequence of cells cut in two.
LEMMA Halves ==
    ASSUME NEW s \in Seq(CellTypes), NEW n \in 0..Len(s)
    PROVE  LET more == SubSeq(s, 1, n)
               rest == SubSeq(s, n + 1, Len(s))
           IN  /\ more \in Seq(CellTypes) /\ Len(more) = n
               /\ rest \in Seq(CellTypes)
               /\ more \o rest = s
<1> DEFINE more == SubSeq(s, 1, n)
           rest == SubSeq(s, n + 1, Len(s))
<1>1. Len(s) \in Nat /\ n \in Nat /\ n <= Len(s)
    BY LenProperties
<1>2. more \in Seq(CellTypes) /\ rest \in Seq(CellTypes)
    BY <1>1, PieceType
<1>3. Len(more) = n
    BY <1>1, ElementOfSeq, SubSeqProperties
<1>4. more \o rest = s
  <2>1. 1 \in 1..Len(s) + 1 /\ n \in 1 - 1..Len(s) /\ Len(s) \in n..Len(s)
      BY <1>1
  <2>2. more \o rest = SubSeq(s, 1, Len(s))
      BY <2>1, ConcatAdjacentSubSeq
  <2>3. SubSeq(s, 1, Len(s)) = s
      BY SubSeqFull
  <2> HIDE DEF more, rest
  <2> QED
      BY <2>2, <2>3, Zenon
<1> HIDE DEF more, rest
<1>5. /\ more \in Seq(CellTypes) /\ Len(more) = n
      /\ rest \in Seq(CellTypes)
      /\ more \o rest = s
    BY <1>2, <1>3, <1>4
<1> QED
    BY <1>5 DEF more, rest

\* Cutting a concatenation within its first part.
LEMMA CutConcat ==
    ASSUME NEW w \in Seq(CellTypes), NEW t \in Seq(CellTypes),
           NEW n \in Nat, n <= Len(w)
    PROVE  SubSeq(w \o t, n + 1, Len(w \o t)) = SubSeq(w, n + 1, Len(w)) \o t
<1> DEFINE s == w \o t
           rest == SubSeq(w, n + 1, Len(w))
           left == SubSeq(s, n + 1, Len(s))
           right == rest \o t
<1>1. /\ s \in Seq(CellTypes) /\ Len(w) \in Nat /\ Len(t) \in Nat
      /\ Len(s) = Len(w) + Len(t)
      /\ \A i \in 1..Len(w) : s[i] = w[i]
      /\ \A i \in 1..Len(t) : s[Len(w) + i] = t[i]
    BY CellOfConcat
<1>2. /\ rest \in Seq(CellTypes) /\ Len(rest) = Len(w) - n
      /\ \A i \in 1..Len(rest) : rest[i] = w[n + i]
    BY <1>1, PieceOf
<1> HIDE DEF s
<1>3. /\ left \in Seq(CellTypes) /\ Len(left) = Len(s) - n
      /\ \A i \in 1..Len(left) : left[i] = s[n + i]
  <2>1. n <= Len(s)
      BY <1>1
  <2> QED
      BY <1>1, <2>1, PieceOf
<1> HIDE DEF rest
<1>4. /\ right \in Seq(CellTypes) /\ Len(right) = Len(rest) + Len(t)
      /\ \A i \in 1..Len(rest) : right[i] = rest[i]
      /\ \A i \in 1..Len(t) : right[Len(rest) + i] = t[i]
    BY <1>2, CellOfConcat
<1> HIDE DEF left, right
<1>5. Len(left) = Len(right)
    BY <1>1, <1>2, <1>3, <1>4
<1>6. ASSUME NEW i \in 1..Len(left) PROVE left[i] = right[i]
  <2>1. CASE i <= Len(w) - n
    <3>1. i \in 1..Len(rest) /\ n + i \in 1..Len(w)
        BY <1>1, <1>2, <2>1
    <3> QED
        BY <1>1, <1>2, <1>3, <1>4, <3>1
  <2>2. CASE i > Len(w) - n
    <3> DEFINE k == i - (Len(w) - n)
    <3>1. k \in 1..Len(t) /\ n + i = Len(w) + k /\ i = Len(rest) + k
        BY <1>1, <1>2, <1>3, <2>2
    <3>2. left[i] = s[Len(w) + k]
        BY <1>3, <3>1
    <3>3. right[Len(rest) + k] = t[k] /\ s[Len(w) + k] = t[k]
        BY <1>1, <1>4, <3>1
    <3> QED
        BY <3>1, <3>2, <3>3
  <2> QED
      BY <1>1, <2>1, <2>2
<1>7. left = right
    BY <1>3, <1>4, <1>5, <1>6, SeqEqual
<1> QED
    BY <1>7 DEF left, right, rest, s

\* The cells of a frame.
LEMMA CellsMeans ==
    ASSUME NEW f, f.id \in Nat, f.payload \in Seq(Nat)
    PROVE  LET size == Len(f.payload) IN
           /\ size \in Nat
           /\ Cells(f) \in Seq(CellTypes)
           /\ Len(Cells(f)) = size + 2
           /\ Cells(f)[1] = <<"id", f.id>>
           /\ Cells(f)[2] = <<"size", size>>
           /\ \A j \in 1..size : Cells(f)[2 + j] = <<"byte", f.payload[j]>>
<1> DEFINE size == Len(f.payload)
           head == <<<<"id", f.id>>, <<"size", size>>>>
           bytes == [i \in 1..size |-> <<"byte", f.payload[i]>>]
<1>1. size \in Nat /\ \A i \in 1..size : f.payload[i] \in Nat
    BY LenProperties, ElementOfSeq
<1>2. /\ head \in Seq(CellTypes) /\ Len(head) = 2
      /\ head[1] = <<"id", f.id>> /\ head[2] = <<"size", size>>
  <2>1. <<"id", f.id>> \in CellTypes /\ <<"size", size>> \in CellTypes
      BY <1>1 DEF CellTypes
  <2> QED
      BY <2>1
<1>3. /\ bytes \in Seq(CellTypes) /\ Len(bytes) = size
      /\ \A j \in 1..size : bytes[j] = <<"byte", f.payload[j]>>
  <2>1. \A i \in 1..size : <<"byte", f.payload[i]>> \in CellTypes
      BY <1>1 DEF CellTypes
  <2>2. bytes \in [1..size -> CellTypes] /\ DOMAIN bytes = 1..size
      BY <2>1
  <2>3. \A j \in 1..size : bytes[j] = <<"byte", f.payload[j]>>
      OBVIOUS
  <2> HIDE DEF bytes, size
  <2>4. bytes \in Seq(CellTypes)
      BY <1>1, <2>2, SeqDef
  <2>5. Len(bytes) = size
      BY <1>1, <2>2, <2>4, LenProperties
  <2> QED
      BY <2>3, <2>4, <2>5
<1>4. Cells(f) = head \o bytes
    BY DEF Cells
<1> HIDE DEF size, head, bytes
<1>5. /\ head \o bytes \in Seq(CellTypes) /\ Len(head \o bytes) = Len(head) + Len(bytes)
      /\ \A i \in 1..Len(head) : (head \o bytes)[i] = head[i]
      /\ \A i \in 1..Len(bytes) : (head \o bytes)[Len(head) + i] = bytes[i]
    BY <1>2, <1>3, CellOfConcat
<1>6. /\ Cells(f) \in Seq(CellTypes) /\ Len(Cells(f)) = size + 2
      /\ Cells(f)[1] = <<"id", f.id>> /\ Cells(f)[2] = <<"size", size>>
      /\ \A j \in 1..size : Cells(f)[2 + j] = <<"byte", f.payload[j]>>
    BY <1>1, <1>2, <1>3, <1>4, <1>5
<1> QED
    BY <1>1, <1>6 DEF size

\* Frames are sequences of cells.
LEMMA CellsType ==
    ASSUME NEW f, f.id \in Nat, f.payload \in Seq(Nat)
    PROVE  Cells(f) \in Seq(CellTypes)
BY CellsMeans

-----------------------------------------------------------------------------
(* Streams of frames.  What is cut off at the end, put on at the end as a  *)
(* whole frame where a header can follow, or taken away as a whole frame   *)
(* at the front, leaves the rest of a stream where its sender meant it.    *)

\* The cells after the i-th are what it says they are.
RightAfter(s, i) ==
    /\ s[i][1] = "id" /\ i < Len(s) => s[i + 1][1] = "size"
    /\ s[i][1] = "size" =>
           /\ \A j \in (i + 1)..Len(s) : j < i + s[i][2] + 1 => s[j][1] = "byte"
           /\ i + s[i][2] + 1 <= Len(s) => s[i + s[i][2] + 1][1] = "id"

LEMMA AlignedMeans ==
    ASSUME NEW s \in Seq(CellTypes)
    PROVE  Aligned(s) <=> /\ s # <<>> => s[1][1] = "id"
                          /\ \A i \in 1..Len(s) : RightAfter(s, i)
<1>1. ASSUME NEW i \in 1..Len(s)
      PROVE  LET next == IF s[i][1] = "size" THEN i + s[i][2] + 1 ELSE i + 1 IN
             RightAfter(s, i) <=>
                 /\ s[i][1] = "id" /\ i < Len(s) => s[i + 1][1] = "size"
                 /\ s[i][1] = "size" => \A j \in (i + 1)..Len(s) : j < next => s[j][1] = "byte"
                 /\ s[i][1] = "size" /\ next <= Len(s) => s[next][1] = "id"
  <2>1. CASE s[i][1] = "size"
      BY <2>1 DEF RightAfter
  <2>2. CASE s[i][1] # "size"
      BY <2>2 DEF RightAfter
  <2> QED
      BY <2>1, <2>2
<1> QED
    BY <1>1, Zenon DEF Aligned

\* What a cell calls for does not change with its place in the sequence.
LEMMA RightShifted ==
    ASSUME NEW s \in Seq(CellTypes), NEW r \in Seq(CellTypes), NEW n \in Nat,
           NEW i \in 1..Len(r),
           n + Len(r) <= Len(s),
           \A k \in 1..Len(r) : r[k] = s[n + k],
           RightAfter(s, n + i)
    PROVE  RightAfter(r, i)
<1>1. Len(r) \in Nat /\ Len(s) \in Nat /\ r[i] = s[n + i] /\ r[i][2] \in Nat
    BY LenProperties, CellNumber
<1>2. ASSUME r[i][1] = "id", i < Len(r)
      PROVE  r[i + 1][1] = "size"
  <2>1. i + 1 \in 1..Len(r) /\ n + i < Len(s) /\ n + (i + 1) = (n + i) + 1
      BY <1>1, <1>2
  <2>2. r[i + 1] = s[(n + i) + 1]
      BY <2>1
  <2> QED
      BY <1>1, <1>2, <2>1, <2>2 DEF RightAfter
<1>3. ASSUME r[i][1] = "size", NEW j \in (i + 1)..Len(r), j < i + r[i][2] + 1
      PROVE  r[j][1] = "byte"
  <2>1. j \in 1..Len(r) /\ n + j \in ((n + i) + 1)..Len(s)
      BY <1>1
  <2>2. n + j < (n + i) + s[n + i][2] + 1
      BY <1>1, <1>3
  <2>3. r[j] = s[n + j]
      BY <2>1
  <2> QED
      BY <1>1, <1>3, <2>1, <2>2, <2>3 DEF RightAfter
<1>4. ASSUME r[i][1] = "size", i + r[i][2] + 1 <= Len(r)
      PROVE  r[i + r[i][2] + 1][1] = "id"
  <2> DEFINE next == i + r[i][2] + 1
  <2>1. next \in 1..Len(r) /\ n + next <= Len(s)
    <3>1. next \in Nat /\ next >= 1 /\ next <= Len(r)
        BY <1>1, <1>4
    <3> HIDE DEF next
    <3> QED
        BY <1>1, <3>1
  <2>2. n + next = (n + i) + s[n + i][2] + 1
      BY <1>1
  <2>3. r[next] = s[n + next]
      BY <2>1
  <2> QED
      BY <1>1, <1>4, <2>1, <2>2, <2>3 DEF RightAfter
<1> QED
    BY <1>2, <1>3, <1>4 DEF RightAfter

LEMMA AlignedPrefix ==
    ASSUME NEW s \in Seq(CellTypes), NEW t \in Seq(CellTypes), Aligned(s \o t)
    PROVE  Aligned(s)
<1> DEFINE r == s \o t
<1>1. /\ r \in Seq(CellTypes)
      /\ Len(s) \in Nat /\ Len(r) \in Nat /\ 0 + Len(s) <= Len(r)
      /\ \A i \in 1..Len(s) : s[i] = r[0 + i]
  <2>1. \A i \in 1..Len(s) : 0 + i = i
      OBVIOUS
  <2> QED
      BY <2>1, CellOfConcat
<1>2. /\ r # <<>> => r[1][1] = "id"
      /\ \A i \in 1..Len(r) : RightAfter(r, 0 + i)
  <2>1. \A i \in 1..Len(r) : 0 + i = i
      OBVIOUS
  <2> QED
      BY <1>1, <2>1, AlignedMeans
<1> HIDE DEF r
<1>3. s # <<>> => s[1][1] = "id"
  <2> SUFFICES ASSUME s # <<>> PROVE s[1][1] = "id"
      OBVIOUS
  <2>1. 1 \in 1..Len(s) /\ Len(r) # 0
      BY <1>1, EmptySeq
  <2>2. r # <<>> /\ s[1] = r[1]
      BY <1>1, <2>1
  <2> QED
      BY <1>2, <2>2
<1>4. \A i \in 1..Len(s) : RightAfter(s, i)
  <2> TAKE i \in 1..Len(s)
  <2>1. RightAfter(r, 0 + i)
      BY <1>1, <1>2
  <2> QED
      BY <1>1, <2>1, RightShifted
<1> QED
    BY <1>3, <1>4, AlignedMeans

LEMMA AlignedDrop ==
    ASSUME NEW s \in Seq(CellTypes), Aligned(s), Len(s) >= HeaderSize
    PROVE  Aligned(SubSeq(s, HeaderSize + s[2][2] + 1, Len(s)))
<1> DEFINE n == HeaderSize + s[2][2]
           r == SubSeq(s, n + 1, Len(s))
<1>1. Len(s) \in Nat /\ Len(s) >= 2 /\ s[2][2] \in Nat /\ n \in Nat /\ n = 2 + s[2][2]
    BY LenProperties, CellNumber DEF HeaderSize
<1>2. s # <<>> /\ \A i \in 1..Len(s) : RightAfter(s, i)
    BY <1>1, AlignedMeans
<1>3. s[2][1] = "size"
  <2>1. s[1][1] = "id" /\ RightAfter(s, 1)
      BY <1>1, <1>2, AlignedMeans
  <2> QED
      BY <1>1, <2>1 DEF RightAfter
<1>4. n < Len(s) => s[n + 1][1] = "id"
  <2>1. RightAfter(s, 2) /\ n + 1 = 2 + s[2][2] + 1
      BY <1>1, <1>2
  <2> QED
      BY <1>1, <1>3, <2>1 DEF RightAfter
<1> HIDE DEF n
<1>5. r \in Seq(CellTypes)
  <2>1. n + 1 >= 1
      BY <1>1
  <2> QED
      BY <1>1, <2>1, PieceType
<1>6. CASE n >= Len(s)
  <2>1. n + 1 \in Int /\ Len(s) \in Int /\ Len(s) < n + 1
      BY <1>1, <1>6
  <2>2. r = <<>>
      BY <2>1, SubSeqEmpty
  <2>3. Aligned(<<>>)
      BY DEF Aligned
  <2>4. Aligned(r)
      BY <2>2, <2>3
  <2> QED
      BY <2>4 DEF n
<1>7. CASE n < Len(s)
  <2>1. /\ Len(r) = Len(s) - n
        /\ \A i \in 1..Len(r) : r[i] = s[n + i]
    <3>1. n <= Len(s)
        BY <1>1, <1>7
    <3> QED
        BY <1>1, <3>1, PieceOf
  <2> HIDE DEF r
  <2>2. Len(r) \in Nat /\ n + Len(r) <= Len(s) /\ 1 \in 1..Len(r)
      BY <1>1, <1>7, <2>1
  <2>3. r[1][1] = "id"
      BY <1>4, <1>7, <2>1, <2>2
  <2>4. \A i \in 1..Len(r) : RightAfter(r, i)
    <3> TAKE i \in 1..Len(r)
    <3>1. RightAfter(s, n + i)
        BY <1>1, <1>2, <2>1
    <3> QED
        BY <1>1, <1>5, <2>1, <2>2, <3>1, RightShifted
  <2>5. Aligned(r)
      BY <1>5, <2>3, <2>4, AlignedMeans
  <2> QED
      BY <2>5 DEF r, n
<1> QED
    BY <1>1, <1>6, <1>7

LEMMA NextHeaderCell ==
    /\ NextHeader \in Seq(CellTypes)
    /\ Len(NextHeader) = 1
    /\ NextHeader[1][1] = "id"
<1>1. <<"id", 0>> \in CellTypes
    BY DEF CellTypes
<1> QED
    BY <1>1 DEF NextHeader

\* A frame and the header after it: what can stand where a header can.
LEMMA FrameAndHeader ==
    ASSUME NEW f, f.id \in Nat, f.payload \in Seq(Nat)
    PROVE  LET t == Cells(f) \o NextHeader
               size == Len(f.payload)
           IN  /\ t \in Seq(CellTypes)
               /\ size \in Nat
               /\ Len(t) = size + 3
               /\ t[1][1] = "id"
               /\ t[2] = <<"size", size>>
               /\ \A j \in 3..(size + 2) : t[j][1] = "byte"
               /\ t[size + 3][1] = "id"
<1> DEFINE size == Len(f.payload)
           cells == Cells(f)
           t == cells \o NextHeader
<1>1. /\ size \in Nat /\ cells \in Seq(CellTypes) /\ Len(cells) = size + 2
      /\ cells[1] = <<"id", f.id>> /\ cells[2] = <<"size", size>>
      /\ \A j \in 1..size : cells[2 + j] = <<"byte", f.payload[j]>>
    BY CellsMeans
<1> HIDE DEF size, cells
<1>2. /\ t \in Seq(CellTypes) /\ Len(t) = Len(cells) + Len(NextHeader)
      /\ \A j \in 1..Len(cells) : t[j] = cells[j]
      /\ \A j \in 1..Len(NextHeader) : t[Len(cells) + j] = NextHeader[j]
    BY <1>1, NextHeaderCell, CellOfConcat
<1> HIDE DEF t
<1>3. Len(t) = size + 3 /\ t[size + 3][1] = "id"
    BY <1>1, <1>2, NextHeaderCell
<1>4. t[1][1] = "id" /\ t[2] = <<"size", size>>
    BY <1>1, <1>2
<1>5. ASSUME NEW j \in 3..(size + 2) PROVE t[j][1] = "byte"
  <2>1. j - 2 \in 1..size /\ 2 + (j - 2) = j /\ j \in 1..Len(cells)
      BY <1>1
  <2>2. cells[2 + (j - 2)] = <<"byte", f.payload[j - 2]>>
      BY <1>1, <2>1
  <2> QED
      BY <1>2, <2>1, <2>2
<1>6. /\ t \in Seq(CellTypes) /\ size \in Nat /\ Len(t) = size + 3
      /\ t[1][1] = "id" /\ t[2] = <<"size", size>>
      /\ \A j \in 3..(size + 2) : t[j][1] = "byte"
      /\ t[size + 3][1] = "id"
    BY <1>1, <1>2, <1>3, <1>4, <1>5
<1> QED
    BY <1>6 DEF t, cells, size

LEMMA AlignedExtend ==
    ASSUME NEW w \in Seq(CellTypes), NEW f, f.id \in Nat, f.payload \in Seq(Nat), Aligned(w \o NextHeader)
    PROVE  Aligned(w \o (Cells(f) \o NextHeader))
<1> DEFINE t == Cells(f) \o NextHeader
           size == Len(f.payload)
           u == w \o NextHeader
           r == w \o t
           n == Len(w)
<1>1. /\ t \in Seq(CellTypes) /\ size \in Nat /\ Len(t) = size + 3
      /\ t[1][1] = "id" /\ t[2][1] = "size" /\ t[2][2] = size
      /\ \A j \in 3..(size + 2) : t[j][1] = "byte"
      /\ t[size + 3][1] = "id"
  <2>1. /\ t \in Seq(CellTypes) /\ size \in Nat /\ Len(t) = size + 3
        /\ t[1][1] = "id" /\ t[2] = <<"size", size>>
        /\ \A j \in 3..(size + 2) : t[j][1] = "byte"
        /\ t[size + 3][1] = "id"
      BY FrameAndHeader, Zenon
  <2> HIDE DEF t, size
  <2> QED
      BY <2>1
<1> HIDE DEF t, size
<1>2. /\ u \in Seq(CellTypes) /\ n \in Nat /\ Len(u) = n + 1
      /\ \A i \in 1..n : u[i] = w[i]
      /\ u[n + 1][1] = "id"
  <2>1. /\ u \in Seq(CellTypes) /\ n \in Nat /\ Len(u) = n + Len(NextHeader)
        /\ \A i \in 1..n : u[i] = w[i]
        /\ \A i \in 1..Len(NextHeader) : u[n + i] = NextHeader[i]
      BY NextHeaderCell, CellOfConcat
  <2> HIDE DEF u, n
  <2> QED
      BY <2>1, NextHeaderCell
<1>3. /\ r \in Seq(CellTypes) /\ Len(r) = n + size + 3
      /\ \A i \in 1..n : r[i] = w[i]
      /\ \A i \in 1..(size + 3) : r[n + i] = t[i]
  <2>1. t \in Seq(CellTypes)
      BY <1>1
  <2>2. /\ r \in Seq(CellTypes) /\ Len(r) = n + Len(t)
        /\ \A i \in 1..n : r[i] = w[i]
        /\ \A i \in 1..Len(t) : r[n + i] = t[i]
      BY <2>1, CellOfConcat
  <2> HIDE DEF r, n
  <2>3. Len(t) = size + 3 /\ n + Len(t) = n + size + 3
      BY <1>1, <1>2
  <2> QED
      BY <2>2, <2>3
<1>4. \A i \in 1..Len(u) : RightAfter(u, i)
    BY <1>2, AlignedMeans
<1>5. u # <<>> => u[1][1] = "id"
    BY <1>2, AlignedMeans
<1>6. \A i \in 1..Len(r) : r[i][2] \in Nat
    BY <1>3, CellNumber
<1> HIDE DEF u, r, n
<1>7. /\ r[n + 1][1] = "id" /\ r[n + 2][1] = "size" /\ r[n + 2][2] = size
      /\ \A j \in (n + 3)..(n + size + 2) : r[j][1] = "byte"
      /\ r[n + size + 3][1] = "id"
  <2>1. \A i \in 1..(size + 3) : r[n + i] = t[i]
      BY <1>3
  <2>2. 1 \in 1..(size + 3) /\ 2 \in 1..(size + 3) /\ size + 3 \in 1..(size + 3)
      BY <1>1
  <2>3. r[n + 1] = t[1] /\ r[n + 2] = t[2] /\ r[n + (size + 3)] = t[size + 3]
      BY <2>1, <2>2
  <2>4. ASSUME NEW j \in (n + 3)..(n + size + 2) PROVE r[j][1] = "byte"
    <3>1. j - n \in 3..(size + 2) /\ n + (j - n) = j /\ j - n \in 1..(size + 3)
        BY <1>1, <1>2
    <3>2. r[n + (j - n)] = t[j - n]
        BY <2>1, <3>1
    <3> QED
        BY <1>1, <3>1, <3>2
  <2>5. n + (size + 3) = n + size + 3
      BY <1>1, <1>2
  <2> QED
      BY <1>1, <2>3, <2>4, <2>5
<1>8. r[1][1] = "id"
  <2>1. CASE n = 0
      BY <1>7, <2>1
  <2>2. CASE n # 0
    <3>1. 1 \in 1..n /\ u # <<>>
        BY <1>2, <2>2, EmptySeq
    <3> QED
        BY <1>2, <1>3, <1>5, <3>1
  <2> QED
      BY <2>1, <2>2
<1>9. ASSUME NEW i \in 1..n PROVE RightAfter(r, i)
  <2>1. /\ r[i] = u[i] /\ RightAfter(u, i) /\ r[i][2] \in Nat /\ i \in 1..Len(r)
    <3>1. i \in 1..Len(u) /\ i \in 1..Len(r)
        BY <1>1, <1>2, <1>3
    <3> QED
        BY <1>2, <1>3, <1>4, <1>6, <3>1
  <2>2. \A j \in 1..n : r[j] = u[j]
      BY <1>2, <1>3
  <2>3. ASSUME r[i][1] = "id" PROVE r[i + 1][1] = "size"
    <3>1. u[i + 1][1] = "size"
        BY <1>2, <2>1, <2>3 DEF RightAfter
    <3>2. i # n
        BY <1>2, <3>1
    <3>3. i + 1 \in 1..n
        BY <1>2, <3>2
    <3> QED
        BY <2>2, <3>1, <3>3
  <2>4. ASSUME r[i][1] = "size"
        PROVE  /\ \A j \in (i + 1)..Len(r) : j < i + r[i][2] + 1 => r[j][1] = "byte"
               /\ i + r[i][2] + 1 <= Len(r) => r[i + r[i][2] + 1][1] = "id"
    <3> DEFINE next == i + r[i][2] + 1
    <3>0. next \in Nat /\ next >= i + 1
        BY <2>1
    <3>1. /\ \A j \in (i + 1)..Len(u) : j < next => u[j][1] = "byte"
          /\ next <= Len(u) => u[next][1] = "id"
        BY <2>1, <2>4 DEF RightAfter
    <3> HIDE DEF next
    <3>2. next <= n + 1
      <4>1. n + 1 \in (i + 1)..Len(u)
          BY <1>2
      <4>2. ~(n + 1 < next)
          BY <1>2, <3>1, <4>1
      <4> QED
          BY <1>2, <3>0, <4>2
    <3>3. ASSUME NEW j \in (i + 1)..Len(r), j < next PROVE r[j][1] = "byte"
      <4>1. j \in 1..n /\ j \in (i + 1)..Len(u)
          BY <1>2, <3>0, <3>2, <3>3
      <4> QED
          BY <2>2, <3>1, <3>3, <4>1
    <3>4. r[next][1] = "id"
      <4>1. CASE next = n + 1
          BY <1>7, <4>1
      <4>2. CASE next # n + 1
        <5>1. next \in 1..n /\ next <= Len(u)
            BY <1>2, <3>0, <3>2, <4>2
        <5> QED
            BY <2>2, <3>1, <5>1
      <4> QED
          BY <4>1, <4>2
    <3> QED
        BY <3>3, <3>4 DEF next
  <2> QED
      BY <2>3, <2>4 DEF RightAfter
<1>10. RightAfter(r, n + 1)
  <2>1. n + 1 + 1 = n + 2
      BY <1>2
  <2> QED
      BY <1>7, <2>1 DEF RightAfter
<1>11. RightAfter(r, n + 2)
  <2>1. /\ n + 2 + size + 1 = n + size + 3
        /\ \A j \in (n + 2 + 1)..Len(r) : j < n + 2 + size + 1 => j \in (n + 3)..(n + size + 2)
      BY <1>1, <1>2, <1>3
  <2> QED
      BY <1>7, <2>1 DEF RightAfter
<1>12. ASSUME NEW i \in (n + 3)..(n + size + 2) PROVE RightAfter(r, i)
    BY <1>7, <1>12 DEF RightAfter
<1>13. RightAfter(r, n + size + 3)
  <2>1. ~(n + size + 3 < Len(r))
      BY <1>1, <1>2, <1>3
  <2> QED
      BY <1>7, <2>1 DEF RightAfter
<1>14. \A i \in 1..Len(r) : RightAfter(r, i)
  <2>1. \A i \in 1..Len(r) : \/ i \in 1..n \/ i = n + 1 \/ i = n + 2
                             \/ i \in (n + 3)..(n + size + 2) \/ i = n + size + 3
      BY <1>1, <1>2, <1>3
  <2> QED
      BY <1>9, <1>10, <1>11, <1>12, <1>13, <2>1
<1>15. Aligned(r)
    BY <1>3, <1>8, <1>14, AlignedMeans
<1> QED
    BY <1>15 DEF r, t

LEMMA AlignedEmpty == Aligned(<<>>)
    BY DEF Aligned

LEMMA AlignedNextHeader == Aligned(NextHeader)
<1>1. RightAfter(NextHeader, 1)
    BY NextHeaderCell DEF RightAfter
<1>2. \A i \in 1..Len(NextHeader) : RightAfter(NextHeader, i)
  <2>1. \A i \in 1..Len(NextHeader) : i = 1
      BY NextHeaderCell
  <2> QED
      BY <1>1, <2>1
<1> QED
    BY <1>2, NextHeaderCell, AlignedMeans

\* Nothing to come is nothing to check.
LEMMA NothingToCome ==
    ASSUME NEW w \in Seq(CellTypes), Aligned(w)
    PROVE  Aligned(w \o <<>>)
<1>1. w \o <<>> = w
    BY ConcatEmptySeq
<1> QED
    BY <1>1

-----------------------------------------------------------------------------
(* The complete frames of a stream.  The library's theorems on induction   *)
(* have operators as parameters; what is needed of it here is done with    *)
(* sets of numbers.                                                        *)

\* A set of numbers that has 0 and the successor of each of its members is Nat.
LEMMA SetInduction ==
    ASSUME NEW T \in SUBSET Nat, 0 \in T, \A n \in T : n + 1 \in T
    PROVE  \A n \in Nat : n \in T
<1> SUFFICES ASSUME Nat \ T # {} PROVE FALSE
    OBVIOUS
<1> DEFINE R == OpToRel(<, Nat)
<1>1. IsWellFoundedOn(R, Nat)
    BY NatLessThanWellFounded
<1>2. \A x, y \in Nat : <<x, y>> \in R <=> x < y
    BY DEF OpToRel
<1> HIDE DEF R
<1>3. PICK x \in Nat \ T : \A y \in Nat \ T : ~(<<y, x>> \in R)
    BY <1>1, WFMin
<1>4. x - 1 \in Nat /\ x - 1 < x /\ (x - 1) + 1 = x
    OBVIOUS
<1>5. x - 1 \in T
    BY <1>2, <1>3, <1>4
<1> QED
    BY <1>4, <1>5

\* Going through the cells of a stream.
Gathers(s, g, k) ==
    g = [n \in 0..k |->
            IF n = 0 THEN <<>>
            ELSE IF CompleteAt(s, n) THEN Append(g[n - 1], FrameAt(s, n))
            ELSE g[n - 1]]

LEMMA GathersExists ==
    ASSUME NEW s, NEW k \in Nat
    PROVE  \E g : Gathers(s, g, k)
<1> DEFINE T == {n \in Nat : \E g : Gathers(s, g, n)}
<1>1. 0 \in T
  <2> DEFINE g == [n \in 0..0 |-> <<>>]
  <2>1. Gathers(s, g, 0)
      BY DEF Gathers
  <2> QED
      BY <2>1
<1>2. ASSUME NEW n \in T PROVE n + 1 \in T
  <2>1. n \in Nat
      OBVIOUS
  <2>2. PICK g : Gathers(s, g, n)
      OBVIOUS
  <2> DEFINE last == IF CompleteAt(s, n + 1) THEN Append(g[n], FrameAt(s, n + 1)) ELSE g[n]
             h == [i \in 0..(n + 1) |-> IF i = n + 1 THEN last ELSE g[i]]
             step(i) == IF i = 0 THEN <<>>
                        ELSE IF CompleteAt(s, i) THEN Append(h[i - 1], FrameAt(s, i))
                        ELSE h[i - 1]
  <2>3. \A i \in 0..n : h[i] = g[i]
      BY <2>1
  <2>4. ASSUME NEW i \in 0..(n + 1) PROVE h[i] = step(i)
    <3>1. CASE i = n + 1
      <4>1. i # 0 /\ i - 1 = n /\ n \in 0..n
          BY <2>1, <3>1
      <4>2. h[i - 1] = g[n]
          BY <2>3, <4>1
      <4> QED
          BY <3>1, <4>1, <4>2
    <3>2. CASE i # n + 1
      <4>1. i \in 0..n /\ (i # 0 => i - 1 \in 0..n)
          BY <2>1, <3>2
      <4>2. h[i] = g[i] /\ (i # 0 => h[i - 1] = g[i - 1])
          BY <2>3, <4>1
      <4>3. g[i] = IF i = 0 THEN <<>>
                   ELSE IF CompleteAt(s, i) THEN Append(g[i - 1], FrameAt(s, i))
                   ELSE g[i - 1]
          BY <2>2, <4>1 DEF Gathers
      <4> HIDE DEF h
      <4> QED
          BY <4>2, <4>3
    <3> QED
        BY <3>1, <3>2
  <2>5. h = [i \in 0..(n + 1) |-> step(i)]
    <3>1. \A i \in 0..(n + 1) : h[i] = step(i)
        BY <2>4
    <3>2. h = [i \in 0..(n + 1) |-> h[i]]
        OBVIOUS
    <3> HIDE DEF h, step
    <3> QED
        BY <3>1, <3>2
  <2> HIDE DEF h
  <2>6. Gathers(s, h, n + 1)
      BY <2>5 DEF Gathers
  <2> QED
      BY <2>1, <2>6
<1> HIDE DEF T
<1>3. k \in T
  <2>1. T \in SUBSET Nat
      BY DEF T
  <2> QED
      BY <1>1, <1>2, <2>1, SetInduction
<1> QED
    BY <1>3 DEF T

LEMMA FramesUpToGathers ==
    ASSUME NEW s, Len(s) \in Nat
    PROVE  Gathers(s, FramesUpTo(s), Len(s))
<1>1. FramesUpTo(s) = CHOOSE g : Gathers(s, g, Len(s))
    BY DEF FramesUpTo, Gathers
<1>2. \E g : Gathers(s, g, Len(s))
    BY GathersExists
<1> QED
    BY <1>1, <1>2

\* The recursion, without the choice of a function that solves it.
LEMMA FramesStep ==
    ASSUME NEW s \in Seq(CellTypes)
    PROVE  /\ FramesUpTo(s)[0] = <<>>
           /\ \A n \in 1..Len(s) :
                 FramesUpTo(s)[n] = IF CompleteAt(s, n)
                                    THEN Append(FramesUpTo(s)[n - 1], FrameAt(s, n))
                                    ELSE FramesUpTo(s)[n - 1]
<1> DEFINE g == FramesUpTo(s)
<1>1. Len(s) \in Nat
    BY LenProperties
<1>2. Gathers(s, g, Len(s))
    BY <1>1, FramesUpToGathers
<1> HIDE DEF g
<1>3. g[0] = <<>>
    BY <1>1, <1>2 DEF Gathers
<1>4. ASSUME NEW n \in 1..Len(s)
      PROVE  g[n] = IF CompleteAt(s, n) THEN Append(g[n - 1], FrameAt(s, n)) ELSE g[n - 1]
  <2>1. n \in 0..Len(s) /\ n # 0
      BY <1>1
  <2> QED
      BY <1>2, <2>1 DEF Gathers
<1> QED
    BY <1>3, <1>4 DEF g

\* They are frames.
LEMMA FrameAtType ==
    ASSUME NEW s \in Seq(CellTypes), NEW i \in 1..Len(s), CompleteAt(s, i)
    PROVE  FrameAt(s, i) \in AnyFrame
<1> DEFINE size == s[i][2]
           bytes == [j \in 1..size |-> s[i + j][2]]
<1>1. Len(s) \in Nat /\ i - 1 \in 1..Len(s) /\ i + size <= Len(s)
    BY LenProperties DEF CompleteAt
<1>2. s[i - 1][2] \in Nat /\ size \in Nat
    BY <1>1, CellNumber
<1>3. \A j \in 1..size : s[i + j][2] \in Nat
  <2> TAKE j \in 1..size
  <2>1. i + j \in 1..Len(s)
      BY <1>1, <1>2
  <2> QED
      BY <2>1, CellNumber
<1>4. bytes \in [1..size -> Nat]
    BY <1>3
<1> HIDE DEF size, bytes
<1>5. bytes \in Seq(Nat)
    BY <1>2, <1>4, SeqDef
<1>6. [id |-> s[i - 1][2], payload |-> bytes] \in AnyFrame
    BY <1>2, <1>5 DEF AnyFrame
<1> QED
    BY <1>6 DEF FrameAt, bytes, size

LEMMA FramesType ==
    ASSUME NEW s \in Seq(CellTypes), NEW n \in 0..Len(s)
    PROVE  FramesUpTo(s)[n] \in Seq(AnyFrame)
<1> DEFINE g == FramesUpTo(s)
           T == {i \in Nat : i <= Len(s) => g[i] \in Seq(AnyFrame)}
<1>0. Len(s) \in Nat
    BY LenProperties
<1>1. 0 \in T
  <2>1. g[0] = <<>>
      BY FramesStep
  <2> QED
      BY <2>1, EmptySeq
<1>2. ASSUME NEW i \in T PROVE i + 1 \in T
  <2> SUFFICES ASSUME i + 1 <= Len(s) PROVE g[i + 1] \in Seq(AnyFrame)
      OBVIOUS
  <2>1. i + 1 \in 1..Len(s) /\ (i + 1) - 1 = i /\ g[i] \in Seq(AnyFrame)
      BY <1>0
  <2>2. g[i + 1] = IF CompleteAt(s, i + 1) THEN Append(g[i], FrameAt(s, i + 1)) ELSE g[i]
      BY <2>1, FramesStep
  <2>3. CompleteAt(s, i + 1) => FrameAt(s, i + 1) \in AnyFrame
      BY <2>1, FrameAtType
  <2> HIDE DEF g
  <2> QED
      BY <2>1, <2>2, <2>3, AppendProperties
<1>3. T \in SUBSET Nat
    OBVIOUS
<1> HIDE DEF T
<1>4. \A i \in Nat : i \in T
    BY <1>1, <1>2, <1>3, SetInduction
<1> QED
    BY <1>0, <1>4 DEF T

\* Two streams have the same frames as far as they agree on them.
LEMMA SameFrames ==
    ASSUME NEW s \in Seq(CellTypes), NEW r \in Seq(CellTypes), NEW k \in Nat,
           k <= Len(s), k <= Len(r),
           \A n \in 1..k : /\ CompleteAt(s, n) <=> CompleteAt(r, n)
                           /\ CompleteAt(s, n) => FrameAt(s, n) = FrameAt(r, n)
    PROVE  FramesUpTo(s)[k] = FramesUpTo(r)[k]
<1> DEFINE g == FramesUpTo(s)
           h == FramesUpTo(r)
           T == {n \in Nat : n <= k => g[n] = h[n]}
<1>0. Len(s) \in Nat /\ Len(r) \in Nat
    BY LenProperties
<1>1. 0 \in T
    BY FramesStep
<1>2. ASSUME NEW n \in T PROVE n + 1 \in T
  <2> SUFFICES ASSUME n + 1 <= k PROVE g[n + 1] = h[n + 1]
      OBVIOUS
  <2>1. /\ n + 1 \in 1..Len(s) /\ n + 1 \in 1..Len(r) /\ n + 1 \in 1..k
        /\ (n + 1) - 1 = n /\ g[n] = h[n]
      BY <1>0
  <2>2. /\ g[n + 1] = IF CompleteAt(s, n + 1) THEN Append(g[n], FrameAt(s, n + 1)) ELSE g[n]
        /\ h[n + 1] = IF CompleteAt(r, n + 1) THEN Append(h[n], FrameAt(r, n + 1)) ELSE h[n]
      BY <2>1, FramesStep
  <2> HIDE DEF g, h
  <2> QED
      BY <2>1, <2>2
<1>3. T \in SUBSET Nat
    OBVIOUS
<1> HIDE DEF T
<1>4. k \in T
    BY <1>1, <1>2, <1>3, SetInduction
<1> QED
    BY <1>4 DEF T

\* Nothing is gathered between complete frames.
LEMMA NoFrames ==
    ASSUME NEW s \in Seq(CellTypes), NEW a \in Nat, NEW b \in Nat, a <= b, b <= Len(s),
           \A n \in (a + 1)..b : ~CompleteAt(s, n)
    PROVE  FramesUpTo(s)[b] = FramesUpTo(s)[a]
<1> DEFINE g == FramesUpTo(s)
           T == {n \in Nat : a + n <= b => g[a + n] = g[a]}
<1>0. Len(s) \in Nat
    BY LenProperties
<1>1. 0 \in T
    OBVIOUS
<1>2. ASSUME NEW n \in T PROVE n + 1 \in T
  <2> SUFFICES ASSUME a + (n + 1) <= b PROVE g[a + (n + 1)] = g[a]
      OBVIOUS
  <2> DEFINE i == a + (n + 1)
  <2>1. /\ i \in 1..Len(s) /\ i \in (a + 1)..b /\ i - 1 = a + n /\ g[a + n] = g[a]
      BY <1>0
  <2> HIDE DEF i
  <2>2. g[i] = g[i - 1]
      BY <2>1, FramesStep
  <2> HIDE DEF g
  <2>3. g[i] = g[a]
      BY <2>1, <2>2
  <2> QED
      BY <2>3 DEF i
<1>3. T \in SUBSET Nat
    OBVIOUS
<1>4. b - a \in Nat /\ a + (b - a) = b
    OBVIOUS
<1> HIDE DEF T
<1>5. b - a \in T
    BY <1>1, <1>2, <1>3, <1>4, SetInduction
<1> QED
    BY <1>4, <1>5 DEF T

\* What an Append leaves of a sequence that is not empty.
LEMMA AppendAfterHead ==
    ASSUME NEW S, NEW q \in Seq(S), q # <<>>, NEW e \in S
    PROVE  /\ Append(q, e) # <<>>
           /\ Head(Append(q, e)) = Head(q)
           /\ Tail(Append(q, e)) = Append(Tail(q), e)
<1> DEFINE a == Append(q, e)
           l == Tail(a)
           t == Tail(q)
           r == Append(t, e)
<1>1. Len(q) \in Nat /\ Len(q) >= 1 /\ Head(q) = q[1]
    BY EmptySeq, LenProperties
<1>2. /\ a \in Seq(S) /\ Len(a) = Len(q) + 1
      /\ \A i \in 1..Len(q) : a[i] = q[i]
      /\ a[Len(q) + 1] = e
    BY AppendProperties
<1>3. /\ t \in Seq(S) /\ Len(t) = Len(q) - 1
      /\ \A i \in 1..Len(t) : t[i] = q[i + 1]
    BY HeadTailProperties
<1> HIDE DEF a, t
<1>4. a # <<>> /\ Head(a) = a[1]
    BY <1>1, <1>2, EmptySeq
<1>5. /\ l \in Seq(S) /\ Len(l) = Len(a) - 1
      /\ \A i \in 1..Len(l) : l[i] = a[i + 1]
    BY <1>2, <1>4, HeadTailProperties
<1>6. /\ r \in Seq(S) /\ Len(r) = Len(t) + 1
      /\ \A i \in 1..Len(t) : r[i] = t[i]
      /\ r[Len(t) + 1] = e
    BY <1>3, AppendProperties
<1> HIDE DEF l, r
<1>7. Len(l) = Len(q) /\ Len(r) = Len(q)
    BY <1>1, <1>2, <1>3, <1>5, <1>6
<1>8. ASSUME NEW i \in 1..Len(l) PROVE l[i] = r[i]
  <2>1. CASE i = Len(q)
      BY <1>1, <1>2, <1>3, <1>5, <1>6, <2>1
  <2>2. CASE i # Len(q)
    <3>1. i \in 1..Len(t) /\ i + 1 \in 1..Len(q)
        BY <1>1, <1>3, <1>7, <2>2
    <3> QED
        BY <1>2, <1>3, <1>5, <1>6, <3>1
  <2> QED
      BY <2>1, <2>2
<1>9. l = r
    BY <1>5, <1>6, <1>7, <1>8, SeqEqual
<1>10. Head(a) = Head(q)
    BY <1>1, <1>2, <1>4
<1> QED
    BY <1>4, <1>9, <1>10 DEF a, l, r, t

\* A stream that starts with one frame, and then has the frames of another.
LEMMA FramesShifted ==
    ASSUME NEW s \in Seq(CellTypes), NEW r \in Seq(CellTypes), NEW m \in Nat,
           NEW e \in AnyFrame,
           Len(s) = m + Len(r),
           FramesUpTo(s)[m] = <<e>>,
           \A n \in 1..Len(r) :
               /\ CompleteAt(s, m + n) <=> CompleteAt(r, n)
               /\ CompleteAt(r, n) => FrameAt(s, m + n) = FrameAt(r, n)
    PROVE  /\ FramesIn(s) # <<>>
           /\ Head(FramesIn(s)) = e
           /\ Tail(FramesIn(s)) = FramesIn(r)
<1> DEFINE g == FramesUpTo(s)
           h == FramesUpTo(r)
           T == {n \in Nat : n <= Len(r) =>
                    g[m + n] # <<>> /\ Head(g[m + n]) = e /\ Tail(g[m + n]) = h[n]}
<1>0. Len(s) \in Nat /\ Len(r) \in Nat
    BY LenProperties
<1>1. 0 \in T
  <2>1. h[0] = <<>> /\ g[m + 0] = <<e>>
      BY FramesStep
  <2>2. <<e>> # <<>> /\ Head(<<e>>) = e /\ Tail(<<e>>) = <<>>
      OBVIOUS
  <2> HIDE DEF g, h
  <2> QED
      BY <2>1, <2>2
<1>2. ASSUME NEW n \in T PROVE n + 1 \in T
  <2> DEFINE i == m + (n + 1)
  <2> SUFFICES ASSUME n + 1 <= Len(r)
               PROVE  g[i] # <<>> /\ Head(g[i]) = e /\ Tail(g[i]) = h[n + 1]
      OBVIOUS
  <2>0. n \in Nat
      OBVIOUS
  <2>1. /\ i \in 1..Len(s) /\ i - 1 = m + n /\ m + n \in 0..Len(s)
        /\ n + 1 \in 1..Len(r) /\ (n + 1) - 1 = n /\ n \in 0..Len(r)
    <3> HIDE DEF T
    <3>1. i >= 1 /\ i <= Len(s) /\ i \in Nat /\ i - 1 = m + n
        BY <1>0, <2>0
    <3>2. n + 1 \in 1..Len(r) /\ (n + 1) - 1 = n /\ n \in 0..Len(r)
        BY <1>0, <2>0
    <3> HIDE DEF i
    <3> QED
        BY <1>0, <2>0, <3>1, <3>2
  <2>2. g[m + n] # <<>> /\ Head(g[m + n]) = e /\ Tail(g[m + n]) = h[n]
      BY <2>1
  <2>3. /\ g[i] = IF CompleteAt(s, i) THEN Append(g[m + n], FrameAt(s, i)) ELSE g[m + n]
        /\ h[n + 1] = IF CompleteAt(r, n + 1) THEN Append(h[n], FrameAt(r, n + 1)) ELSE h[n]
    <3> HIDE DEF i
    <3> QED
        BY <2>1, FramesStep
  <2>4. /\ CompleteAt(s, i) <=> CompleteAt(r, n + 1)
        /\ CompleteAt(r, n + 1) => FrameAt(s, i) = FrameAt(r, n + 1)
      BY <2>1
  <2>5. g[m + n] \in Seq(AnyFrame)
      BY <2>1, FramesType
  <2>6. CompleteAt(r, n + 1) => FrameAt(r, n + 1) \in AnyFrame
      BY <2>1, FrameAtType
  <2> HIDE DEF g, h, i
  <2>7. CASE CompleteAt(r, n + 1)
    <3> DEFINE q == g[m + n]
               d == FrameAt(r, n + 1)
    <3>1. g[i] = Append(q, d) /\ h[n + 1] = Append(h[n], d)
        BY <2>3, <2>4, <2>7
    <3>2. d \in AnyFrame /\ q \in Seq(AnyFrame) /\ q # <<>> /\ Head(q) = e /\ Tail(q) = h[n]
        BY <2>2, <2>5, <2>6, <2>7
    <3> HIDE DEF d, q
    <3>3. /\ Append(q, d) # <<>> /\ Head(Append(q, d)) = Head(q)
          /\ Tail(Append(q, d)) = Append(Tail(q), d)
      <4>1. d \in AnyFrame /\ q \in Seq(AnyFrame) /\ q # <<>>
          BY <3>2
      <4> QED
          BY <4>1, AppendAfterHead
    <3>4. /\ Append(q, d) # <<>> /\ Head(Append(q, d)) = e
          /\ Tail(Append(q, d)) = Append(h[n], d)
        BY <3>2, <3>3, Zenon
    <3> QED
        BY <3>1, <3>4
  <2>8. CASE ~CompleteAt(r, n + 1)
      BY <2>2, <2>3, <2>4, <2>8
  <2> QED
      BY <2>7, <2>8
<1>3. T \in SUBSET Nat
    OBVIOUS
<1> HIDE DEF T
<1>4. Len(r) \in T
    BY <1>0, <1>1, <1>2, <1>3, SetInduction
<1>5. g[Len(s)] # <<>> /\ Head(g[Len(s)]) = e /\ Tail(g[Len(s)]) = h[Len(r)]
    BY <1>0, <1>4 DEF T
<1> QED
    BY <1>5 DEF FramesIn

\* The frames up to a cell are the first ones of all.
LEMMA EarlierFrames ==
    ASSUME NEW s \in Seq(CellTypes), NEW a \in 0..Len(s)
    PROVE  \E j \in 0..Len(FramesIn(s)) : FramesUpTo(s)[a] = SubSeq(FramesIn(s), 1, j)
<1> DEFINE g == FramesUpTo(s)
           T == {n \in Nat : a + n <= Len(s) =>
                    \E j \in 0..Len(g[a + n]) : g[a] = SubSeq(g[a + n], 1, j)}
<1>0. Len(s) \in Nat
    BY LenProperties
<1>1. 0 \in T
  <2> DEFINE q == g[a]
  <2>1. q \in Seq(AnyFrame)
      BY FramesType
  <2> HIDE DEF g, q
  <2>2. Len(q) \in 0..Len(q) /\ SubSeq(q, 1, Len(q)) = q
      BY <2>1, LenProperties, SubSeqFull
  <2>3. a + 0 = a
      BY <1>0
  <2> QED
      BY <2>2, <2>3 DEF q
<1>2. ASSUME NEW n \in T PROVE n + 1 \in T
  <2> DEFINE i == a + (n + 1)
             q == g[a + n]
             d == FrameAt(s, i)
  <2> SUFFICES ASSUME i <= Len(s) PROVE \E j \in 0..Len(g[i]) : g[a] = SubSeq(g[i], 1, j)
      OBVIOUS
  <2>1. i \in 1..Len(s) /\ i - 1 = a + n /\ a + n \in 0..Len(s) /\ a + n <= Len(s)
      BY <1>0
  <2>2. PICK j \in 0..Len(q) : g[a] = SubSeq(q, 1, j)
      BY <2>1
  <2>3. q \in Seq(AnyFrame)
      BY <2>1, FramesType
  <2>4. g[i] = IF CompleteAt(s, i) THEN Append(q, d) ELSE q
    <3> HIDE DEF i
    <3> QED
        BY <2>1, FramesStep
  <2>5. CompleteAt(s, i) => d \in AnyFrame
    <3> HIDE DEF i
    <3> QED
        BY <2>1, FrameAtType
  <2> HIDE DEF g, i, q, d
  <2>6. CASE CompleteAt(s, i)
    <3> DEFINE l == Append(q, d)
    <3>1. /\ l \in Seq(AnyFrame) /\ Len(q) \in Nat /\ Len(l) = Len(q) + 1
          /\ \A k \in 1..Len(q) : l[k] = q[k]
        BY <2>3, <2>5, <2>6, AppendProperties, LenProperties
    <3> HIDE DEF l
    <3>2. j \in 0..Len(l) /\ j \in Nat /\ \A k \in 1..j : l[k] = q[k]
        BY <3>1
    <3>3. SubSeq(l, 1, j) = SubSeq(q, 1, j)
        BY <3>2
    <3> QED
        BY <2>2, <2>4, <2>6, <3>2, <3>3 DEF l
  <2>7. CASE ~CompleteAt(s, i)
      BY <2>2, <2>4, <2>7
  <2> QED
      BY <2>6, <2>7
<1>3. T \in SUBSET Nat
    OBVIOUS
<1>4. Len(s) - a \in Nat /\ a + (Len(s) - a) = Len(s)
    BY <1>0
<1> HIDE DEF T
<1>5. Len(s) - a \in T
    BY <1>1, <1>2, <1>3, <1>4, SetInduction
<1>6. \E j \in 0..Len(g[Len(s)]) : g[a] = SubSeq(g[Len(s)], 1, j)
    BY <1>4, <1>5 DEF T
<1> QED
    BY <1>6 DEF FramesIn

\* The start of a sequence of cells.
LEMMA StartOf ==
    ASSUME NEW s \in Seq(CellTypes), NEW n \in 0..Len(s)
    PROVE  LET r == SubSeq(s, 1, n) IN
           /\ r \in Seq(CellTypes)
           /\ Len(r) = n
           /\ \A i \in 1..n : r[i] = s[i]
<1> DEFINE r == SubSeq(s, 1, n)
<1>1. Len(s) \in Nat /\ n \in Nat /\ n <= Len(s)
    BY LenProperties
<1>2. \A i \in 1..n : s[i] \in CellTypes
    BY <1>1, ElementOfSeq
<1>3. /\ r \in Seq(CellTypes)
      /\ Len(r) = IF 1 <= n THEN n - 1 + 1 ELSE 0
      /\ \A i \in 1..(n - 1 + 1) : r[i] = s[1 + i - 1]
    BY <1>1, <1>2, SubSeqProperties
<1> HIDE DEF r
<1>4. Len(r) = n /\ n - 1 + 1 = n /\ \A i \in 1..n : 1 + i - 1 = i
    BY <1>1, <1>3
<1>5. r \in Seq(CellTypes) /\ Len(r) = n /\ \A i \in 1..n : r[i] = s[i]
    BY <1>3, <1>4
<1> QED
    BY <1>5 DEF r

\* Where a header can follow, every frame is complete.
LEMMA SizesFit ==
    ASSUME NEW w \in Seq(CellTypes), Aligned(w \o NextHeader),
           NEW i \in 1..Len(w), w[i][1] = "size"
    PROVE  i + w[i][2] <= Len(w)
<1> DEFINE u == w \o NextHeader
           n == Len(w)
<1>1. /\ u \in Seq(CellTypes) /\ n \in Nat /\ Len(u) = n + Len(NextHeader)
      /\ \A j \in 1..n : u[j] = w[j]
      /\ \A j \in 1..Len(NextHeader) : u[n + j] = NextHeader[j]
    BY NextHeaderCell, CellOfConcat
<1>2. w[i][2] \in Nat
    BY CellNumber
<1>3. \A j \in 1..Len(u) : RightAfter(u, j)
    BY <1>1, AlignedMeans
<1> HIDE DEF u, n
<1>4. Len(u) = n + 1 /\ u[n + 1][1] = "id" /\ i \in 1..n
    BY <1>1, NextHeaderCell DEF n
<1>5. RightAfter(u, i) /\ u[i] = w[i] /\ i \in 1..Len(u)
    BY <1>1, <1>3, <1>4
<1>6. n + 1 \in (i + 1)..Len(u)
    BY <1>1, <1>4
<1>7. ~(n + 1 < i + w[i][2] + 1)
    BY <1>4, <1>5, <1>6 DEF RightAfter
<1> QED
    BY <1>1, <1>2, <1>7 DEF n

\* Which frames of two streams are complete, where they have the same cells.
LEMMA SameAt ==
    ASSUME NEW s \in Seq(CellTypes), NEW r \in Seq(CellTypes),
           NEW i \in 1..Len(s), Len(s) <= Len(r),
           \A j \in 1..Len(s) : r[j] = s[j],
           CompleteAt(s, i)
    PROVE  CompleteAt(r, i) /\ FrameAt(s, i) = FrameAt(r, i)
<1>1. Len(s) \in Nat /\ Len(r) \in Nat /\ s[i][2] \in Nat
    BY LenProperties, CellNumber
<1>2. r[i] = s[i] /\ i - 1 \in 1..Len(s) /\ i + s[i][2] <= Len(s) /\ i > 1
    BY <1>1 DEF CompleteAt
<1>3. CompleteAt(r, i)
    BY <1>1, <1>2 DEF CompleteAt
<1>4. \A j \in 1..s[i][2] : r[i + j] = s[i + j]
  <2> TAKE j \in 1..s[i][2]
  <2>1. i + j \in 1..Len(s)
      BY <1>1, <1>2
  <2> QED
      BY <2>1
<1>5. r[i - 1] = s[i - 1]
    BY <1>2
<1>6. [j \in 1..s[i][2] |-> s[i + j][2]] = [j \in 1..r[i][2] |-> r[i + j][2]]
    BY <1>2, <1>4
<1> QED
    BY <1>3, <1>5, <1>6 DEF FrameAt

\* Where a header can follow, nothing that comes changes the frames before it.
LEMMA FramesBefore ==
    ASSUME NEW w \in Seq(CellTypes), NEW t \in Seq(CellTypes), Aligned(w \o NextHeader)
    PROVE  FramesUpTo(w \o t)[Len(w)] = FramesIn(w)
<1> DEFINE r == w \o t
           n == Len(w)
<1>1. /\ r \in Seq(CellTypes) /\ n \in Nat /\ Len(t) \in Nat /\ Len(r) = n + Len(t)
      /\ \A i \in 1..n : r[i] = w[i]
    BY CellOfConcat
<1> HIDE DEF r
<1>2. ASSUME NEW i \in 1..n
      PROVE  /\ CompleteAt(w, i) <=> CompleteAt(r, i)
             /\ CompleteAt(w, i) => FrameAt(w, i) = FrameAt(r, i)
  <2>1. n <= Len(r)
      BY <1>1
  <2>2. CompleteAt(w, i) => CompleteAt(r, i) /\ FrameAt(w, i) = FrameAt(r, i)
      BY <1>1, <2>1, SameAt
  <2>3. ASSUME CompleteAt(r, i) PROVE CompleteAt(w, i)
    <3>1. i > 1 /\ w[i][1] = "size"
        BY <1>1, <2>3 DEF CompleteAt
    <3>2. i + w[i][2] <= Len(w)
        BY <3>1, SizesFit
    <3> QED
        BY <3>1, <3>2 DEF CompleteAt
  <2> QED
      BY <2>2, <2>3
<1>3. n <= Len(w) /\ n <= Len(r)
    BY <1>1
<1>4. FramesUpTo(w)[n] = FramesUpTo(r)[n]
    BY <1>1, <1>2, <1>3, SameFrames
<1> QED
    BY <1>4 DEF FramesIn, r

\* A frame that comes in pieces is there when its last cell is.
LEMMA FramesGrown ==
    ASSUME NEW w \in Seq(CellTypes), NEW t \in Seq(CellTypes), NEW f \in AnyFrame,
           Aligned(w \o NextHeader),
           Len(t) <= Len(Cells(f)),
           \A i \in 1..Len(t) : t[i] = Cells(f)[i]
    PROVE  FramesIn(w \o t) = IF Len(t) = Len(Cells(f))
                              THEN Append(FramesIn(w), f) ELSE FramesIn(w)
<1> DEFINE r == w \o t
           n == Len(w)
           k == Len(t)
           size == Len(f.payload)
           g == FramesUpTo(r)
<1>1. /\ r \in Seq(CellTypes) /\ n \in Nat /\ k \in Nat /\ Len(r) = n + k
      /\ \A i \in 1..k : r[n + i] = t[i]
    BY CellOfConcat
<1>2. f.id \in Nat /\ f.payload \in Seq(Nat) /\ f = [id |-> f.id, payload |-> f.payload]
    BY DEF AnyFrame
<1>3. /\ size \in Nat /\ Len(Cells(f)) = size + 2
      /\ Cells(f)[1] = <<"id", f.id>> /\ Cells(f)[2] = <<"size", size>>
      /\ \A j \in 1..size : Cells(f)[2 + j] = <<"byte", f.payload[j]>>
    BY <1>2, CellsMeans
<1>4. g[n] = FramesIn(w)
    BY FramesBefore
<1>5. /\ \A i \in 1..k : r[n + i] = Cells(f)[i]
      /\ k <= size + 2
    BY <1>1, <1>3
<1> HIDE DEF r, n, k, size, g
<1>6. ASSUME NEW i \in (n + 1)..(n + k), CompleteAt(r, i)
      PROVE  i = n + 2 /\ k = size + 2
  <2>1. i - n \in 1..k /\ n + (i - n) = i
      BY <1>1
  <2>2. r[i] = Cells(f)[i - n]
      BY <1>5, <2>1
  <2>3. CASE i = n + 1
    <3>1. i - n = 1
        BY <1>1, <2>3
    <3>2. r[i][1] = "id"
        BY <1>3, <2>2, <3>1
    <3> QED
        BY <1>6, <3>2 DEF CompleteAt
  <2>4. CASE i = n + 2
    <3>1. i - n = 2
        BY <1>1, <2>4
    <3>2. r[i][2] = size
        BY <1>3, <2>2, <3>1
    <3>3. n + 2 + size <= n + k
        BY <1>1, <1>6, <2>4, <3>2 DEF CompleteAt
    <3> QED
        BY <1>1, <1>3, <1>5, <2>4, <3>3
  <2>5. CASE i > n + 2
    <3>1. (i - n) - 2 \in 1..size /\ 2 + ((i - n) - 2) = i - n
        BY <1>1, <1>3, <1>5, <2>5
    <3>2. r[i] = <<"byte", f.payload[(i - n) - 2]>>
        BY <1>3, <2>2, <3>1
    <3> QED
        BY <1>6, <3>2 DEF CompleteAt
  <2> QED
      BY <1>1, <2>3, <2>4, <2>5
<1>7. CASE k # size + 2
  <2>1. n <= n + k /\ n + k <= Len(r) /\ n + k \in Nat
        /\ \A i \in (n + 1)..(n + k) : ~CompleteAt(r, i)
      BY <1>1, <1>6, <1>7
  <2>2. g[n + k] = g[n]
      BY <1>1, <2>1, NoFrames DEF g
  <2>3. FramesIn(r) = FramesIn(w)
      BY <1>1, <1>4, <2>2 DEF FramesIn, g
  <2> QED
      BY <1>3, <1>7, <2>3 DEF r, k
<1>8. CASE k = size + 2
  <2>1. n <= n + 1 /\ n + 1 <= Len(r) /\ n + 1 \in Nat
        /\ \A i \in (n + 1)..(n + 1) : ~CompleteAt(r, i)
      BY <1>1, <1>3, <1>6, <1>8
  <2>2. g[n + 1] = g[n]
      BY <1>1, <2>1, NoFrames DEF g
  <2>3. /\ r[n + 1] = <<"id", f.id>>
        /\ r[n + 2] = <<"size", size>>
        /\ \A j \in 1..size : r[n + (2 + j)] = <<"byte", f.payload[j]>>
    <3>1. 1 \in 1..k /\ 2 \in 1..k /\ \A j \in 1..size : 2 + j \in 1..k
        BY <1>3, <1>8
    <3> QED
        BY <1>3, <1>5, <3>1
  <2>4. n + 2 \in 1..Len(r) /\ (n + 2) - 1 = n + 1
      BY <1>1, <1>3, <1>8
  <2>5. CompleteAt(r, n + 2)
    <3>1. r[n + 2][1] = "size" /\ r[n + 2][2] = size
        BY <2>3
    <3> QED
        BY <1>1, <1>3, <1>8, <3>1 DEF CompleteAt
  <2>6. FrameAt(r, n + 2) = f
    <3>1. r[(n + 2) - 1][2] = f.id /\ r[n + 2][2] = size
        BY <2>3, <2>4
    <3>2. [j \in 1..size |-> r[(n + 2) + j][2]] = [j \in 1..size |-> f.payload[j]]
      <4>1. \A j \in 1..size : (n + 2) + j = n + (2 + j)
          BY <1>1, <1>3
      <4>2. \A j \in 1..size : r[(n + 2) + j][2] = f.payload[j]
          BY <2>3, <4>1
      <4> QED
          BY <4>2
    <3>3. f.payload = [j \in 1..size |-> f.payload[j]]
      <4>1. f.payload \in [1..size -> Nat]
          BY <1>2, LenProperties DEF size
      <4> QED
          BY <4>1
    <3> QED
        BY <1>2, <3>1, <3>2, <3>3 DEF FrameAt
  <2>7. g[n + 2] = Append(g[n + 1], f)
      BY <1>1, <2>4, <2>5, <2>6, FramesStep DEF g
  <2>8. n + 2 \in Nat /\ n + 2 <= n + k /\ n + k <= Len(r) /\ n + k \in Nat
        /\ \A i \in ((n + 2) + 1)..(n + k) : ~CompleteAt(r, i)
    <3>1. \A i \in ((n + 2) + 1)..(n + k) : i \in (n + 1)..(n + k) /\ i # n + 2
        BY <1>1
    <3> QED
        BY <1>1, <1>3, <1>6, <1>8, <3>1
  <2>9. g[n + k] = g[n + 2]
      BY <1>1, <2>8, NoFrames DEF g
  <2>10. FramesIn(r) = Append(FramesIn(w), f)
      BY <1>1, <1>4, <2>2, <2>7, <2>9 DEF FramesIn, g
  <2> QED
      BY <1>3, <1>8, <2>10 DEF r, k
<1> QED
    BY <1>7, <1>8

\* The first frame of a stream has come, and what comes after it.
FirstIn(s) == Len(s) >= HeaderSize /\ HeaderSize + s[2][2] <= Len(s)

AfterFirst(s) == SubSeq(s, HeaderSize + s[2][2] + 1, Len(s))

LEMMA AfterFirstCells ==
    ASSUME NEW s \in Seq(CellTypes), FirstIn(s)
    PROVE  /\ s[2][2] \in Nat
           /\ AfterFirst(s) \in Seq(CellTypes)
           /\ Len(s) \in Nat /\ 2 + s[2][2] <= Len(s)
           /\ Len(s) = (2 + s[2][2]) + Len(AfterFirst(s))
           /\ \A i \in 1..Len(AfterFirst(s)) : AfterFirst(s)[i] = s[(2 + s[2][2]) + i]
<1> DEFINE n == 2 + s[2][2]
<1>1. Len(s) \in Nat /\ Len(s) >= 2 /\ n <= Len(s)
    BY LenProperties DEF FirstIn, HeaderSize
<1>2. s[2][2] \in Nat
    BY <1>1, CellNumber
<1>3. n \in Nat
    BY <1>2
<1>4. AfterFirst(s) = SubSeq(s, n + 1, Len(s))
    BY DEF AfterFirst, HeaderSize
<1> HIDE DEF n
<1>5. /\ AfterFirst(s) \in Seq(CellTypes) /\ Len(AfterFirst(s)) = Len(s) - n
      /\ \A i \in 1..Len(AfterFirst(s)) : AfterFirst(s)[i] = s[n + i]
    BY <1>1, <1>3, <1>4, PieceOf
<1>6. Len(s) = n + Len(AfterFirst(s))
    BY <1>1, <1>3, <1>5
<1> QED
    BY <1>1, <1>2, <1>5, <1>6 DEF n

\* An aligned stream starts with a header.
LEMMA HeaderFirst ==
    ASSUME NEW s \in Seq(CellTypes), Aligned(s), Len(s) >= 2
    PROVE  s[1][1] = "id" /\ s[2][1] = "size" /\ RightAfter(s, 2)
<1>1. Len(s) \in Nat /\ 1 \in 1..Len(s) /\ 2 \in 1..Len(s) /\ 1 < Len(s) /\ s # <<>>
    BY LenProperties, EmptySeq
<1>2. s[1][1] = "id" /\ RightAfter(s, 1) /\ RightAfter(s, 2)
    BY <1>1, AlignedMeans
<1> QED
    BY <1>1, <1>2 DEF RightAfter

LEMMA AlignedAfterFirst ==
    ASSUME NEW s \in Seq(CellTypes), Aligned(s), FirstIn(s)
    PROVE  Aligned(AfterFirst(s))
<1>1. Len(s) >= HeaderSize
    BY DEF FirstIn
<1> QED
    BY <1>1, AlignedDrop DEF AfterFirst

\* Taking the first frame of a stream.
LEMMA FramesTaken ==
    ASSUME NEW s \in Seq(CellTypes), Aligned(s), FirstIn(s)
    PROVE  /\ FramesIn(s) # <<>>
           /\ Head(FramesIn(s)) = FrameAt(s, 2)
           /\ Tail(FramesIn(s)) = FramesIn(AfterFirst(s))
<1> DEFINE r == AfterFirst(s)
           size == s[2][2]
           m == 2 + size
           e == FrameAt(s, 2)
           g == FramesUpTo(s)
<1>1. /\ size \in Nat /\ r \in Seq(CellTypes) /\ Len(s) \in Nat /\ m <= Len(s)
      /\ Len(s) = m + Len(r)
      /\ \A i \in 1..Len(r) : r[i] = s[m + i]
    BY AfterFirstCells
<1>2. Aligned(r)
    BY AlignedAfterFirst
<1>3. /\ s[1][1] = "id" /\ s[2][1] = "size"
      /\ \A j \in 3..Len(s) : j < m + 1 => s[j][1] = "byte"
  <2>1. Len(s) >= 2
      BY <1>1
  <2>2. s[1][1] = "id" /\ s[2][1] = "size" /\ RightAfter(s, 2)
      BY <2>1, HeaderFirst
  <2>3. 2 + 1 = 3 /\ 2 + size + 1 = m + 1
      BY <1>1
  <2> QED
      BY <2>2, <2>3 DEF RightAfter
<1> HIDE DEF r, e, g
<1>4. Len(r) \in Nat /\ m \in Nat /\ m >= 2 /\ 1 \in 1..Len(s) /\ 2 \in 1..Len(s)
  <2>1. Len(r) \in Nat
      BY <1>1, LenProperties
  <2> HIDE DEF size
  <2> QED
      BY <1>1, <2>1
<1>5. CompleteAt(s, 2) /\ ~CompleteAt(s, 1)
    BY <1>1, <1>3 DEF CompleteAt
<1>6. e \in AnyFrame
    BY <1>4, <1>5, FrameAtType DEF e
<1>7. g[2] = <<e>>
  <2>1. g[0] = <<>>
      BY FramesStep DEF g
  <2>2. g[1] = g[0]
    <3>1. 1 - 1 = 0
        OBVIOUS
    <3> QED
        BY <1>4, <1>5, <3>1, FramesStep DEF g
  <2>3. g[2] = Append(g[1], e)
    <3>1. 2 - 1 = 1
        OBVIOUS
    <3> QED
        BY <1>4, <1>5, <3>1, FramesStep DEF g, e
  <2> QED
      BY <2>1, <2>2, <2>3
<1> HIDE DEF size, m
<1>8. g[m] = <<e>>
  <2>1. \A n \in (2 + 1)..m : ~CompleteAt(s, n)
    <3> TAKE n \in (2 + 1)..m
    <3>1. n \in 3..Len(s) /\ n < m + 1
        BY <1>1, <1>4
    <3>2. s[n][1] = "byte"
        BY <1>3, <3>1
    <3> QED
        BY <3>2 DEF CompleteAt
  <2>2. g[m] = g[2]
      BY <1>1, <1>4, <2>1, NoFrames DEF g
  <2> QED
      BY <1>7, <2>2
<1>9. ASSUME NEW n \in 1..Len(r)
      PROVE  /\ CompleteAt(s, m + n) <=> CompleteAt(r, n)
             /\ CompleteAt(r, n) => FrameAt(s, m + n) = FrameAt(r, n)
  <2>1. r[n] = s[m + n] /\ r[n][2] \in Nat
      BY <1>1, CellNumber
  <2>2. CASE n = 1
    <3>1. r # <<>>
        BY <1>4, <2>2, EmptySeq
    <3>2. r[1][1] = "id"
        BY <1>1, <1>2, <3>1, AlignedMeans
    <3> QED
        BY <2>1, <2>2, <3>2 DEF CompleteAt
  <2>3. CASE n # 1
    <3>1. n > 1 /\ m + n > 1 /\ n - 1 \in 1..Len(r)
        BY <1>4, <2>3
    <3>2. m + n + r[n][2] <= Len(s) <=> n + r[n][2] <= Len(r)
        BY <1>1, <1>4, <2>1
    <3>3. CompleteAt(s, m + n) <=> CompleteAt(r, n)
        BY <2>1, <3>1, <3>2 DEF CompleteAt
    <3>4. ASSUME CompleteAt(r, n) PROVE FrameAt(s, m + n) = FrameAt(r, n)
      <4>1. n + r[n][2] <= Len(r)
          BY <3>4 DEF CompleteAt
      <4>2. r[n - 1] = s[(m + n) - 1]
        <5>1. m + (n - 1) = (m + n) - 1
            BY <1>4
        <5> QED
            BY <1>1, <3>1, <5>1
      <4>3. \A j \in 1..r[n][2] : r[n + j] = s[(m + n) + j]
        <5> TAKE j \in 1..r[n][2]
        <5>1. n + j \in 1..Len(r) /\ m + (n + j) = (m + n) + j
            BY <1>4, <2>1, <4>1
        <5> QED
            BY <1>1, <5>1
      <4>4. [j \in 1..r[n][2] |-> r[n + j][2]] = [j \in 1..s[m + n][2] |-> s[(m + n) + j][2]]
          BY <2>1, <4>3
      <4> QED
          BY <4>2, <4>4 DEF FrameAt
    <3> QED
        BY <3>3, <3>4
  <2> QED
      BY <2>2, <2>3
<1>10. /\ FramesIn(s) # <<>> /\ Head(FramesIn(s)) = e
       /\ Tail(FramesIn(s)) = FramesIn(r)
    BY <1>1, <1>4, <1>6, <1>8, <1>9, FramesShifted DEF g
<1> QED
    BY <1>10 DEF e, r

\* What is lost at the end of a stream are frames at the end.
LEMMA FramesCut ==
    ASSUME NEW s \in Seq(CellTypes), Aligned(s), NEW n \in 0..Len(s)
    PROVE  \E j \in 0..Len(FramesIn(s)) :
               FramesIn(SubSeq(s, 1, n)) = SubSeq(FramesIn(s), 1, j)
<1> DEFINE r == SubSeq(s, 1, n)
<1>1. /\ r \in Seq(CellTypes) /\ Len(r) = n /\ \A i \in 1..n : r[i] = s[i]
      /\ Len(s) \in Nat /\ n \in Nat /\ n <= Len(s)
    BY StartOf, LenProperties
<1> HIDE DEF r
<1>2. SUFFICES ASSUME NEW m \in 0..n,
                      \A i \in 1..m : CompleteAt(s, i) => CompleteAt(r, i),
                      \A i \in (m + 1)..n : ~CompleteAt(r, i)
               PROVE  \E j \in 0..Len(FramesIn(s)) : FramesIn(r) = SubSeq(FramesIn(s), 1, j)
  <2> DEFINE Short(i) == CompleteAt(s, i) /\ ~CompleteAt(r, i)
  <2>1. CASE \A i \in 1..n : ~Short(i)
    <3>1. n \in 0..n /\ \A i \in (n + 1)..n : ~CompleteAt(r, i)
        BY <1>1
    <3>2. \A i \in 1..n : CompleteAt(s, i) => CompleteAt(r, i)
        BY <2>1
    <3> QED
        BY <1>2, <3>1, <3>2 DEF r
  <2>2. CASE \E i \in 1..n : Short(i)
    <3>1. PICK k \in 1..n : CompleteAt(s, k) /\ ~CompleteAt(r, k)
        BY <2>2
    <3>2. /\ s[k] = r[k] /\ s[k][1] = "size" /\ k > 1 /\ s[k][2] \in Nat
          /\ k \in 1..Len(s) /\ k + s[k][2] > n
      <4>1. k \in 1..Len(s) /\ k \in Nat
          BY <1>1
      <4>2. s[k][2] \in Nat
          BY <4>1, CellNumber
      <4> QED
          BY <1>1, <3>1, <4>1, <4>2 DEF CompleteAt
    <3>3. k - 1 \in 0..n /\ (k - 1) + 1 = k
        BY <1>1
    <3>4. ASSUME NEW i \in 1..(k - 1), CompleteAt(s, i) PROVE CompleteAt(r, i)
      <4>1. i \in 1..Len(s) /\ i \in 1..n /\ k \in (i + 1)..Len(s)
          BY <1>1, <3>3
      <4>2. s[i][2] \in Nat /\ RightAfter(s, i)
          BY <4>1, CellNumber, AlignedMeans
      <4>3. ~(k < i + s[i][2] + 1)
        <5>1. s[i][1] = "size"
            BY <3>4 DEF CompleteAt
        <5>2. k < i + s[i][2] + 1 => s[k][1] = "byte"
            BY <4>1, <4>2, <5>1 DEF RightAfter
        <5> QED
            BY <3>2, <5>2
      <4>4. i + s[i][2] <= n
          BY <1>1, <4>1, <4>2, <4>3
      <4> QED
          BY <1>1, <3>4, <4>1, <4>4 DEF CompleteAt
    <3>5. ASSUME NEW i \in k..n PROVE ~CompleteAt(r, i)
      <4>1. CASE i = k
          BY <3>1, <4>1
      <4>2. CASE i # k
        <5>1. i \in (k + 1)..Len(s) /\ i \in 1..n /\ i < k + s[k][2] + 1
            BY <1>1, <3>2, <4>2
        <5>2. RightAfter(s, k)
            BY <3>2, AlignedMeans
        <5>3. s[i][1] = "byte"
            BY <3>2, <5>1, <5>2 DEF RightAfter
        <5> QED
            BY <1>1, <5>1, <5>3 DEF CompleteAt
      <4> QED
          BY <4>1, <4>2
    <3> QED
        BY <1>2, <3>3, <3>4, <3>5 DEF r
  <2> QED
      BY <2>1, <2>2
<1>3. m \in Nat /\ m <= n /\ m <= Len(s) /\ m <= Len(r) /\ m \in 0..Len(s)
    BY <1>1
<1>4. FramesIn(r) = FramesUpTo(r)[m]
    BY <1>1, <1>2, <1>3, NoFrames DEF FramesIn
<1>5. ASSUME NEW i \in 1..m
      PROVE  /\ CompleteAt(r, i) <=> CompleteAt(s, i)
             /\ CompleteAt(r, i) => FrameAt(r, i) = FrameAt(s, i)
  <2>1. i \in 1..Len(r) /\ Len(r) <= Len(s)
      BY <1>1, <1>3
  <2> QED
      BY <1>1, <1>2, <2>1, SameAt
<1>6. FramesUpTo(r)[m] = FramesUpTo(s)[m]
    BY <1>1, <1>3, <1>5, SameFrames
<1>7. \E j \in 0..Len(FramesIn(s)) : FramesUpTo(s)[m] = SubSeq(FramesIn(s), 1, j)
    BY <1>3, EarlierFrames
<1> QED
    BY <1>4, <1>6, <1>7

\* The frames of what has come are those at the front of all there will be.
LEMMA FramesOfFront ==
    ASSUME NEW s \in Seq(CellTypes), NEW t \in Seq(CellTypes), Aligned(s \o t)
    PROVE  \E j \in 0..Len(FramesIn(s \o t)) : FramesIn(s) = SubSeq(FramesIn(s \o t), 1, j)
<1> DEFINE r == s \o t
           n == Len(s)
<1>1. /\ r \in Seq(CellTypes) /\ n \in Nat /\ Len(t) \in Nat
      /\ Len(r) = n + Len(t)
      /\ \A i \in 1..n : r[i] = s[i]
    BY CellOfConcat
<1>2. n \in 0..Len(r)
    BY <1>1
<1>3. SubSeq(r, 1, n) = s
  <2> DEFINE q == SubSeq(r, 1, n)
  <2>1. q \in Seq(CellTypes) /\ Len(q) = n /\ \A i \in 1..n : q[i] = r[i]
      BY <1>1, <1>2, StartOf
  <2> HIDE DEF q, r
  <2>2. Len(q) = Len(s) /\ \A i \in 1..Len(q) : q[i] = s[i]
      BY <1>1, <2>1
  <2>3. q = s
      BY <2>1, <2>2, SeqEqual
  <2> QED
      BY <2>3 DEF q
<1>4. Aligned(r)
    OBVIOUS
<1> HIDE DEF r
<1>5. \E j \in 0..Len(FramesIn(r)) : FramesIn(SubSeq(r, 1, n)) = SubSeq(FramesIn(r), 1, j)
    BY <1>1, <1>2, <1>4, FramesCut
<1>6. \E j \in 0..Len(FramesIn(r)) : FramesIn(s) = SubSeq(FramesIn(r), 1, j)
    BY <1>3, <1>5
<1> QED
    BY <1>6 DEF r

LEMMA FramesInType ==
    ASSUME NEW s \in Seq(CellTypes)
    PROVE  FramesIn(s) \in Seq(AnyFrame)
<1>1. Len(s) \in 0..Len(s)
    BY LenProperties
<1> QED
    BY <1>1, FramesType DEF FramesIn

LEMMA FramesOfNothing == FramesIn(<<>>) = <<>>
<1>1. <<>> \in Seq(CellTypes) /\ Len(<<>>) = 0
    BY EmptySeq
<1> QED
    BY <1>1, FramesStep DEF FramesIn

\* Of a stream whose first frame is not complete, none is.
LEMMA NoFirstFrame ==
    ASSUME NEW s \in Seq(CellTypes), Aligned(s), ~FirstIn(s)
    PROVE  FramesIn(s) = <<>>
<1>1. Len(s) \in Nat
    BY LenProperties
<1>2. ASSUME NEW n \in 1..Len(s), CompleteAt(s, n) PROVE FALSE
  <2>1. n > 1 /\ s[n][1] = "size" /\ s[n][2] \in Nat /\ n + s[n][2] <= Len(s)
      BY <1>2, CellNumber DEF CompleteAt
  <2>2. Len(s) >= 2 /\ s[2][2] \in Nat
    <3>1. 2 \in 1..Len(s)
        BY <1>1, <2>1
    <3> QED
        BY <1>1, <2>1, <3>1, CellNumber
  <2>3. 2 + s[2][2] > Len(s)
      BY <1>1, <2>2 DEF FirstIn, HeaderSize
  <2>4. s[2][1] = "size" /\ RightAfter(s, 2)
      BY <2>2, HeaderFirst
  <2>5. n # 2
      BY <2>1, <2>3
  <2>6. n \in (2 + 1)..Len(s) /\ n < 2 + s[2][2] + 1
      BY <1>1, <2>1, <2>2, <2>3, <2>5
  <2> QED
      BY <2>1, <2>4, <2>6 DEF RightAfter
<1>3. FramesUpTo(s)[Len(s)] = FramesUpTo(s)[0]
  <2>1. \A n \in (0 + 1)..Len(s) : ~CompleteAt(s, n)
      BY <1>2
  <2> QED
      BY <1>1, <2>1, NoFrames
<1> QED
    BY <1>3, FramesStep DEF FramesIn

\* What comes later does not matter for the first frame.
LEMMA FirstBefore ==
    ASSUME NEW s \in Seq(CellTypes), NEW t \in Seq(CellTypes), FirstIn(s)
    PROVE  FirstIn(s \o t) /\ AfterFirst(s \o t) = AfterFirst(s) \o t
<1> DEFINE r == s \o t
           n == HeaderSize + s[2][2]
<1>1. s[2][2] \in Nat /\ 2 + s[2][2] <= Len(s)
    BY AfterFirstCells
<1>2. /\ Len(s) \in Nat /\ Len(t) \in Nat /\ Len(r) = Len(s) + Len(t)
      /\ \A i \in 1..Len(s) : r[i] = s[i]
    BY CellOfConcat
<1>3. SubSeq(r, n + 1, Len(r)) = SubSeq(s, n + 1, Len(s)) \o t
  <2>1. n \in Nat /\ n <= Len(s)
      BY <1>1 DEF HeaderSize
  <2> HIDE DEF n
  <2> QED
      BY <2>1, CutConcat
<1> HIDE DEF r
<1>4. r[2] = s[2]
    BY <1>1, <1>2
<1>5. FirstIn(r)
    BY <1>1, <1>2, <1>4 DEF FirstIn, HeaderSize
<1>6. AfterFirst(r) = AfterFirst(s) \o t
    BY <1>3, <1>4 DEF AfterFirst
<1> QED
    BY <1>5, <1>6 DEF r

LEMMA AlignedTaken ==
    ASSUME NEW s \in Seq(CellTypes), NEW t \in Seq(CellTypes), Aligned(s \o t), FirstIn(s)
    PROVE  Aligned(AfterFirst(s) \o t)
<1>1. s \o t \in Seq(CellTypes)
    BY CellOfConcat
<1>2. FirstIn(s \o t) /\ AfterFirst(s \o t) = AfterFirst(s) \o t
    BY FirstBefore
<1>3. Aligned(AfterFirst(s \o t))
    BY <1>1, <1>2, AlignedAfterFirst
<1> QED
    BY <1>2, <1>3

-----------------------------------------------------------------------------
(* A frame on its way: the stream s ends with some of its cells, and the   *)
(* sender has the rest u.                                                  *)

Midway(s, u, f) ==
    \E w, t \in Seq(CellTypes) :
        s = w \o t /\ t \o u = Cells(f) /\ Aligned(w \o NextHeader)

\* It may begin where a header can follow.
LEMMA MidwayStart ==
    ASSUME NEW s \in Seq(CellTypes), NEW f \in AnyFrame, Aligned(s \o NextHeader)
    PROVE  Midway(s, Cells(f), f) /\ Cells(f) \in Seq(CellTypes) /\ Cells(f) # <<>>
<1>1. f.id \in Nat /\ f.payload \in Seq(Nat)
    BY DEF AnyFrame
<1>2. Cells(f) \in Seq(CellTypes) /\ Len(Cells(f)) = Len(f.payload) + 2 /\ Len(f.payload) \in Nat
    BY <1>1, CellsMeans
<1>3. <<>> \in Seq(CellTypes) /\ s \o <<>> = s /\ <<>> \o Cells(f) = Cells(f)
    BY <1>2, EmptySeq, ConcatEmptySeq
<1>4. Cells(f) # <<>>
    BY <1>2, EmptySeq
<1>5. Midway(s, Cells(f), f)
    BY <1>3 DEF Midway
<1> QED
    BY <1>2, <1>4, <1>5

\* What has come and what is to come make a stream of whole frames.
LEMMA MidwayAligned ==
    ASSUME NEW s \in Seq(CellTypes), NEW u \in Seq(CellTypes), NEW f \in AnyFrame,
           Midway(s, u, f)
    PROVE  Aligned((s \o u) \o NextHeader)
<1>1. PICK w, t \in Seq(CellTypes) :
          s = w \o t /\ t \o u = Cells(f) /\ Aligned(w \o NextHeader)
    BY DEF Midway
<1>2. f.id \in Nat /\ f.payload \in Seq(Nat)
    BY DEF AnyFrame
<1>3. Aligned(w \o (Cells(f) \o NextHeader))
    BY <1>1, <1>2, AlignedExtend
<1>4. Cells(f) \in Seq(CellTypes)
    BY <1>2, CellsType
<1>5. (w \o Cells(f)) \o NextHeader = w \o (Cells(f) \o NextHeader)
  <2> DEFINE c == Cells(f)
             h == NextHeader
  <2>1. c \in Seq(CellTypes) /\ h \in Seq(CellTypes)
      BY <1>4, NextHeaderCell
  <2> HIDE DEF c, h
  <2>2. (w \o c) \o h = w \o (c \o h)
      BY <2>1, Regroup, Zenon
  <2> QED
      BY <2>2 DEF c, h
<1>6. (w \o t) \o u = w \o (t \o u)
    BY Regroup, Zenon
<1> QED
    BY <1>1, <1>3, <1>5, <1>6

\* Where a header can follow, all is aligned.
LEMMA AlignedSoFar ==
    ASSUME NEW s \in Seq(CellTypes), NEW t \in Seq(CellTypes), Aligned((s \o t) \o NextHeader)
    PROVE  Aligned(s \o t) /\ Aligned(s)
<1>1. s \o t \in Seq(CellTypes) /\ NextHeader \in Seq(CellTypes)
    BY CellOfConcat, NextHeaderCell
<1>2. Aligned(s \o t)
    BY <1>1, AlignedPrefix
<1> QED
    BY <1>2, AlignedPrefix

\* Some more of the frame comes, or all of it.
LEMMA MidwayOn ==
    ASSUME NEW s \in Seq(CellTypes), NEW u \in Seq(CellTypes), NEW f \in AnyFrame,
           Midway(s, u, f), NEW n \in 1..Len(u)
    PROVE  LET more == SubSeq(u, 1, n)
               rest == SubSeq(u, n + 1, Len(u))
           IN  /\ more \in Seq(CellTypes)
               /\ rest \in Seq(CellTypes)
               /\ s \o more \in Seq(CellTypes)
               /\ rest # <<>> => /\ Midway(s \o more, rest, f)
                                 /\ FramesIn(s \o more) = FramesIn(s)
               /\ rest = <<>> => /\ Aligned((s \o more) \o NextHeader)
                                 /\ FramesIn(s \o more) = Append(FramesIn(s), f)
<1> DEFINE more == SubSeq(u, 1, n)
           rest == SubSeq(u, n + 1, Len(u))
<1>1. PICK w, t \in Seq(CellTypes) :
          s = w \o t /\ t \o u = Cells(f) /\ Aligned(w \o NextHeader)
    BY DEF Midway
<1>2. Len(u) \in Nat /\ n \in Nat /\ n \in 0..Len(u) /\ n <= Len(u) /\ n >= 1
    BY LenProperties
<1>3. more \in Seq(CellTypes) /\ Len(more) = n /\ \A i \in 1..n : more[i] = u[i]
    BY <1>2, StartOf
<1>4. rest \in Seq(CellTypes) /\ Len(rest) = Len(u) - n
    BY <1>2, PieceOf
<1>5. more \o rest = u
  <2>1. 1 \in 1..Len(u) + 1 /\ n \in 1 - 1..Len(u) /\ Len(u) \in n..Len(u)
      BY <1>2
  <2>2. more \o rest = SubSeq(u, 1, Len(u))
      BY <2>1, ConcatAdjacentSubSeq
  <2>3. SubSeq(u, 1, Len(u)) = u
      BY SubSeqFull
  <2> QED
      BY <2>2, <2>3
<1>6. Cells(f) \in Seq(CellTypes) /\ Len(Cells(f)) \in Nat
    BY CellsType, LenProperties DEF AnyFrame
<1> HIDE DEF more, rest
<1>7. t \o more \in Seq(CellTypes) /\ s \o more \in Seq(CellTypes)
    BY <1>3, CellOfConcat
<1>8. s \o more = w \o (t \o more)
  <2>1. more \in Seq(CellTypes)
      BY <1>3
  <2>2. (w \o t) \o more = w \o (t \o more)
      BY <2>1, Regroup, Zenon
  <2> QED
      BY <1>1, <2>2
<1>9. (t \o more) \o rest = Cells(f)
  <2>1. (t \o more) \o rest = t \o (more \o rest)
    <3>1. more \in Seq(CellTypes) /\ rest \in Seq(CellTypes)
        BY <1>3, <1>4
    <3> QED
        BY <3>1, Regroup, Zenon
  <2> QED
      BY <1>1, <1>5, <2>1
<1>10. /\ Len(t) \in Nat /\ Len(t \o more) \in Nat /\ Len(t \o more) = Len(t) + n
       /\ Len(Cells(f)) = Len(t \o more) + Len(rest)
       /\ \A i \in 1..Len(t \o more) : (t \o more)[i] = Cells(f)[i]
  <2>1. /\ Len(t) \in Nat /\ Len(t \o more) \in Nat /\ Len(t \o more) = Len(t) + Len(more)
      BY <1>3, <1>7, CellOfConcat, LenProperties
  <2> DEFINE p == t \o more
  <2>2. p \in Seq(CellTypes)
      BY <1>7
  <2> HIDE DEF p
  <2>3. /\ Len(p \o rest) = Len(p) + Len(rest)
        /\ \A i \in 1..Len(p) : (p \o rest)[i] = p[i]
      BY <1>4, <2>2, CellOfConcat
  <2> QED
      BY <1>3, <1>9, <2>1, <2>3 DEF p
<1>11. FramesIn(s \o more) = IF Len(t \o more) = Len(Cells(f))
                             THEN Append(FramesIn(w), f) ELSE FramesIn(w)
  <2>1. Len(t \o more) <= Len(Cells(f))
      BY <1>2, <1>4, <1>6, <1>10
  <2> DEFINE p == t \o more
  <2>2. p \in Seq(CellTypes) /\ Len(p) <= Len(Cells(f)) /\ \A i \in 1..Len(p) : p[i] = Cells(f)[i]
      BY <1>7, <1>10, <2>1
  <2> HIDE DEF p
  <2>3. FramesIn(w \o p) = IF Len(p) = Len(Cells(f))
                           THEN Append(FramesIn(w), f) ELSE FramesIn(w)
      BY <1>1, <2>2, FramesGrown
  <2> QED
      BY <1>8, <2>3 DEF p
<1>12. FramesIn(s) = FramesIn(w)
  <2>1. Len(Cells(f)) = Len(t) + Len(u) /\ \A i \in 1..Len(t) : t[i] = Cells(f)[i]
      BY <1>1, CellOfConcat
  <2>2. Len(t) <= Len(Cells(f)) /\ Len(t) # Len(Cells(f))
      BY <1>2, <1>10, <2>1
  <2>3. FramesIn(w \o t) = IF Len(t) = Len(Cells(f))
                           THEN Append(FramesIn(w), f) ELSE FramesIn(w)
      BY <1>1, <2>1, <2>2, FramesGrown
  <2> QED
      BY <1>1, <2>2, <2>3
<1>13. ASSUME rest # <<>>
       PROVE  Midway(s \o more, rest, f) /\ FramesIn(s \o more) = FramesIn(s)
  <2>1. Len(rest) # 0 /\ Len(rest) \in Nat
      BY <1>4, <1>13, EmptySeq, LenProperties
  <2>2. Len(t \o more) # Len(Cells(f))
      BY <1>10, <2>1
  <2>3. Midway(s \o more, rest, f)
      BY <1>1, <1>7, <1>8, <1>9 DEF Midway
  <2> QED
      BY <1>11, <1>12, <2>2, <2>3
<1>14. ASSUME rest = <<>>
       PROVE  Aligned((s \o more) \o NextHeader) /\ FramesIn(s \o more) = Append(FramesIn(s), f)
  <2>1. Len(t \o more) = Len(Cells(f))
    <3>1. Len(rest) = 0
        BY <1>14
    <3> QED
        BY <1>10, <3>1
  <2>2. more = u
      BY <1>3, <1>5, <1>14, ConcatEmptySeq
  <2>3. Aligned((s \o u) \o NextHeader)
      BY MidwayAligned
  <2> QED
      BY <1>11, <1>12, <2>1, <2>2, <2>3
<1>15. /\ rest # <<>> => Midway(s \o more, rest, f) /\ FramesIn(s \o more) = FramesIn(s)
       /\ rest = <<>> => /\ Aligned((s \o more) \o NextHeader)
                         /\ FramesIn(s \o more) = Append(FramesIn(s), f)
    BY <1>13, <1>14
<1> QED
    BY <1>3, <1>4, <1>7, <1>15 DEF more, rest

\* When it has come, it is the last of the frames.
LEMMA MidwayFrames ==
    ASSUME NEW s \in Seq(CellTypes), NEW u \in Seq(CellTypes), NEW f \in AnyFrame,
           Midway(s, u, f), u # <<>>
    PROVE  FramesIn(s \o u) = Append(FramesIn(s), f)
<1>1. Len(u) \in 1..Len(u)
    BY EmptySeq, LenProperties
<1>2. SubSeq(u, 1, Len(u)) = u /\ SubSeq(u, Len(u) + 1, Len(u)) = <<>>
    BY SubSeqFull, SubSeqEmpty, LenProperties
<1> DEFINE more == SubSeq(u, 1, Len(u))
           rest == SubSeq(u, Len(u) + 1, Len(u))
<1>3. rest = <<>> => FramesIn(s \o more) = Append(FramesIn(s), f)
    BY <1>1, MidwayOn
<1> HIDE DEF more, rest
<1> QED
    BY <1>2, <1>3 DEF more, rest

\* A frame before it is taken.
LEMMA MidwayTaken ==
    ASSUME NEW s \in Seq(CellTypes), NEW u \in Seq(CellTypes), NEW f \in AnyFrame,
           Midway(s, u, f), u # <<>>, FirstIn(s)
    PROVE  Midway(AfterFirst(s), u, f)
<1>1. PICK w, t \in Seq(CellTypes) :
          s = w \o t /\ t \o u = Cells(f) /\ Aligned(w \o NextHeader)
    BY DEF Midway
<1>2. /\ s[2][2] \in Nat /\ Len(s) \in Nat /\ 2 + s[2][2] <= Len(s)
    BY AfterFirstCells
<1>3. /\ Len(w) \in Nat /\ Len(t) \in Nat /\ Len(s) = Len(w) + Len(t)
      /\ \A i \in 1..Len(w) : s[i] = w[i]
      /\ \A i \in 1..Len(t) : s[Len(w) + i] = t[i]
    BY <1>1, CellOfConcat
<1>4. Len(u) \in Nat /\ Len(u) >= 1
    BY EmptySeq, LenProperties
<1>5. CASE Len(w) = 0
  <2>1. f.id \in Nat /\ f.payload \in Seq(Nat)
      BY DEF AnyFrame
  <2>2. /\ Len(f.payload) \in Nat /\ Len(Cells(f)) = Len(f.payload) + 2
        /\ Cells(f)[2] = <<"size", Len(f.payload)>>
      BY <2>1, CellsMeans
  <2>3. Len(Cells(f)) = Len(t) + Len(u) /\ \A i \in 1..Len(t) : Cells(f)[i] = t[i]
      BY <1>1, CellOfConcat
  <2>4. s[2] = Cells(f)[2]
    <3>1. 2 \in 1..Len(t) /\ Len(w) + 2 = 2
        BY <1>2, <1>3, <1>5
    <3>2. s[Len(w) + 2] = t[2]
        BY <1>3, <3>1
    <3> QED
        BY <2>3, <3>1, <3>2
  <2>5. s[2][2] = Len(f.payload)
      BY <2>2, <2>4
  <2> QED
      BY <1>2, <1>3, <1>4, <1>5, <2>2, <2>3, <2>5
<1>6. CASE Len(w) # 0
  <2> DEFINE h == w \o NextHeader
  <2>1. /\ h \in Seq(CellTypes) /\ Len(h) = Len(w) + 1
        /\ \A i \in 1..Len(w) : h[i] = w[i]
        /\ h[Len(w) + 1][1] = "id"
    <3>1. /\ h \in Seq(CellTypes) /\ Len(h) = Len(w) + Len(NextHeader)
          /\ \A i \in 1..Len(w) : h[i] = w[i]
          /\ \A i \in 1..Len(NextHeader) : h[Len(w) + i] = NextHeader[i]
        BY NextHeaderCell, CellOfConcat
    <3> HIDE DEF h
    <3> QED
        BY <3>1, NextHeaderCell
  <2>2. Aligned(h)
      BY <1>1
  <2> HIDE DEF h
  <2>3. h[2][1] = "size"
    <3>1. Len(h) >= 2
        BY <1>3, <1>6, <2>1
    <3> QED
        BY <2>1, <2>2, <3>1, HeaderFirst
  <2>4. Len(w) >= 2
      BY <1>3, <1>6, <2>1, <2>3
  <2>5. 2 \in 1..Len(w) /\ w[2] = s[2] /\ w[2][1] = "size"
      BY <1>3, <2>1, <2>3, <2>4
  <2>6. FirstIn(w)
    <3>1. 2 + w[2][2] <= Len(w)
        BY <1>1, <2>5, SizesFit
    <3> QED
        BY <2>4, <3>1 DEF FirstIn, HeaderSize
  <2>7. AfterFirst(s) = AfterFirst(w) \o t
      BY <1>1, <2>6, FirstBefore
  <2>8. AfterFirst(w) \in Seq(CellTypes)
      BY <2>6, AfterFirstCells
  <2>9. Aligned(AfterFirst(w) \o NextHeader)
      BY <1>1, <2>6, NextHeaderCell, AlignedTaken
  <2> QED
      BY <1>1, <2>7, <2>8, <2>9 DEF Midway
<1> QED
    BY <1>5, <1>6

=============================================================================
