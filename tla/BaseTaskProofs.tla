--------------------------- MODULE BaseTaskProofs ---------------------------
(***************************************************************************)
(* Safety of BaseTask for every number of posters, every heap size and     *)
(* every queue length: type correctness, the ownership of the payload      *)
(* buffers, and the step simulation of Mailbox.  Then the bounds on its    *)
(* ticks, in TickLoop, for any counter, any intervals and any load.        *)
(***************************************************************************)
EXTENDS BaseTask, TickLoop, SequenceTheorems, TLAPS

-----------------------------------------------------------------------------
(* Queues seen through a function.                                         *)

Image(f, q) == [i \in DOMAIN q |-> f[q[i]]]

LEMMA HeadIsFirst ==
    ASSUME NEW S, NEW q \in Seq(S), q # <<>>
    PROVE  Head(q) = q[1]
BY EmptySeq

\* The values a function takes on the members of a set.
ValuesOn(f, S) == {f[s] : s \in S}

LEMMA ValueIn == ASSUME NEW S, NEW s \in S, NEW f PROVE f[s] \in ValuesOn(f, S)
BY DEF ValuesOn

\* A function applied to each element of a sequence gives a sequence, of the
\* same length.
LEMMA ImageSeq ==
    ASSUME NEW S, NEW q \in Seq(S), NEW f
    PROVE  Image(f, q) \in Seq(ValuesOn(f, S))
<1>1. Len(q) \in Nat /\ DOMAIN q = 1..Len(q) /\ \A i \in 1..Len(q) : q[i] \in S
    BY LenProperties, ElementOfSeq
<1>2. \A i \in 1..Len(q) : f[q[i]] \in ValuesOn(f, S)
    BY <1>1, ValueIn
<1>3. Image(f, q) \in [1..Len(q) -> ValuesOn(f, S)]
    BY <1>1, <1>2 DEF Image
<1> QED
    BY <1>1, <1>3

LEMMA ImageLen ==
    ASSUME NEW S, NEW q \in Seq(S), NEW f
    PROVE  Len(Image(f, q)) = Len(q)
<1>1. Len(q) \in Nat /\ DOMAIN q = 1..Len(q)
    BY LenProperties
<1>2. DOMAIN Image(f, q) = 1..Len(q)
    BY <1>1 DEF Image
<1> QED
    BY <1>1, <1>2, ImageSeq, LenProperties

LEMMA ImageAt ==
    ASSUME NEW S, NEW q \in Seq(S), NEW f, NEW i \in 1..Len(q)
    PROVE  Image(f, q)[i] = f[q[i]]
<1>1. DOMAIN q = 1..Len(q)
    BY LenProperties
<1> QED
    BY <1>1 DEF Image

\* It commutes with Append.
LEMMA ImageAppend ==
    ASSUME NEW S, NEW q \in Seq(S), NEW e \in S, NEW f, NEW r, r = Append(q, e)
    PROVE  Image(f, r) = Append(Image(f, q), f[e])
<1> DEFINE T == ValuesOn(f, S)
           m == Image(f, q)
           n == Image(f, r)
           a == Append(m, f[e])
<1>1. f[e] \in T
    BY ValueIn
<1>2. m \in Seq(T) /\ Len(m) = Len(q) /\ \A i \in 1..Len(q) : m[i] = f[q[i]]
    BY ImageSeq, ImageLen, ImageAt
<1>3. /\ r \in Seq(S) /\ Len(r) = Len(q) + 1
      /\ \A i \in 1..Len(q) : r[i] = q[i]
      /\ r[Len(q) + 1] = e
    BY AppendProperties
<1>4. n \in Seq(T) /\ Len(n) = Len(r) /\ \A i \in 1..Len(r) : n[i] = f[r[i]]
  <2>1. r \in Seq(S)
      BY <1>3
  <2>2. n \in Seq(T)
      BY <2>1, ImageSeq
  <2>3. Len(n) = Len(r)
      BY <2>1, ImageLen
  <2> QED
      BY <2>1, <2>2, <2>3, ImageAt
<1> HIDE DEF T, m, n
<1>5. /\ a \in Seq(T) /\ Len(a) = Len(q) + 1
      /\ \A i \in 1..Len(q) : a[i] = m[i]
      /\ a[Len(q) + 1] = f[e]
    BY <1>1, <1>2, AppendProperties
<1> HIDE DEF a
<1>6. \A i \in 1..Len(r) : i \in 1..Len(q) \/ i = Len(q) + 1
    BY <1>3, LenProperties
<1>7. \A i \in 1..Len(r) : n[i] = a[i]
    BY <1>2, <1>3, <1>4, <1>5, <1>6
<1>8. n = a
    BY <1>3, <1>4, <1>5, <1>7, SeqEqual
<1> QED
    BY <1>8 DEF a, m, n

\* And with Head and Tail.
LEMMA ImageHead ==
    ASSUME NEW S, NEW q \in Seq(S), q # <<>>, NEW f
    PROVE  Image(f, q) # <<>> /\ Head(Image(f, q)) = f[Head(q)]
<1> DEFINE m == Image(f, q)
<1>1. Len(q) \in Nat \ {0} /\ 1 \in 1..Len(q)
    BY EmptySeq
<1>2. m \in Seq(ValuesOn(f, S)) /\ Len(m) = Len(q) /\ m[1] = f[q[1]]
    BY <1>1, ImageSeq, ImageLen, ImageAt
<1> HIDE DEF m
<1>3. m # <<>>
    BY <1>1, <1>2, EmptySeq
<1>4. Head(m) = f[Head(q)]
    BY <1>2, <1>3, HeadIsFirst
<1> QED
    BY <1>3, <1>4 DEF m

LEMMA ImageTail ==
    ASSUME NEW S, NEW q \in Seq(S), q # <<>>, NEW f
    PROVE  Tail(Image(f, q)) = Image(f, Tail(q))
<1> DEFINE T == ValuesOn(f, S)
           m == Image(f, q)
           r == Tail(q)
           n == Image(f, r)
           t == Tail(m)
<1>1. Len(q) \in Nat \ {0}
    BY EmptySeq
<1>2. m \in Seq(T) /\ Len(m) = Len(q) /\ \A i \in 1..Len(q) : m[i] = f[q[i]]
    BY ImageSeq, ImageLen, ImageAt
<1>3. r \in Seq(S) /\ Len(r) = Len(q) - 1 /\ \A i \in 1..Len(r) : r[i] = q[i + 1]
    BY HeadTailProperties
<1> HIDE DEF r
<1>4. n \in Seq(T) /\ Len(n) = Len(r) /\ \A i \in 1..Len(r) : n[i] = f[r[i]]
  <2>1. r \in Seq(S)
      BY <1>3
  <2>2. n \in Seq(T)
      BY <2>1, ImageSeq
  <2>3. Len(n) = Len(r)
      BY <2>1, ImageLen
  <2> QED
      BY <2>1, <2>2, <2>3, ImageAt
<1>5. m # <<>>
    BY ImageHead
<1> HIDE DEF T, m, n
<1>6. /\ t \in Seq(T) /\ Len(t) = Len(q) - 1
      /\ \A i \in 1..Len(t) : t[i] = m[i + 1]
    BY <1>2, <1>5, HeadTailProperties
<1> HIDE DEF t
<1>7. \A i \in 1..Len(r) : i + 1 \in 1..Len(q)
    BY <1>1, <1>3
<1>8. \A i \in 1..Len(r) : n[i] = t[i]
  <2> TAKE i \in 1..Len(r)
  <2>1. i \in 1..Len(t) /\ r[i] = q[i + 1] /\ t[i] = m[i + 1]
      BY <1>3, <1>6
  <2> QED
      BY <1>2, <1>4, <1>7, <2>1
<1>9. n = t
  <2>1. n \in Seq(T) /\ t \in Seq(T) /\ Len(n) = Len(t)
      BY <1>3, <1>4, <1>6
  <2>2. \A i \in 1..Len(n) : n[i] = t[i]
      BY <1>4, <1>8
  <2> QED
      BY <2>1, <2>2, SeqEqual
<1> QED
    BY <1>9 DEF t, m, n, r

-----------------------------------------------------------------------------
(* The inductive invariant.                                                *)

\* Locals that are out of use are null.
Dead ==
    /\ \A p \in Posters : stage[p] # "send" => copy[p] = Null
    /\ taskPc # "handle" => msg = Null

\* Every pointer held leads to an allocated buffer.
NoDangling ==
    /\ \A p \in Posters : copy[p] # Null => copy[p] \in heap
    /\ \A i \in 1..Len(queue) : queue[i] # Null => queue[i] \in heap
    /\ msg # Null => msg \in heap

\* No buffer has two holders.
NoSharing ==
    /\ \A p, r \in Posters : copy[p] # Null /\ copy[p] = copy[r] => p = r
    /\ \A i, j \in 1..Len(queue) : queue[i] # Null /\ queue[i] = queue[j] => i = j
    /\ \A p \in Posters, i \in 1..Len(queue) : copy[p] # Null => copy[p] # queue[i]
    /\ \A p \in Posters : msg # Null => copy[p] # msg
    /\ \A i \in 1..Len(queue) : msg # Null => queue[i] # msg

\* Every allocated buffer has a holder.
NoLeak ==
    \A b \in heap : \/ \E p \in Posters : copy[p] = b
                    \/ \E i \in 1..Len(queue) : queue[i] = b
                    \/ msg = b

\* The copy in hand is a copy of the payload passed.
Faithful ==
    \A p \in Posters : stage[p] = "send" =>
        \/ kind[p] = "bare" /\ copy[p] = Null
        \/ kind[p] = "sized" /\ copy[p] # Null /\ mem[copy[p]] = mem[p]

IInv == TypeOK /\ Dead /\ NoDangling /\ NoSharing /\ NoLeak /\ Faithful

-----------------------------------------------------------------------------
(* Type correctness.                                                       *)

LEMMA InitType == Init => TypeOK
<1> SUFFICES ASSUME Init PROVE TypeOK
    OBVIOUS
<1>1. <<>> \in Seq(Buffers \cup {Null}) /\ Len(<<>>) = 0
    BY EmptySeq
<1>2. Len(queue) <= QueueLen
    BY <1>1, BaseTaskAssumption DEF Init
<1> QED
    BY <1>1, <1>2 DEF Init, TypeOK

LEMMA NextType == TypeOK /\ [Next]_vars => TypeOK'
<1> SUFFICES ASSUME TypeOK, [Next]_vars PROVE TypeOK'
    OBVIOUS
<1> USE BaseTaskAssumption DEF Addresses
<1>0. Len(queue) \in Nat
    BY LenProperties DEF TypeOK
<1>1. ASSUME NEW p \in Posters, Call(p) PROVE TypeOK'
    BY <1>1 DEF TypeOK, Call, taskVars
<1>2. ASSUME NEW p \in Posters, CopyFails(p) PROVE TypeOK'
    BY <1>2 DEF TypeOK, CopyFails, Return, taskVars
<1>3. ASSUME NEW p \in Posters, Copy(p) PROVE TypeOK'
    BY <1>3 DEF TypeOK, Copy, taskVars
<1>4. ASSUME NEW p \in Posters, Send(p) PROVE TypeOK'
  <2>1. /\ queue' \in Seq(Buffers \cup {Null})
        /\ Len(queue') = Len(queue) + 1
      BY <1>4, AppendProperties DEF TypeOK, Send
  <2>2. Len(queue') <= QueueLen
      BY <1>0, <1>4, <2>1 DEF Send
  <2> QED
      BY <1>4, <2>1, <2>2 DEF TypeOK, Send, Return, taskVars
<1>5. ASSUME NEW p \in Posters, TimeOut(p) PROVE TypeOK'
    BY <1>5 DEF TypeOK, TimeOut, Return, taskVars
<1>6. CASE OnStart
    BY <1>6 DEF TypeOK, OnStart, callVars
<1>7. CASE Receive
  <2>1. /\ queue' \in Seq(Buffers \cup {Null}) /\ msg' \in Buffers \cup {Null}
        /\ Len(queue') = Len(queue) - 1
      BY <1>7, HeadTailProperties DEF TypeOK, Receive
  <2>2. Len(queue') <= QueueLen
      BY <1>0, <2>1 DEF TypeOK
  <2> QED
      BY <1>7, <2>1, <2>2 DEF TypeOK, Receive, callVars
<1>8. CASE Finish
    BY <1>8 DEF TypeOK, Finish, callVars
<1>9. CASE UNCHANGED vars
    BY <1>9 DEF TypeOK, vars, callVars, taskVars
<1> QED
    BY <1>1, <1>2, <1>3, <1>4, <1>5, <1>6, <1>7, <1>8, <1>9 DEF Next

\* The variables keep their types, and the queue its bound.
THEOREM TypeCorrect == Spec => []TypeOK
<1> QED
    BY InitType, NextType, PTL DEF Spec

-----------------------------------------------------------------------------
(* The inductive invariant is one.                                         *)

LEMMA InitIInv == Init => IInv
<1> SUFFICES ASSUME Init PROVE IInv
    OBVIOUS
<1>1. 1..Len(queue) = {}
  <2>1. Len(queue) = 0
      BY EmptySeq DEF Init
  <2> QED
      BY <2>1
<1>2. NoDangling /\ NoSharing
    BY <1>1 DEF Init, NoDangling, NoSharing
<1> QED
    BY <1>2, InitType DEF Init, IInv, Dead, NoLeak, Faithful

LEMMA NextIInv == IInv /\ [Next]_vars => IInv'
<1> SUFFICES ASSUME IInv, [Next]_vars PROVE IInv'
    OBVIOUS
<1>t. TypeOK /\ TypeOK'
    BY NextType DEF IInv
<1>n. Len(queue) \in Nat /\ DOMAIN queue = 1..Len(queue)
    BY <1>t, LenProperties DEF TypeOK
<1>q. \A i \in 1..Len(queue) : queue[i] \in Buffers \cup {Null}
    BY <1>t, ElementOfSeq DEF TypeOK
<1>h. \A b \in heap : b # Null
    BY <1>t, BaseTaskAssumption DEF TypeOK, Addresses
<1> USE BaseTaskAssumption DEF Addresses, IInv
<1>1. ASSUME NEW p \in Posters, Call(p) PROVE IInv'
  <2>1. \A r \in Posters : copy[r] # Null => mem'[copy[r]] = mem[copy[r]]
      BY <1>1, <1>t DEF Call, TypeOK
  <2>2. Faithful'
      BY <1>1, <1>t, <2>1 DEF Call, TypeOK, Faithful
  <2> QED
      BY <1>1, <1>t, <2>2 DEF Call, taskVars, TypeOK, Dead, NoDangling, NoSharing, NoLeak
<1>2. ASSUME NEW p \in Posters, CopyFails(p) PROVE IInv'
  <2>1. copy' = copy
      BY <1>2, <1>t DEF CopyFails, Return, TypeOK, Dead
  <2>2. Faithful' /\ Dead'
      BY <1>2, <1>t, <2>1 DEF CopyFails, Return, TypeOK, Faithful, Dead, taskVars
  <2> QED
      BY <1>2, <1>t, <2>1, <2>2 DEF CopyFails, taskVars, NoDangling, NoSharing, NoLeak
<1>3. ASSUME NEW p \in Posters, Copy(p) PROVE IInv'
  <2>1. CASE kind[p] = "bare"
    <3>1. copy' = copy /\ mem' = mem /\ heap' = heap
        BY <1>3, <2>1 DEF Copy
    <3>2. Dead' /\ Faithful'
        BY <1>3, <1>t, <2>1, <3>1 DEF Copy, TypeOK, Dead, Faithful, taskVars
    <3> QED
        BY <1>3, <1>t, <3>1, <3>2 DEF Copy, taskVars, NoDangling, NoSharing, NoLeak
  <2>2. CASE kind[p] = "sized"
    <3>1. PICK b \in Buffers \ heap : /\ heap' = heap \cup {b}
                                      /\ mem' = [mem EXCEPT ![b] = mem[p]]
                                      /\ copy' = [copy EXCEPT ![p] = b]
        BY <1>3, <2>2 DEF Copy
    <3>2. copy[p] = Null /\ b # Null /\ copy'[p] = b
        BY <1>3, <1>t, <3>1 DEF Copy, TypeOK, Dead
    <3>3. \A r \in Posters \ {p} : copy'[r] = copy[r]
        BY <1>t, <3>1 DEF TypeOK
    <3>4. /\ \A r \in Posters : copy[r] # b
          /\ \A i \in 1..Len(queue) : queue[i] # b
          /\ msg # b
        BY <3>1, <3>2 DEF NoDangling
    <3>5. queue' = queue /\ msg' = msg /\ taskPc' = taskPc
        BY <1>3 DEF Copy, taskVars
    <3>6. NoDangling'
        BY <3>1, <3>2, <3>3, <3>5 DEF NoDangling
    <3>7. NoSharing'
        BY <3>2, <3>3, <3>4, <3>5 DEF NoSharing
    <3>8. NoLeak'
        BY <1>h, <3>1, <3>2, <3>3, <3>5 DEF NoLeak
    <3>9. mem'[b] = mem[p] /\ mem'[p] = mem[p]
        BY <1>t, <3>1 DEF TypeOK
    <3>10. \A r \in Posters \ {p} : /\ stage'[r] = stage[r] /\ kind'[r] = kind[r]
                                    /\ mem'[r] = mem[r]
                                    /\ copy[r] # Null => mem'[copy[r]] = mem[copy[r]]
        BY <1>3, <1>t, <3>1, <3>4 DEF TypeOK, Copy
    <3>11. Faithful'
      <4>1. kind'[p] = "sized"
          BY <1>3, <2>2 DEF Copy
      <4>2. ASSUME NEW r \in Posters \ {p}, stage'[r] = "send"
            PROVE  \/ kind'[r] = "bare" /\ copy'[r] = Null
                   \/ kind'[r] = "sized" /\ copy'[r] # Null /\ mem'[copy'[r]] = mem'[r]
          BY <3>3, <3>10, <4>2 DEF Faithful
      <4> QED
          BY <3>2, <3>9, <4>1, <4>2 DEF Faithful
    <3>12. Dead'
        BY <1>3, <1>t, <3>3, <3>5, <3>10 DEF Dead, Copy, TypeOK
    <3> QED
        BY <1>t, <3>6, <3>7, <3>8, <3>11, <3>12
  <2> QED
      BY <1>3, <2>1, <2>2 DEF Copy
<1>4. ASSUME NEW p \in Posters, Send(p) PROVE IInv'
  <2>1. /\ Len(queue') = Len(queue) + 1
        /\ \A i \in 1..Len(queue) : queue'[i] = queue[i]
        /\ queue'[Len(queue) + 1] = copy[p]
      BY <1>4, <1>t, AppendProperties DEF Send, TypeOK
  <2>2. \A i \in 1..Len(queue') : i \in 1..Len(queue) \/ i = Len(queue) + 1
      BY <1>n, <2>1
  <2>3. 1..Len(queue) \subseteq 1..Len(queue') /\ Len(queue) + 1 \in 1..Len(queue')
      BY <1>n, <2>1
  <2>4. copy'[p] = Null /\ \A r \in Posters \ {p} : copy'[r] = copy[r]
      BY <1>4, <1>t DEF Send, Return, TypeOK
  <2>5. heap' = heap /\ mem' = mem /\ msg' = msg /\ taskPc' = taskPc
      BY <1>4 DEF Send, taskVars
  <2>6. NoDangling'
      BY <2>1, <2>2, <2>4, <2>5 DEF NoDangling
  <2>7. NoSharing'
      BY <2>1, <2>2, <2>4, <2>5 DEF NoSharing
  <2>8. NoLeak'
      BY <2>1, <2>3, <2>4, <2>5 DEF NoLeak
  <2>9. Dead' /\ Faithful'
      BY <1>4, <1>t, <2>4, <2>5 DEF Send, Return, TypeOK, Dead, Faithful
  <2> QED
      BY <1>t, <2>6, <2>7, <2>8, <2>9
<1>5. ASSUME NEW p \in Posters, TimeOut(p) PROVE IInv'
  <2>1. copy'[p] = Null /\ \A r \in Posters \ {p} : copy'[r] = copy[r]
      BY <1>5, <1>t DEF TimeOut, Return, TypeOK
  <2>2. heap' = heap \ {copy[p]} /\ mem' = mem /\ queue' = queue /\ msg' = msg /\ taskPc' = taskPc
      BY <1>5 DEF TimeOut, taskVars
  <2>3. NoDangling'
      BY <2>1, <2>2 DEF NoDangling, NoSharing
  <2>4. NoSharing' /\ NoLeak'
      BY <2>1, <2>2 DEF NoSharing, NoLeak
  <2>5. Dead' /\ Faithful'
      BY <1>5, <1>t, <2>1, <2>2 DEF TimeOut, Return, TypeOK, Dead, Faithful
  <2> QED
      BY <1>t, <2>3, <2>4, <2>5
<1>6. CASE OnStart
    BY <1>6, <1>t DEF OnStart, callVars, Dead, NoDangling, NoSharing, NoLeak, Faithful
<1>7. CASE Receive
  <2>1. /\ queue # <<>> /\ msg = Null
        /\ UNCHANGED <<stage, kind, copy, mem, heap>>
        /\ taskPc' = "handle"
      BY <1>7 DEF Receive, Dead, callVars
  <2>2. /\ msg' = queue[1]
        /\ Len(queue') = Len(queue) - 1
        /\ \A i \in 1..Len(queue') : queue'[i] = queue[i + 1]
      BY <1>7, <1>t, HeadTailProperties, EmptySeq DEF Receive, TypeOK
  <2>3. Len(queue) \in Nat \ {0}
      BY <1>t, <2>1, EmptySeq DEF TypeOK
  <2>4. 1 \in 1..Len(queue) /\ \A i \in 1..Len(queue') : i + 1 \in 1..Len(queue) /\ i + 1 # 1
      BY <2>2, <2>3
  <2>5. \A i \in 1..Len(queue) : i = 1 \/ (i - 1 \in 1..Len(queue') /\ queue'[i - 1] = queue[i])
      BY <2>2, <2>3
  <2>6. NoDangling'
      BY <2>1, <2>2, <2>4 DEF NoDangling
  <2>7. NoSharing'
    <3>1. \A i, j \in 1..Len(queue') : queue'[i] # Null /\ queue'[i] = queue'[j] => i = j
      <4>1. \A i, j \in 1..Len(queue') : i + 1 = j + 1 => i = j
          BY <2>2, <2>3
      <4> QED
          BY <2>2, <2>4, <4>1 DEF NoSharing
    <3>2. \A i \in 1..Len(queue') : msg' # Null => queue'[i] # msg'
        BY <2>2, <2>4 DEF NoSharing
    <3>3. \A r \in Posters, i \in 1..Len(queue') : copy'[r] # Null => copy'[r] # queue'[i]
        BY <2>1, <2>2, <2>4 DEF NoSharing
    <3>4. \A r \in Posters : msg' # Null => copy'[r] # msg'
        BY <2>1, <2>2, <2>4 DEF NoSharing
    <3> QED
        BY <2>1, <3>1, <3>2, <3>3, <3>4 DEF NoSharing
  <2>8. NoLeak'
    <3>1. ASSUME NEW b \in heap', ~ \E r \in Posters : copy'[r] = b, msg' # b
          PROVE  \E i \in 1..Len(queue') : queue'[i] = b
      <4>1. b # Null
          BY <1>h, <2>1
      <4>2. PICK i \in 1..Len(queue) : queue[i] = b
          BY <2>1, <3>1, <4>1 DEF NoLeak
      <4> QED
          BY <2>2, <2>5, <3>1, <4>2
    <3> QED
        BY <3>1 DEF NoLeak
  <2> QED
      BY <1>t, <2>1, <2>6, <2>7, <2>8 DEF Dead, Faithful
<1>8. CASE Finish
  <2>1. /\ msg' = Null /\ heap' = heap \ {msg}
        /\ UNCHANGED <<stage, kind, copy, mem, queue>>
      BY <1>8 DEF Finish, callVars
  <2>2. NoDangling' /\ NoSharing' /\ NoLeak'
      BY <2>1 DEF NoDangling, NoSharing, NoLeak
  <2> QED
      BY <1>t, <2>1, <2>2 DEF Dead, Faithful
<1>9. CASE UNCHANGED vars
    BY <1>9, <1>t
    DEF vars, callVars, taskVars, Dead, NoDangling, NoSharing, NoLeak, Faithful
<1> QED
    BY <1>1, <1>2, <1>3, <1>4, <1>5, <1>6, <1>7, <1>8, <1>9 DEF Next

LEMMA Inductive == Spec => []IInv
<1> QED
    BY InitIInv, NextIInv, PTL DEF Spec

\* No payload buffer is lost, freed twice, or used after it is freed.
THEOREM Ownership == Spec => []OwnedOnce
<1>1. ASSUME IInv PROVE OwnedOnce
  <2>1. DOMAIN queue = 1..Len(queue)
      BY <1>1, LenProperties DEF IInv, TypeOK
  <2>2. \A h \in Holders :
            /\ h[3] # Null
            /\ \/ \E p \in Posters : h = <<"call", p, copy[p]>>
               \/ \E i \in 1..Len(queue) : h = <<"queue", i, queue[i]>>
               \/ h = <<"task", 0, msg>>
      BY <2>1 DEF Holders
  <2>3. /\ \A p \in Posters : copy[p] # Null => <<"call", p, copy[p]>> \in Holders
        /\ \A i \in 1..Len(queue) : queue[i] # Null => <<"queue", i, queue[i]>> \in Holders
        /\ msg # Null => <<"task", 0, msg>> \in Holders
      BY <2>1 DEF Holders
  <2>4. \A h \in Holders : h[3] \in heap
      BY <1>1, <2>2 DEF IInv, NoDangling
  <2>5. \A b \in heap : b # Null
      BY <1>1, BaseTaskAssumption DEF IInv, TypeOK, Addresses
  <2>6. \A b \in heap : \E h \in Holders : h[3] = b
      BY <1>1, <2>3, <2>5 DEF IInv, NoLeak
  <2>7. ASSUME NEW g \in Holders, NEW h \in Holders, g[3] = h[3] PROVE g = h
      BY <1>1, <2>2, <2>7 DEF IInv, NoSharing
  <2> QED
      BY <2>4, <2>6, <2>7 DEF OwnedOnce
<1> QED
    BY <1>1, Inductive, PTL


-----------------------------------------------------------------------------
(* BaseTask takes only steps of the mailbox.                               *)

\* The contents behind data pointers, as a function.
View == [d \in Buffers \cup {Null} |-> Content(d)]

Pointers == Buffers \cup {Null}
Payloads == Values \cup {Bare}

LEMMA ViewType ==
    ASSUME TypeOK
    PROVE  /\ queue \in Seq(Pointers)
           /\ \A d \in Pointers : View[d] \in Payloads
BY DEF TypeOK, View, Content, Addresses, Pointers, Payloads

\* The mailbox's box is the queue seen through View.
LEMMA BoxedView ==
    ASSUME TypeOK
    PROVE  Boxed = Image(View, queue)
<1>1. DOMAIN queue = 1..Len(queue) /\ \A i \in 1..Len(queue) : queue[i] \in Buffers \cup {Null}
    BY LenProperties, ElementOfSeq DEF TypeOK
<1> QED
    BY <1>1 DEF Boxed, Image, View

\* A step that leaves the queued buffers alone shows the new queue in the old view.
LEMMA BoxedAfter ==
    ASSUME TypeOK', \A i \in 1..Len(queue') :
                        queue'[i] # Null => mem'[queue'[i]] = mem[queue'[i]]
    PROVE  Boxed' = Image(View, queue')
<1>1. /\ DOMAIN queue' = 1..Len(queue')
      /\ \A i \in 1..Len(queue') : queue'[i] \in Buffers \cup {Null}
    BY LenProperties, ElementOfSeq DEF TypeOK
<1>2. \A i \in 1..Len(queue') :
          (IF queue'[i] = Null THEN Bare ELSE mem'[queue'[i]]) = View[queue'[i]]
    BY <1>1 DEF Content, View
<1>3. Boxed' = [i \in DOMAIN queue' |->
                    IF queue'[i] = Null THEN Bare ELSE mem'[queue'[i]]]
    BY DEF Boxed, Content
<1> QED
    BY <1>1, <1>2, <1>3 DEF Image

LEMMA BoxStep ==
    ASSUME IInv, IInv', [Next]_vars
    PROVE  [Box!Next]_(Box!vars)
<1>t. TypeOK /\ TypeOK'
    BY DEF IInv
<1>q. \A i \in 1..Len(queue) : queue[i] \in Buffers \cup {Null}
    BY <1>t, ElementOfSeq DEF TypeOK
<1>v. queue \in Seq(Pointers) /\ \A d \in Pointers : View[d] \in Payloads
    BY <1>t, ViewType
<1> USE BaseTaskAssumption DEF Addresses
<1>1. ASSUME NEW p \in Posters, Call(p) PROVE Box!Offer(p)
  <2>1. /\ queue' = queue /\ msg' = msg /\ taskPc' = taskPc /\ result' = result
        /\ \A d \in Buffers : mem'[d] = mem[d]
      BY <1>1, <1>t DEF Call, taskVars, TypeOK
  <2>2. Boxed' = Boxed /\ Handled' = Handled
      BY <2>1, <1>t, <1>q, BoxedView, BoxedAfter DEF Handled, Content, TypeOK
  <2>3. PICK v \in Values : mem' = [mem EXCEPT ![p] = v]
      BY <1>1 DEF Call
  <2>4. PICK k \in {"bare", "null", "sized"} : kind' = [kind EXCEPT ![p] = k]
      BY <1>1 DEF Call
  <2> DEFINE c == IF k = "bare" THEN Bare ELSE v
  <2>5. /\ Offered[p] = Nothing
        /\ Offered' = [Offered EXCEPT ![p] = c]
    <3>1. stage[p] = "idle" /\ stage' = [stage EXCEPT ![p] = "copy"]
        BY <1>1 DEF Call
    <3>2. \A r \in Posters : r # p =>
              stage'[r] = stage[r] /\ kind'[r] = kind[r] /\ mem'[r] = mem[r]
        BY <1>t, <2>3, <2>4, <3>1 DEF TypeOK
    <3>3. stage'[p] = "copy" /\ kind'[p] = k /\ mem'[p] = v
        BY <1>t, <2>3, <2>4, <3>1 DEF TypeOK, Addresses
    <3>4. \A r \in Posters : Offered'[r] = IF r = p THEN c ELSE Offered[r]
        BY <3>2, <3>3 DEF Offered
    <3>5. Offered' = [r \in Posters |-> IF r = p THEN c ELSE Offered[r]]
        BY <3>4 DEF Offered
    <3> QED
        BY <3>1, <3>5 DEF Offered
  <2> QED
      BY <2>1, <2>2, <2>5 DEF Box!Offer
<1>2. ASSUME NEW p \in Posters, CopyFails(p) \/ TimeOut(p) PROVE Box!Refuse(p)
  <2>1. /\ queue' = queue /\ msg' = msg /\ taskPc' = taskPc /\ mem' = mem
      BY <1>2 DEF CopyFails, TimeOut, taskVars
  <2>2. Boxed' = Boxed /\ Handled' = Handled
      BY <2>1 DEF Boxed, Handled, Content
  <2>3. stage[p] # "idle" /\ stage' = [stage EXCEPT ![p] = "idle"]
        /\ kind' = [kind EXCEPT ![p] = "bare"]
      BY <1>2 DEF CopyFails, TimeOut, Return
  <2>5. Offered[p] # Nothing
      BY <1>t, <2>3 DEF TypeOK, Offered
  <2>6. Offered' = [Offered EXCEPT ![p] = Nothing]
      BY <1>t, <2>1, <2>3 DEF TypeOK, Offered
  <2>4. result' = [result EXCEPT ![p] = FALSE]
      BY <1>2 DEF CopyFails, TimeOut, Return
  <2> QED
      BY <2>2, <2>4, <2>5, <2>6 DEF Box!Refuse
<1>3. ASSUME NEW p \in Posters, Copy(p) PROVE UNCHANGED Box!vars
  <2>1. /\ queue' = queue /\ msg' = msg /\ taskPc' = taskPc /\ result' = result /\ kind' = kind
      BY <1>3 DEF Copy, taskVars
  <2>2. \A a \in Posters \cup heap : mem'[a] = mem[a]
      BY <1>3, <1>t DEF Copy, TypeOK
  <2>3. Boxed' = Boxed
    <3>1. \A i \in 1..Len(queue) : queue[i] # Null => mem'[queue[i]] = mem[queue[i]]
        BY <2>2 DEF IInv, NoDangling
    <3> QED
        BY <1>t, <2>1, <3>1, BoxedView, BoxedAfter
  <2>4. Handled' = Handled
      BY <2>1, <2>2 DEF Handled, Content, IInv, NoDangling
  <2>5. Offered' = Offered
      BY <1>3, <1>t, <2>1, <2>2 DEF Offered, Copy, TypeOK
  <2> QED
      BY <2>1, <2>3, <2>4, <2>5 DEF Box!vars
<1>4. ASSUME NEW p \in Posters, Send(p) PROVE Box!Accept(p)
  <2>1. /\ queue' = Append(queue, copy[p]) /\ msg' = msg /\ taskPc' = taskPc /\ mem' = mem
        /\ result' = [result EXCEPT ![p] = TRUE]
      BY <1>4 DEF Send, taskVars, Return
  <2>2. copy[p] \in Pointers
      BY <1>t DEF TypeOK, Pointers
  <2>3. Offered[p] = View[copy[p]] /\ Offered[p] # Nothing
      BY <1>4, <1>t, <2>2 DEF Send, Offered, View, Content, IInv, Faithful, TypeOK, Pointers
  <2>4. Boxed' = Append(Boxed, Offered[p])
    <3>1. Boxed' = Image(View, queue')
        BY <1>t, <2>1, BoxedAfter
    <3>2. Image(View, queue') = Append(Image(View, queue), View[copy[p]])
        BY <1>v, <2>1, <2>2, ImageAppend
    <3> QED
        BY <1>t, <2>3, <3>1, <3>2, BoxedView
  <2>5. Len(Boxed) < QueueLen
    <3>1. Len(Image(View, queue)) = Len(queue)
        BY <1>v, ImageLen
    <3> QED
        BY <1>4, <1>t, <3>1, BoxedView DEF Send
  <2>6. Offered' = [Offered EXCEPT ![p] = Nothing]
      BY <1>4, <1>t, <2>1 DEF Send, Return, TypeOK, Offered
  <2>7. Handled' = Handled
      BY <2>1 DEF Handled, Content
  <2> QED
      BY <2>1, <2>3, <2>4, <2>5, <2>6, <2>7 DEF Box!Accept
<1>5. CASE OnStart
    BY <1>5 DEF OnStart, callVars, Box!vars, Offered, Boxed, Handled, Content
<1>6. CASE Receive
  <2>1. /\ queue # <<>> /\ queue' = Tail(queue) /\ msg' = Head(queue) /\ mem' = mem
        /\ taskPc = "wait" /\ taskPc' = "handle"
        /\ UNCHANGED <<result, stage, kind>>
      BY <1>6 DEF Receive, callVars
  <2>2. Head(queue) \in Buffers \cup {Null}
      BY <1>t, <2>1, HeadTailProperties DEF TypeOK
  <2>3. /\ Image(View, queue) # <<>>
        /\ Head(Image(View, queue)) = View[Head(queue)]
        /\ Tail(Image(View, queue)) = Image(View, queue')
    <3> HIDE BaseTaskAssumption
    <3>1. queue \in Seq(Pointers) /\ queue # <<>> /\ queue' = Tail(queue)
        BY <1>v, <2>1
    <3>2. Image(View, queue) # <<>>
        BY <3>1, ImageHead
    <3>3. Head(Image(View, queue)) = View[Head(queue)]
        BY <3>1, ImageHead
    <3>4. Tail(Image(View, queue)) = Image(View, Tail(queue))
        BY <3>1, ImageTail
    <3>5. Tail(Image(View, queue)) = Image(View, queue')
        BY <3>1, <3>4
    <3> QED
        BY <3>2, <3>3, <3>5
  <2>4. Boxed' = Image(View, queue') /\ Boxed = Image(View, queue)
      BY <1>t, <2>1, BoxedAfter, BoxedView
  <2>5. Handled = Nothing /\ Handled' = View[Head(queue)]
      BY <2>1, <2>2 DEF Handled, View, Content
  <2>6. Offered' = Offered
      BY <2>1 DEF Offered
  <2> QED
      BY <2>1, <2>3, <2>4, <2>5, <2>6 DEF Box!Next, Box!Take
<1>7. CASE Finish
  <2>1. /\ taskPc = "handle" /\ taskPc' = "wait"
        /\ UNCHANGED <<mem, queue, result, stage, kind>>
      BY <1>7 DEF Finish, callVars
  <2>2. Handled # Nothing /\ Handled' = Nothing
      BY <1>t, <2>1 DEF Handled, Content, TypeOK
  <2>3. Offered' = Offered /\ Boxed' = Boxed
      BY <2>1 DEF Offered, Boxed, Content
  <2> QED
      BY <2>1, <2>2, <2>3 DEF Box!Next, Box!Finish
<1>8. CASE UNCHANGED vars
    BY <1>8 DEF vars, callVars, taskVars, Box!vars, Offered, Boxed, Handled, Content
<1> QED
    BY <1>1, <1>2, <1>3, <1>4, <1>5, <1>6, <1>7, <1>8 DEF Next, Box!Next

\* The safety half of the implementation: what a handler sees is what a post
\* passed, in the order in which the posts were accepted, once each, and what is
\* refused is never handled.
THEOREM MailboxSimulation == Spec => SimulatesMailbox
<1>1. Init => Box!Init
  <2> SUFFICES ASSUME Init PROVE Box!Init
      OBVIOUS
  <2>1. Offered = [p \in Posters |-> Nothing] /\ Handled = Nothing
      BY DEF Init, Offered, Handled
  <2>2. Boxed = <<>>
    <3>1. TypeOK /\ Len(queue) = 0
        BY InitType, EmptySeq DEF Init
    <3>2. queue \in Seq(Pointers) /\ \A d \in Pointers : View[d] \in Payloads
        BY <3>1, ViewType
    <3>3. Image(View, queue) \in Seq(ValuesOn(View, Pointers))
        BY <3>2, ImageSeq
    <3>4. Len(Image(View, queue)) = 0
        BY <3>1, <3>2, ImageLen
    <3> QED
        BY <3>1, <3>3, <3>4, BoxedView, EmptySeq
  <2> QED
      BY <2>1, <2>2 DEF Init, Box!Init
<1>2. IInv /\ IInv' /\ [Next]_vars => [Box!Next]_(Box!vars)
    BY BoxStep
<1> QED
    BY <1>1, <1>2, Inductive, PTL DEF Spec, SimulatesMailbox

-----------------------------------------------------------------------------
(* Ticks: for every width of the tick counter, all intervals that leave    *)
(* room for the work of an iteration, and every flood of messages.         *)

\* The true age is what the counter shows, perhaps after an overflow.
AgeShown ==
    interval > 0 => last + age = clock \/ last + age = clock + Modulus

\* The wait asked for ends with the interval.
InTime ==
    interval > 0 =>
        /\ age <= interval + busy
        /\ pc = "receive" => wait <= interval /\ age + wait <= interval + busy

TickInv == TickTypeOK /\ AgeShown /\ InTime

\* As long as a tick is not too late, the unsigned difference is the true age.
LEMMA ElapsedIsAge ==
    ASSUME TickInv, interval > 0
    PROVE  Elapsed = age /\ age < Modulus
BY TickLoopAssumption DEF TickInv, TickTypeOK, AgeShown, InTime, Elapsed

LEMMA TickInitially == TickInit => TickInv
BY TickLoopAssumption DEF TickInit, TickInv, TickTypeOK, AgeShown, InTime, portMAX_DELAY

\* A new interval starts with age 0.
LEMMA SetIntervalInductive ==
    ASSUME TickInv, MaySetInterval, pc # pc', pc' # "receive",
           pc' \in {"head", "check"}, UNCHANGED <<clock, wait, busy>>,
           posted' = posted
    PROVE  TickInv'
<1>1. CASE \E i \in Intervals \cup {0} : SetInterval(i)
  <2>1. PICK i \in Intervals \cup {0} : SetInterval(i)
    BY <1>1
  <2>2. QED
    BY <2>1, TickLoopAssumption
    DEF SetInterval, TickInv, TickTypeOK, AgeShown, InTime, portMAX_DELAY
<1>2. CASE UNCHANGED <<interval, last, age>>
  BY <1>2, TickLoopAssumption DEF TickInv, TickTypeOK, AgeShown, InTime, portMAX_DELAY
<1>3. QED
  BY <1>1, <1>2 DEF MaySetInterval

LEMMA TickInductive == TickInv /\ [TickNext]_tickVars => TickInv'
<1> SUFFICES ASSUME TickInv, [TickNext]_tickVars PROVE TickInv'
  OBVIOUS
<1> USE TickLoopAssumption
<1>1. CASE Start
  BY <1>1, SetIntervalInductive DEF Start
<1>2. CASE ComputeWait
  <2>1. interval > 0 => Elapsed = age
    BY ElapsedIsAge
  <2>2. wait' \in 0..portMAX_DELAY /\ (interval > 0 =>
           wait' <= interval /\ age + wait' <= interval + busy)
    BY <1>2, <2>1
    DEF ComputeWait, WaitTicks, Due, TickInv, TickTypeOK, InTime, portMAX_DELAY
  <2>3. QED
    BY <1>2, <2>2 DEF ComputeWait, TickInv, TickTypeOK, AgeShown, InTime
<1>3. CASE Dequeue
  BY <1>3 DEF Dequeue, TickInv, TickTypeOK, AgeShown, InTime, portMAX_DELAY
<1>4. CASE WaitOver
  BY <1>4 DEF WaitOver, TickInv, TickTypeOK, AgeShown, InTime
<1>5. CASE HandleDone
  BY <1>5, SetIntervalInductive DEF HandleDone
<1>6. CASE NoTick
  <2>1. interval > 0 => age < interval
    BY <1>6, ElapsedIsAge DEF NoTick, Due, TickInv, TickTypeOK
  <2>2. QED
    BY <1>6, <2>1 DEF NoTick, TickInv, TickTypeOK, AgeShown, InTime
<1>7. CASE OnTick
  BY <1>7 DEF OnTick, TickInv, TickTypeOK, AgeShown, InTime
<1>8. CASE TickDone
  BY <1>8 DEF TickDone, TickInv, TickTypeOK, AgeShown, InTime
<1>9. CASE Arrive
  BY <1>9 DEF Arrive, TickInv, TickTypeOK, AgeShown, InTime
<1>10. CASE Pass
  <2>1. (interval > 0 => age' = age + 1) /\ (interval = 0 => age' = 0)
    BY <1>10 DEF Pass, TickInv, TickTypeOK
  <2>2. TickTypeOK'
    BY <1>10, <2>1 DEF Pass, Waiting, TickInv, TickTypeOK, portMAX_DELAY
  <2>3. AgeShown'
    BY <1>10, <2>1, ElapsedIsAge DEF Pass, TickInv, TickTypeOK, AgeShown
  <2>4. CASE Waiting /\ wait' = (IF wait = portMAX_DELAY THEN wait ELSE wait - 1)
             /\ UNCHANGED busy
    <3>1. interval > 0 => wait # portMAX_DELAY
      BY <2>4 DEF Waiting, TickInv, TickTypeOK, InTime, portMAX_DELAY
    <3>2. InTime'
      BY <1>10, <2>1, <2>4, <3>1 DEF Pass, Waiting, TickInv, TickTypeOK, InTime, portMAX_DELAY
    <3>3. QED
      BY <2>2, <2>3, <3>2 DEF TickInv
  <2>5. CASE busy' = busy + 1 /\ UNCHANGED wait
    <3>1. InTime'
      BY <1>10, <2>1, <2>5 DEF Pass, TickInv, TickTypeOK, InTime, portMAX_DELAY
    <3>2. QED
      BY <2>2, <2>3, <3>1 DEF TickInv
  <2>6. QED
    BY <1>10, <2>4, <2>5 DEF Pass
<1>11. CASE UNCHANGED tickVars
  BY <1>11 DEF tickVars, TickInv, TickTypeOK, AgeShown, InTime
<1>12. QED
  BY <1>1, <1>2, <1>3, <1>4, <1>5, <1>6, <1>7, <1>8, <1>9, <1>10, <1>11
  DEF TickNext, Loop

LEMMA TickInvariance == TickSpec => []TickInv
BY TickInitially, TickInductive, PTL DEF TickSpec

\* base_task.cpp, run() and set_tick_interval(): the counters keep their types and
\* a wait is a proper number of ticks.
THEOREM TickTypeCorrect == TickSpec => []TickTypeOK
<1>1. TickInv => TickTypeOK
  BY DEF TickInv
<1>2. QED
  BY <1>1, TickInvariance, PTL

\* base_task.cpp:117, the test for a tick under any load: a tick is at most the
\* work of one iteration late.
THEOREM InTimeAlways == TickSpec => []NeverLate
<1>1. TickInv => NeverLate
  BY TickLoopAssumption DEF TickInv, TickTypeOK, InTime, NeverLate
<1>2. QED
  BY <1>1, TickInvariance, PTL

\* base_task.cpp:100, the unsigned difference across the overflow of the counter:
\* no tick comes before its interval has passed.
THEOREM NotBeforeTime == TickSpec => NeverEarly
<1> DEFINE Step == pc # "tick" /\ pc' = "tick" => age >= interval
<1>1. TickInv /\ [TickNext]_tickVars => [Step]_tickVars
  <2> SUFFICES ASSUME TickInv, TickNext, pc # "tick", pc' = "tick" PROVE age >= interval
    BY DEF tickVars
  <2>1. OnTick
    BY DEF TickNext, Loop, Start, ComputeWait, Dequeue, WaitOver, HandleDone, NoTick,
       TickDone, Arrive, Pass
  <2>2. QED
    BY <2>1, ElapsedIsAge DEF OnTick, Due
<1>2. QED
  BY <1>1, TickInvariance, PTL DEF TickSpec, NeverEarly

=============================================================================
