-------------------------- MODULE PilotInputProofs --------------------------
(***************************************************************************)
(* Safety of PilotInput for any number of readers and any queue length:    *)
(* type correctness, and readers get whole snapshots that never go back.   *)
(* Then the same for the console it is part of, and that no HALT is lost   *)
(* on the way through it.                                                  *)
(***************************************************************************)
EXTENDS Console, SequenceTheorems, TLAPS

-----------------------------------------------------------------------------
(* The inductive invariant.                                                *)

\* Who is in the critical section holds the mutex.
Exclusion == \A t \in Tasks : pc[t] = "in" <=> mutex = t

\* The fields the service has written are from the input in hand, and outside
\* the section all of them are from one input.
Written ==
    IF pc[Service] = "in"
    THEN \A f \in Fields \ left[Service] : joystick[f] = input
    ELSE \A f, g \in Fields : joystick[f] = joystick[g]

\* The fields a reader has copied are as they are in the snapshot.
Copied == \A r \in Readers : pc[r] = "in" => \A f \in Fields \ left[r] : copy[r][f] = joystick[f]

\* Inputs are taken in the order of their numbers.
Ordered ==
    /\ input <= sent
    /\ \A f \in Fields : joystick[f] <= input
    /\ pc[Service] = "lock" => \A f \in Fields : joystick[f] < input
    /\ \A i \in 1..Len(inbox) : input < inbox[i].input /\ inbox[i].input <= sent
    /\ \A i, j \in 1..Len(inbox) : i < j => inbox[i].input < inbox[j].input

IInv == TypeOK /\ Exclusion /\ Written /\ Copied /\ Ordered

-----------------------------------------------------------------------------
(* Type correctness.                                                       *)

LEMMA InitType == Init => TypeOK
<1> SUFFICES ASSUME Init PROVE TypeOK
    OBVIOUS
<1>1. <<>> \in Seq(Messages) /\ Len(<<>>) = 0
    BY EmptySeq
<1> QED
    BY <1>1, PilotInputAssumption DEF Init, TypeOK, Snapshots, Initial

\* What Post appends, and what is left when the service takes a message.
LEMMA Appended ==
    ASSUME TypeOK, Post
    PROVE  \E m \in Messages :
              /\ inbox' = Append(inbox, m) /\ m.input = sent + 1
              /\ inbox' \in Seq(Messages) /\ Len(inbox') = Len(inbox) + 1
              /\ \A i \in 1..Len(inbox) : inbox'[i] = inbox[i]
              /\ inbox'[Len(inbox) + 1] = m
<1>1. PICK id \in {"JOYSTICK_INPUT", "other"}, whole \in BOOLEAN :
          inbox' = Append(inbox, [id |-> id, whole |-> whole, input |-> sent + 1])
    BY DEF Post
<1> DEFINE m == [id |-> id, whole |-> whole, input |-> sent + 1]
<1>2. m \in Messages /\ m.input = sent + 1
    BY PilotInputAssumption DEF TypeOK, Messages
<1> HIDE DEF m
<1>3. inbox \in Seq(Messages) /\ inbox' = Append(inbox, m)
    BY <1>1 DEF TypeOK, m
<1> QED
    BY <1>2, <1>3, AppendProperties

LEMMA Removed ==
    ASSUME TypeOK, inbox # <<>>, inbox' = Tail(inbox)
    PROVE  /\ Head(inbox) \in Messages /\ Head(inbox) = inbox[1]
           /\ inbox' \in Seq(Messages)
           /\ Len(inbox) \in Nat /\ Len(inbox) >= 1 /\ Len(inbox') = Len(inbox) - 1
           /\ \A i \in 1..Len(inbox') : inbox'[i] = inbox[i + 1]
<1>1. inbox \in Seq(Messages) /\ inbox # <<>>
    BY DEF TypeOK
<1>2. Len(inbox) \in Nat /\ Len(inbox) # 0
    BY <1>1, EmptySeq, LenProperties
<1> QED
    BY <1>1, <1>2, HeadTailProperties

LEMMA NextType == TypeOK /\ [Next]_vars => TypeOK'
<1> SUFFICES ASSUME TypeOK, [Next]_vars PROVE TypeOK'
    OBVIOUS
<1> USE PilotInputAssumption DEF Tasks, Snapshots
<1>0. Len(inbox) \in Nat
    BY LenProperties DEF TypeOK
<1>1. CASE Post
  <2>1. inbox' \in Seq(Messages) /\ Len(inbox') <= QueueLen
      BY <1>0, <1>1, Appended DEF Post
  <2> QED
      BY <1>1, <2>1 DEF TypeOK, Post
<1>2. CASE Ignore
  <2>1. inbox' \in Seq(Messages) /\ Len(inbox') <= QueueLen
      BY <1>2, Removed DEF TypeOK, Ignore
  <2> QED
      BY <1>2, <2>1 DEF TypeOK, Ignore
<1>3. CASE Handle
  <2>1. Head(inbox) \in Messages /\ inbox' \in Seq(Messages) /\ Len(inbox') <= QueueLen
      BY <1>3, Removed DEF TypeOK, Handle
  <2> QED
      BY <1>3, <2>1 DEF TypeOK, Handle, Messages
<1>4. ASSUME NEW r \in Readers, Tick(r) PROVE TypeOK'
    BY <1>4 DEF TypeOK, Tick
<1>5. ASSUME NEW t \in Tasks, Lock(t) PROVE TypeOK'
    BY <1>5 DEF TypeOK, Lock
<1>6. CASE SetField
    BY <1>6 DEF TypeOK, SetField
<1>7. CASE SetReturns
    BY <1>7 DEF TypeOK, SetReturns
<1>8. ASSUME NEW r \in Readers, CopyField(r) PROVE TypeOK'
    BY <1>8 DEF TypeOK, CopyField
<1>9. ASSUME NEW r \in Readers, GetReturns(r) PROVE TypeOK'
    BY <1>9 DEF TypeOK, GetReturns
<1>10. CASE UNCHANGED vars
    BY <1>10 DEF TypeOK, vars
<1> QED
    BY <1>1, <1>2, <1>3, <1>4, <1>5, <1>6, <1>7, <1>8, <1>9, <1>10 DEF Next

\* What can happen to PilotInput's variables, without fairness.
Steps == Init /\ [][Next]_vars

\* The variables keep their types, and the queue its bound.
LEMMA TypesHere == Steps => []TypeOK
<1> QED
    BY InitType, NextType, PTL DEF Steps

-----------------------------------------------------------------------------
(* The inductive invariant is one.                                         *)

LEMMA InitIInv == Init => IInv
<1> SUFFICES ASSUME Init PROVE IInv
    OBVIOUS
<1>1. 1..Len(inbox) = {}
  <2>1. Len(inbox) = 0
      BY EmptySeq DEF Init
  <2> QED
      BY <2>1
<1>2. Exclusion /\ Written /\ Copied
    BY PilotInputAssumption DEF Init, Exclusion, Written, Copied, Tasks, Initial
<1>3. Ordered
    BY <1>1, PilotInputAssumption DEF Init, Ordered, Initial, Tasks
<1> QED
    BY <1>2, <1>3, InitType DEF IInv

LEMMA NextIInv == IInv /\ [Next]_vars => IInv'
<1> SUFFICES ASSUME IInv, [Next]_vars PROVE IInv'
    OBVIOUS
<1>t. TypeOK /\ TypeOK'
    BY NextType DEF IInv
<1>n. Len(inbox) \in Nat
    BY <1>t, LenProperties DEF TypeOK
<1>m. \A i \in 1..Len(inbox) : inbox[i].input \in Nat
  <2>1. \A i \in 1..Len(inbox) : inbox[i] \in Messages
      BY <1>t, ElementOfSeq DEF TypeOK
  <2> QED
      BY <2>1 DEF Messages
<1> USE PilotInputAssumption DEF Tasks, Snapshots, IInv
<1>1. CASE Post
  <2>1. PICK m \in Messages :
              /\ inbox' = Append(inbox, m) /\ m.input = sent + 1
              /\ inbox' \in Seq(Messages) /\ Len(inbox') = Len(inbox) + 1
              /\ \A i \in 1..Len(inbox) : inbox'[i] = inbox[i]
              /\ inbox'[Len(inbox) + 1] = m
      BY <1>1, <1>t, Appended
  <2>2. sent' = sent + 1 /\ UNCHANGED <<input, pc, left, mutex, joystick, copy, seen>>
      BY <1>1 DEF Post
  <2>3. \A i \in 1..Len(inbox') : i \in 1..Len(inbox) \/ i = Len(inbox) + 1
      BY <1>n, <2>1
  <2>4. \A i \in 1..Len(inbox') : input < inbox'[i].input /\ inbox'[i].input <= sent + 1
      BY <1>n, <1>m, <1>t, <2>1, <2>3 DEF Ordered, TypeOK
  <2>5. \A i, j \in 1..Len(inbox') : i < j => inbox'[i].input < inbox'[j].input
      BY <1>n, <1>m, <1>t, <2>1, <2>3 DEF Ordered, TypeOK
  <2>6. Ordered'
      BY <1>t, <2>2, <2>4, <2>5 DEF Ordered, TypeOK
  <2> QED
      BY <1>t, <2>2, <2>6 DEF Exclusion, Written, Copied
<1>2. ASSUME inbox # <<>>, inbox' = Tail(inbox)
      PROVE  \A i \in 1..Len(inbox') :
                /\ inbox[1].input < inbox'[i].input /\ inbox'[i].input <= sent
                /\ input < inbox'[i].input
                /\ \A j \in 1..Len(inbox') : i < j => inbox'[i].input < inbox'[j].input
  <2>1. /\ Len(inbox) >= 1 /\ Len(inbox') = Len(inbox) - 1
        /\ \A i \in 1..Len(inbox') : inbox'[i] = inbox[i + 1]
      BY <1>2, <1>t, Removed
  <2>2. \A i \in 1..Len(inbox') : i + 1 \in 1..Len(inbox) /\ 1 < i + 1
      BY <1>n, <2>1
  <2>3. 1 \in 1..Len(inbox)
      BY <1>n, <2>1
  <2> QED
      BY <2>1, <2>2, <2>3 DEF Ordered
<1>3. CASE Ignore
  <2>1. Ordered'
      BY <1>2, <1>3 DEF Ignore, Ordered
  <2> QED
      BY <1>3, <1>t, <2>1 DEF Ignore, Exclusion, Written, Copied
<1>4. CASE Handle
  <2>1. /\ pc[Service] = "idle" /\ pc' = [pc EXCEPT ![Service] = "lock"]
        /\ inbox # <<>> /\ inbox' = Tail(inbox) /\ input' = Head(inbox).input
        /\ UNCHANGED <<sent, left, mutex, joystick, copy, seen>>
      BY <1>4 DEF Handle
  <2>2. 1 \in 1..Len(inbox) /\ Head(inbox) = inbox[1]
      BY <1>n, <1>t, <2>1, Removed
  <2>3. input < input' /\ input' <= sent /\ input' \in Nat
      BY <1>m, <2>1, <2>2 DEF Ordered
  <2>4. \A f \in Fields : joystick[f] < input'
      BY <1>t, <2>3 DEF Ordered, TypeOK
  <2>5. Ordered'
      BY <1>2, <1>t, <2>1, <2>2, <2>3, <2>4 DEF Ordered, TypeOK
  <2>6. pc'[Service] = "lock" /\ \A t \in Readers : pc'[t] = pc[t]
      BY <1>t, <2>1 DEF TypeOK
  <2> QED
      BY <1>t, <2>1, <2>5, <2>6 DEF Exclusion, Written, Copied
<1>5. ASSUME NEW r \in Readers, Tick(r) PROVE IInv'
    BY <1>5, <1>t DEF Tick, TypeOK, Exclusion, Written, Copied, Ordered
<1>6. ASSUME NEW t \in Tasks, Lock(t) PROVE IInv'
  <2>1. /\ pc' = [pc EXCEPT ![t] = "in"] /\ left' = [left EXCEPT ![t] = Fields]
        /\ pc[t] = "lock" /\ mutex = Free /\ mutex' = t
        /\ UNCHANGED <<sent, inbox, input, joystick, copy, seen>>
      BY <1>6 DEF Lock
  <2>2. Exclusion'
      BY <1>t, <2>1 DEF TypeOK, Exclusion
  <2>3. Written' /\ Copied'
      BY <1>t, <2>1 DEF TypeOK, Written, Copied
  <2>4. Ordered'
      BY <1>t, <2>1 DEF TypeOK, Ordered
  <2> QED
      BY <1>t, <2>2, <2>3, <2>4
<1>7. CASE SetField
  <2>1. PICK f \in left[Service] : /\ joystick' = [joystick EXCEPT ![f] = input]
                                   /\ left' = [left EXCEPT ![Service] = @ \ {f}]
      BY <1>7 DEF SetField
  <2>2. pc[Service] = "in" /\ UNCHANGED <<sent, inbox, input, pc, mutex, copy, seen>>
      BY <1>7 DEF SetField
  <2>3. Written'
      BY <1>t, <2>1, <2>2 DEF TypeOK, Written
  <2>4. Copied'
      BY <1>t, <2>1, <2>2 DEF TypeOK, Copied, Exclusion
  <2>5. Ordered'
      BY <1>t, <2>1, <2>2 DEF TypeOK, Ordered
  <2> QED
      BY <1>t, <2>2, <2>3, <2>4, <2>5 DEF Exclusion
<1>8. CASE SetReturns
  <2>1. /\ pc[Service] = "in" /\ left[Service] = {} /\ mutex' = Free
        /\ pc' = [pc EXCEPT ![Service] = "idle"]
        /\ UNCHANGED <<sent, inbox, input, left, joystick, copy, seen>>
      BY <1>8 DEF SetReturns
  <2> QED
      BY <1>t, <2>1 DEF TypeOK, Exclusion, Written, Copied, Ordered
<1>9. ASSUME NEW r \in Readers, CopyField(r) PROVE IInv'
  <2>1. PICK f \in left[r] : /\ copy' = [copy EXCEPT ![r] = [@ EXCEPT ![f] = joystick[f]]]
                             /\ left' = [left EXCEPT ![r] = @ \ {f}]
      BY <1>9 DEF CopyField
  <2>2. UNCHANGED <<sent, inbox, input, pc, mutex, joystick, seen>>
      BY <1>9 DEF CopyField
  <2>3. Copied'
      BY <1>t, <2>1, <2>2 DEF TypeOK, Copied
  <2> QED
      BY <1>t, <2>1, <2>2, <2>3 DEF TypeOK, Exclusion, Written, Ordered
<1>10. ASSUME NEW r \in Readers, GetReturns(r) PROVE IInv'
  <2>1. /\ pc[r] = "in" /\ left[r] = {} /\ mutex' = Free
        /\ pc' = [pc EXCEPT ![r] = "idle"]
        /\ UNCHANGED <<sent, inbox, input, left, joystick, copy>>
      BY <1>10 DEF GetReturns
  <2> QED
      BY <1>t, <2>1 DEF TypeOK, Exclusion, Written, Copied, Ordered
<1>11. CASE UNCHANGED vars
    BY <1>11, <1>t DEF vars, Exclusion, Written, Copied, Ordered
<1> QED
    BY <1>1, <1>3, <1>4, <1>5, <1>6, <1>7, <1>8, <1>9, <1>10, <1>11 DEF Next

LEMMA Inductive == Steps => []IInv
<1> QED
    BY InitIInv, NextIInv, PTL DEF Steps

-----------------------------------------------------------------------------
(* Queue, handler, mutex and copies implement the latest value.            *)

LEMMA LatestStep ==
    ASSUME IInv, IInv', [Next]_vars
    PROVE  [Latest!Next]_(Latest!vars)
<1>t. TypeOK /\ TypeOK'
    BY DEF IInv
<1> USE PilotInputAssumption DEF Tasks, Snapshots
<1>1. CASE Post \/ Ignore \/ SetReturns
  <2>1. seen' = seen /\ joystick' = joystick /\ input' = input
      BY <1>1 DEF Post, Ignore, SetReturns
  <2>2. CASE pc' = pc
      BY <2>1, <2>2 DEF Latest!vars, Newest
  <2>3. CASE SetReturns
    <3>1. pc[Service] = "in" /\ left[Service] = {} /\ pc'[Service] = "idle"
        BY <1>t, <2>3 DEF SetReturns, TypeOK
    <3>2. joystick["timestamp_ms"] = input
        BY <3>1 DEF IInv, Written, Fields
    <3> QED
        BY <2>1, <3>1, <3>2 DEF Latest!vars, Newest
  <2> QED
      BY <1>1, <2>2, <2>3 DEF Post, Ignore
<1>2. CASE Handle
    BY <1>2, <1>t DEF Handle, TypeOK, Latest!vars, Newest
<1>3. ASSUME NEW r \in Readers, Tick(r) \/ CopyField(r) \/ Lock(r) PROVE UNCHANGED Latest!vars
    BY <1>3, <1>t DEF Tick, CopyField, Lock, TypeOK, Latest!vars, Newest
<1>4. CASE Lock(Service)
  <2>1. /\ pc[Service] = "lock" /\ pc'[Service] = "in" /\ seen' = seen
        /\ UNCHANGED <<joystick, input>>
      BY <1>4, <1>t DEF Lock, TypeOK
  <2>2. "timestamp_ms" \in Fields
      BY DEF Fields
  <2>3. joystick["timestamp_ms"] < input
      BY <2>1, <2>2 DEF IInv, Ordered
  <2>4. joystick["timestamp_ms"] \in Nat /\ input \in Nat
      BY <1>t, <2>2 DEF TypeOK
  <2> QED
      BY <2>1, <2>3, <2>4 DEF Latest!Next, Latest!Write, Newest
<1>5. CASE SetField
    BY <1>5, <1>t DEF SetField, Latest!vars, Newest
<1>6. ASSUME NEW r \in Readers, GetReturns(r) PROVE Latest!Read(r)
  <2>1. /\ pc[r] = "in" /\ left[r] = {} /\ pc'[Service] = pc[Service]
        /\ UNCHANGED <<joystick, input>> /\ seen' = [seen EXCEPT ![r] = copy[r]]
      BY <1>6, <1>t DEF GetReturns, TypeOK
  <2>2. pc[Service] # "in"
      BY <2>1 DEF IInv, Exclusion
  <2>3. \A f \in Fields : copy[r][f] = joystick["timestamp_ms"]
      BY <2>1, <2>2 DEF IInv, Copied, Written, Fields
  <2>4. copy[r] = [f \in Fields |-> joystick["timestamp_ms"]]
      BY <1>t, <2>3 DEF TypeOK
  <2> QED
      BY <2>1, <2>2, <2>4 DEF Latest!Read, Latest!Whole, Newest
<1>7. CASE UNCHANGED vars
    BY <1>7 DEF vars, Latest!vars, Newest
<1> QED
    BY <1>1, <1>2, <1>3, <1>4, <1>5, <1>6, <1>7 DEF Next, Latest!Next

\* Whatever the order in which tasks run, fields are accessed and messages
\* arrive, get_joystick() returns all of one input, and never an older one than
\* it or another reader has returned before.
LEMMA LatestValueHere == Steps => ImplementsLatestValue
<1>1. Init => Latest!Init
    BY PilotInputAssumption DEF Init, Latest!Init, Latest!Whole, Newest, Initial, Tasks, Fields
<1>2. IInv /\ IInv' /\ [Next]_vars => [Latest!Next]_(Latest!vars)
    BY LatestStep
<1> QED
    BY <1>1, <1>2, Inductive, PTL DEF Steps, ImplementsLatestValue, Latest!Spec

-----------------------------------------------------------------------------
(* The console.                                                            *)

\* Whatever gateway, connection and activity do, PilotInput sees its own steps.
LEMMA ConsoleImplementsPilotInput == ConsoleSpec => Steps
<1>1. ConsoleInit => Init
    BY DEF ConsoleInit
<1>2. [ConsoleNext]_allVars => [Next]_vars
  <2> SUFFICES ASSUME [ConsoleNext]_allVars PROVE [Next]_vars
      OBVIOUS
  <2>1. CASE Send \/ Break \/ Forget \/ RouteCommand \/ PostMove \/ MoveDone \/ Take
      BY <2>1 DEF Send, Break, Forget, RouteCommand, PostMove, MoveDone, Take
  <2>2. CASE RouteInput \/ PostOther
      BY <2>2 DEF RouteInput, PostOther, Next
  <2>3. CASE ManualTick
      BY <2>3, ConsoleAssumption DEF ManualTick, Next
  <2>4. CASE Access
      BY <2>4 DEF Access, Next
  <2>5. CASE UNCHANGED allVars
      BY <2>5 DEF allVars
  <2> QED
      BY <2>1, <2>2, <2>3, <2>4, <2>5 DEF ConsoleNext
<1> QED
    BY <1>1, <1>2, PTL DEF ConsoleSpec, Steps

Commands == {"START_MANUAL_NAV", "HALT_MANUAL_NAV", "MOVE_FORWARD", "MOVE_DONE"}

ConsoleTypes ==
    /\ line \in Seq(Frames) /\ Len(line) <= LineMax
    /\ reliable \in BOOLEAN
    /\ actQueue \in Seq(Commands) /\ Len(actQueue) <= ActQueueLen
    /\ mode \in {"Idle", "Working", "Manual"}
    /\ moving \in BOOLEAN

\* One more in a queue with room.
LEMMA OneMore ==
    ASSUME NEW S, NEW q \in Seq(S), NEW e \in S, NEW n \in Nat, Len(q) < n
    PROVE  Append(q, e) \in Seq(S) /\ Len(Append(q, e)) <= n
BY AppendProperties, LenProperties

\* One fewer.
LEMMA OneFewer ==
    ASSUME NEW S, NEW q \in Seq(S), q # <<>>, NEW n \in Nat, Len(q) <= n
    PROVE  Head(q) \in S /\ Tail(q) \in Seq(S) /\ Len(Tail(q)) <= n
BY HeadTailProperties, EmptySeq, LenProperties

LEMMA ConsoleTypesInductive == ConsoleTypes /\ [ConsoleNext]_allVars => ConsoleTypes'
<1> SUFFICES ASSUME ConsoleTypes, [ConsoleNext]_allVars PROVE ConsoleTypes'
    OBVIOUS
<1>0. Len(line) \in Nat /\ Len(actQueue) \in Nat /\ LineMax \in Nat /\ ActQueueLen \in Nat
    BY ConsoleAssumption, LenProperties DEF ConsoleTypes
<1>h. HandOver => line' \in Seq(Frames) /\ Len(line') <= LineMax /\ Head(line) \in Frames
    BY <1>0, OneFewer DEF HandOver, ConsoleTypes
<1>1. CASE Send
  <2>1. PICK f \in Frames : line' = Append(line, f)
      BY <1>1 DEF Send
  <2>2. line' \in Seq(Frames) /\ Len(line') <= LineMax
      BY <1>0, <1>1, <2>1, OneMore DEF Send, ConsoleTypes
  <2> QED
      BY <1>1, <2>2 DEF Send, ConsoleTypes
<1>2. CASE Break
  <2>1. PICK n \in 0..Len(line) : line' = SubSeq(line, 1, n)
      BY <1>2 DEF Break
  <2>2. line' \in Seq(Frames) /\ Len(line') = n
      BY <1>0, <2>1, SubSeqProperties DEF ConsoleTypes
  <2>3. Len(line') <= LineMax
      BY <1>0, <2>1, <2>2 DEF ConsoleTypes
  <2>4. reliable' = FALSE /\ UNCHANGED <<actQueue, mode, moving>>
      BY <1>2 DEF Break
  <2> QED
      BY <2>2, <2>3, <2>4 DEF ConsoleTypes
<1>3. CASE Forget \/ RouteInput
    BY <1>h, <1>3 DEF Forget, RouteInput, ConsoleTypes
<1>4. CASE RouteCommand
  <2>1. Head(line) \in Commands
      BY <1>h, <1>4 DEF RouteCommand, Frames, Commands
  <2>2. actQueue' \in Seq(Commands) /\ Len(actQueue') <= ActQueueLen
      BY <1>0, <1>4, <2>1, OneMore DEF RouteCommand, ConsoleTypes
  <2> QED
      BY <1>h, <1>4, <2>2 DEF RouteCommand, ConsoleTypes
<1>5. CASE PostMove \/ MoveDone
  <2>1. actQueue' \in Seq(Commands) /\ Len(actQueue') <= ActQueueLen
      BY <1>0, <1>5, OneMore DEF PostMove, MoveDone, ConsoleTypes, Commands
  <2> QED
      BY <1>5, <2>1 DEF PostMove, MoveDone, ConsoleTypes
<1>6. CASE Take
  <2>1. actQueue' \in Seq(Commands) /\ Len(actQueue') <= ActQueueLen
      BY <1>0, <1>6, OneFewer DEF Take, ConsoleTypes
  <2>2. mode' \in {"Idle", "Working", "Manual"} /\ moving' \in BOOLEAN
      BY <1>6 DEF Take, After, ConsoleTypes
  <2> QED
      BY <1>6, <2>1, <2>2 DEF Take, ConsoleTypes
<1>7. CASE PostOther \/ ManualTick \/ Access \/ UNCHANGED allVars
    BY <1>7 DEF PostOther, ManualTick, Access, allVars, consoleVars, ConsoleTypes
<1> QED
    BY <1>1, <1>2, <1>3, <1>4, <1>5, <1>6, <1>7 DEF ConsoleNext

LEMMA ConsoleTypesInitially == ConsoleInit => ConsoleTypes
<1>1. <<>> \in Seq(Frames) /\ <<>> \in Seq(Commands) /\ Len(<<>>) = 0
    BY EmptySeq
<1> SUFFICES ASSUME ConsoleInit PROVE ConsoleTypes
    OBVIOUS
<1>2. line \in Seq(Frames) /\ Len(line) <= LineMax
    BY <1>1, ConsoleAssumption DEF ConsoleInit
<1>3. actQueue \in Seq(Commands) /\ Len(actQueue) <= ActQueueLen
    BY <1>1, ConsoleAssumption DEF ConsoleInit
<1> QED
    BY <1>2, <1>3 DEF ConsoleInit, ConsoleTypes

\* Queues and line keep their bounds and everything its type, for any number of
\* readers and queues of any length.
THEOREM TypeCorrect == ConsoleSpec => []ConsoleTypeOK
<1>1. ConsoleInit => ConsoleTypes
    BY ConsoleTypesInitially
<1>2. ConsoleSpec => []ConsoleTypes
    BY <1>1, ConsoleTypesInductive, PTL DEF ConsoleSpec
<1>3. TypeOK /\ ConsoleTypes => ConsoleTypeOK
    BY DEF ConsoleTypes, ConsoleTypeOK, Commands
<1> QED
    BY <1>2, <1>3, ConsoleImplementsPilotInput, TypesHere, PTL

\* navigation_state.hpp, set_joystick() and get_joystick(), fed by the gateway: whatever
\* the order in which tasks run, fields are accessed and frames arrive, get_joystick()
\* returns all of one input, and never an older one than before.
THEOREM LatestValueImplemented == ConsoleSpec => ImplementsLatestValue
BY ConsoleImplementsPilotInput, LatestValueHere

-----------------------------------------------------------------------------
(* HALT.                                                                   *)

Halt == "HALT_MANUAL_NAV"

HaltIn(queue) == \E i \in DOMAIN queue : queue[i] = Halt

\* A HALT is where it was after another message came, or it is that message.
LEMMA HaltBehind ==
    ASSUME NEW S, NEW queue \in Seq(S), NEW x \in S, HaltIn(queue) \/ x = Halt
    PROVE  HaltIn(Append(queue, x))
<1>1. /\ Append(queue, x) \in Seq(S)
      /\ Len(Append(queue, x)) = Len(queue) + 1
      /\ \A i \in 1..Len(queue) : Append(queue, x)[i] = queue[i]
      /\ Append(queue, x)[Len(queue) + 1] = x
    BY AppendProperties
<1>2. /\ Len(queue) \in Nat /\ DOMAIN queue = 1..Len(queue)
      /\ DOMAIN Append(queue, x) = 1..Len(queue) + 1
    BY <1>1, LenProperties
<1> QED
    BY <1>1, <1>2 DEF HaltIn

\* A HALT is still there when another message has been taken.
LEMMA HaltBefore ==
    ASSUME NEW S, NEW queue \in Seq(S), queue # <<>>, HaltIn(queue)
    PROVE  Head(queue) = Halt \/ HaltIn(Tail(queue))
<1>1. PICK i \in DOMAIN queue : queue[i] = Halt
    BY DEF HaltIn
<1>2. /\ Head(queue) = queue[1]
      /\ Tail(queue) \in Seq(S)
      /\ Len(Tail(queue)) = Len(queue) - 1
      /\ \A j \in 1..Len(Tail(queue)) : Tail(queue)[j] = queue[j + 1]
    BY HeadTailProperties
<1>3. /\ Len(queue) \in Nat /\ DOMAIN queue = 1..Len(queue)
      /\ DOMAIN Tail(queue) = 1..Len(Tail(queue))
    BY <1>2, LenProperties
<1>4. CASE i = 1
    BY <1>1, <1>2, <1>4
<1>5. CASE i # 1
  <2>1. i - 1 \in DOMAIN Tail(queue) /\ (i - 1) + 1 = i
      BY <1>1, <1>2, <1>3, <1>5
  <2>2. Tail(queue)[i - 1] = Halt
      BY <1>1, <1>2, <1>3, <2>1
  <2> QED
      BY <2>1, <2>2 DEF HaltIn
<1> QED
    BY <1>4, <1>5

\* One case for each way a frame or a message can go.
LEMMA HaltStep ==
    ASSUME ConsoleTypes, [ConsoleNext]_allVars, HaltPending, reliable'
    PROVE  HaltPending' \/ mode' # "Manual"
<1> USE DEF consoleVars
<1>0. /\ line \in Seq(Frames) /\ actQueue \in Seq(Commands)
      /\ HaltIn(line) \/ HaltIn(actQueue)
    BY DEF ConsoleTypes, HaltPending, HaltIn, Halt
<1> SUFFICES HaltIn(line') \/ HaltIn(actQueue') \/ mode' # "Manual"
    BY DEF HaltPending, HaltIn, Halt
<1>1. CASE UNCHANGED <<line, actQueue>>
    BY <1>0, <1>1
<1>2. CASE Send
  <2>1. PICK f \in Frames : line' = Append(line, f)
      BY <1>2 DEF Send
  <2>2. HaltIn(line) => HaltIn(line')
      BY <1>0, <2>1, HaltBehind
  <2> QED
      BY <1>0, <1>2, <2>2 DEF Send
<1>3. CASE Break \/ Forget
    BY <1>3 DEF Break, Forget
<1>4. CASE RouteInput
  <2>1. line # <<>> /\ line' = Tail(line) /\ Head(line) # Halt /\ actQueue' = actQueue
      BY <1>4 DEF RouteInput, HandOver, Halt
  <2>2. HaltIn(line) => HaltIn(line')
      BY <1>0, <2>1, HaltBefore
  <2> QED
      BY <1>0, <2>1, <2>2
<1>5. CASE RouteCommand
  <2>1. /\ line # <<>> /\ line' = Tail(line) /\ Head(line) # "JOYSTICK_INPUT"
        /\ actQueue' = Append(actQueue, Head(line))
      BY <1>5 DEF RouteCommand, HandOver
  <2>2. Head(line) \in Commands
      BY <1>0, <2>1, HeadTailProperties DEF Frames, Commands
  <2>3. HaltIn(line) => HaltIn(line') \/ Head(line) = Halt
      BY <1>0, <2>1, HaltBefore
  <2>4. HaltIn(actQueue) \/ Head(line) = Halt => HaltIn(actQueue')
      BY <1>0, <2>1, <2>2, HaltBehind
  <2> QED
      BY <1>0, <2>3, <2>4
<1>6. CASE PostMove \/ MoveDone
  <2>1. PICK m \in Commands : actQueue' = Append(actQueue, m)
      BY <1>6 DEF PostMove, MoveDone, Commands
  <2>2. HaltIn(actQueue) => HaltIn(actQueue')
      BY <1>0, <2>1, HaltBehind
  <2> QED
      BY <1>0, <1>6, <2>2 DEF PostMove, MoveDone
<1>7. CASE Take
  <2>1. /\ actQueue # <<>> /\ actQueue' = Tail(actQueue) /\ line' = line
        /\ mode' = After(mode, Head(actQueue))
      BY <1>7 DEF Take
  <2>2. HaltIn(actQueue) => HaltIn(actQueue') \/ Head(actQueue) = Halt
      BY <1>0, <2>1, HaltBefore
  <2>3. Head(actQueue) = Halt => mode' # "Manual"
      BY <2>1 DEF After, Halt
  <2> QED
      BY <1>0, <2>1, <2>2, <2>3
<1> QED
    BY <1>1, <1>2, <1>3, <1>4, <1>5, <1>6, <1>7
    DEF ConsoleNext, PostOther, ManualTick, Access, allVars

\* "HALT_MANUAL_NAV -> same path -> FSM: Manual -> Idle": a HALT sent on a connection
\* that holds is in the stream or in the activity's queue until Manual mode is over,
\* for any queue lengths, any load by others and any number of readers.
THEOREM HaltNeverLost == ConsoleSpec => HaltKept
<1>1. ConsoleInit => ConsoleTypes
    BY ConsoleTypesInitially
<1>2. ConsoleTypes /\ [ConsoleNext]_allVars
          => [HaltPending /\ reliable' => HaltPending' \/ mode' # "Manual"]_allVars
    BY HaltStep
<1> QED
    BY <1>1, <1>2, ConsoleTypesInductive, PTL DEF ConsoleSpec, HaltKept

=============================================================================
