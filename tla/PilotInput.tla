----------------------------- MODULE PilotInput -----------------------------
(***************************************************************************)
(* The way of a joystick input: the queue of PilotInputService, its        *)
(* handler, the snapshot in NavigationState under its mutex, and the tasks *)
(* that read it (NavigationActivity in on_tick).                           *)
(*                                                                         *)
(* Inputs are numbered as they are posted, and a field is the number of    *)
(* the input its value comes from: a snapshot is torn when two fields      *)
(* differ.  Fields are accessed one at a time, in any order the compiler   *)
(* and the memory allow inside the critical section.                       *)
(***************************************************************************)
EXTENDS Naturals, Sequences

CONSTANTS
    Readers,        \* tasks that call get_joystick()
    Service,        \* the task of PilotInputService
    Free,           \* nobody
    QueueLen,       \* Config::queue_length of the service
    MaxInputs       \* bound: messages posted

ASSUME PilotInputAssumption ==
    /\ Service \notin Readers
    /\ Free \notin Readers \cup {Service}
    /\ QueueLen \in Nat \ {0}
    /\ MaxInputs \in Nat

Tasks == Readers \cup {Service}
Fields == {"x", "y", "timestamp_ms"}
Snapshots == [Fields -> Nat]
Initial == [f \in Fields |-> 0]
Messages == [id : {"JOYSTICK_INPUT", "other"}, whole : BOOLEAN, input : Nat]

VARIABLES
    sent,           \* messages posted so far
    inbox,          \* the queue of the service
    input,          \* the input the service took last
    pc,             \* where each task is: "idle", at the "lock", "in" the section
    left,           \* fields it has still to access
    mutex,          \* the holder of joystick_mutex_
    joystick,       \* joystick_
    copy,           \* what a reader has copied so far
    seen            \* what its last get_joystick() returned

vars == <<sent, inbox, input, pc, left, mutex, joystick, copy, seen>>

Init ==
    /\ sent = 0
    /\ inbox = <<>>
    /\ input = 0
    /\ pc = [t \in Tasks |-> "idle"]
    /\ left = [t \in Tasks |-> {}]
    /\ mutex = Free
    /\ joystick = Initial
    /\ copy = [r \in Readers |-> Initial]
    /\ seen = [r \in Readers |-> Initial]

-----------------------------------------------------------------------------
(* The queue.                                                              *)

\* Fault variant: room in the queue not tested.
PostUnchecked ==
    /\ sent < MaxInputs
    /\ sent' = sent + 1
    /\ \E id \in {"JOYSTICK_INPUT", "other"}, whole \in BOOLEAN :
          inbox' = Append(inbox, [id |-> id, whole |-> whole, input |-> sent + 1])
    /\ UNCHANGED <<input, pc, left, mutex, joystick, copy, seen>>

\* The gateway posts an input, or anybody something else: post_message() is
\* open to all.  A message that is not whole has no data or too little of it.
Post ==
    /\ sent < MaxInputs
    /\ Len(inbox) < QueueLen
    /\ sent' = sent + 1
    /\ \E id \in {"JOYSTICK_INPUT", "other"}, whole \in BOOLEAN :
          inbox' = Append(inbox, [id |-> id, whole |-> whole, input |-> sent + 1])
    /\ UNCHANGED <<input, pc, left, mutex, joystick, copy, seen>>

IsInput(m) == m.id = "JOYSTICK_INPUT" /\ m.whole

\* handle_message() returns early.
Ignore ==
    /\ pc[Service] = "idle"
    /\ inbox # <<>>
    /\ ~IsInput(Head(inbox))
    /\ inbox' = Tail(inbox)
    /\ UNCHANGED <<sent, input, pc, left, mutex, joystick, copy, seen>>

\* handle_message() goes on to set_joystick().
Handle ==
    /\ pc[Service] = "idle"
    /\ inbox # <<>>
    /\ IsInput(Head(inbox))
    /\ input' = Head(inbox).input
    /\ inbox' = Tail(inbox)
    /\ pc' = [pc EXCEPT ![Service] = "lock"]
    /\ UNCHANGED <<sent, left, mutex, joystick, copy, seen>>

\* on_tick() calls get_joystick().
Tick(r) ==
    /\ pc[r] = "idle"
    /\ pc' = [pc EXCEPT ![r] = "lock"]
    /\ UNCHANGED <<sent, inbox, input, left, mutex, joystick, copy, seen>>

-----------------------------------------------------------------------------
(* The snapshot.                                                           *)

\* Fault variant: the critical section entered without the mutex.
LockUntested(t) ==
    /\ pc[t] = "lock"
    /\ mutex' = t
    /\ pc' = [pc EXCEPT ![t] = "in"]
    /\ left' = [left EXCEPT ![t] = Fields]
    /\ UNCHANGED <<sent, inbox, input, joystick, copy, seen>>

\* std::unique_lock in set_joystick() and get_joystick().
Lock(t) ==
    /\ pc[t] = "lock"
    /\ mutex = Free
    /\ mutex' = t
    /\ pc' = [pc EXCEPT ![t] = "in"]
    /\ left' = [left EXCEPT ![t] = Fields]
    /\ UNCHANGED <<sent, inbox, input, joystick, copy, seen>>

\* set_joystick() writes a field.
SetField ==
    /\ pc[Service] = "in"
    /\ \E f \in left[Service] :
          /\ joystick' = [joystick EXCEPT ![f] = input]
          /\ left' = [left EXCEPT ![Service] = @ \ {f}]
    /\ UNCHANGED <<sent, inbox, input, pc, mutex, copy, seen>>

\* set_joystick() returns and the lock goes out of scope.
SetReturns ==
    /\ pc[Service] = "in"
    /\ left[Service] = {}
    /\ mutex' = Free
    /\ pc' = [pc EXCEPT ![Service] = "idle"]
    /\ UNCHANGED <<sent, inbox, input, left, joystick, copy, seen>>

\* get_joystick() copies a field.
CopyField(r) ==
    /\ pc[r] = "in"
    /\ \E f \in left[r] :
          /\ copy' = [copy EXCEPT ![r] = [@ EXCEPT ![f] = joystick[f]]]
          /\ left' = [left EXCEPT ![r] = @ \ {f}]
    /\ UNCHANGED <<sent, inbox, input, pc, mutex, joystick, seen>>

\* Fault variant: the mutex not released.
GetReturnsLocked(r) ==
    /\ pc[r] = "in"
    /\ left[r] = {}
    /\ pc' = [pc EXCEPT ![r] = "idle"]
    /\ seen' = [seen EXCEPT ![r] = copy[r]]
    /\ UNCHANGED <<sent, inbox, input, left, mutex, joystick, copy>>

\* get_joystick() returns the copy, and the lock goes out of scope.
GetReturns(r) ==
    /\ pc[r] = "in"
    /\ left[r] = {}
    /\ mutex' = Free
    /\ pc' = [pc EXCEPT ![r] = "idle"]
    /\ seen' = [seen EXCEPT ![r] = copy[r]]
    /\ UNCHANGED <<sent, inbox, input, left, joystick, copy>>

-----------------------------------------------------------------------------

Next ==
    \/ Post
    \/ Ignore
    \/ Handle
    \/ \E r \in Readers : Tick(r) \/ CopyField(r) \/ GetReturns(r)
    \/ \E t \in Tasks : Lock(t)
    \/ SetField
    \/ SetReturns

\* The service runs when it can, and a reader that has called comes back.  A
\* reader ticks ten times a second and holds the mutex for three copies: the
\* mutex is free again and again, and nobody waits for it for ever.  Nothing
\* makes a reader tick.
Fairness ==
    /\ WF_vars(Ignore \/ Handle)
    /\ WF_vars(SetField \/ SetReturns)
    /\ \A r \in Readers : WF_vars(CopyField(r) \/ GetReturns(r))
    /\ \A t \in Tasks : SF_vars(Lock(t))

Spec == Init /\ [][Next]_vars /\ Fairness

-----------------------------------------------------------------------------
(* Properties.                                                             *)

TypeOK ==
    /\ sent \in 0..MaxInputs
    /\ inbox \in Seq(Messages) /\ Len(inbox) <= QueueLen
    /\ input \in Nat
    /\ pc \in [Tasks -> {"idle", "lock", "in"}]
    /\ left \in [Tasks -> SUBSET Fields]
    /\ mutex \in Tasks \cup {Free}
    /\ joystick \in Snapshots
    /\ copy \in [Readers -> Snapshots]
    /\ seen \in [Readers -> Snapshots]

\* The value moves on when the service gets the mutex: nobody can see less of
\* the input than all of it from then on.
Newest == IF pc[Service] = "in" THEN input ELSE joystick["timestamp_ms"]

Latest == INSTANCE LatestValue WITH value <- Newest

\* navigation_state.hpp: "readers always observe a consistent (x, y, timestamp)
\* triple", and what they observe is the latest one: queue, handler, mutex and
\* field-by-field copies implement a value that readers get whole and that never
\* goes back to an older input.
ImplementsLatestValue == Latest!Spec

\* An input that the queue has taken is soon in effect, or a newer one is, however
\* often the snapshot is read.
InputTakesEffect ==
    \A n \in 1..MaxInputs :
        (\E i \in DOMAIN inbox : IsInput(inbox[i]) /\ inbox[i].input = n)
            ~> (\A f \in Fields : joystick[f] >= n)

=============================================================================
