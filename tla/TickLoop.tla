------------------------------ MODULE TickLoop ------------------------------
(***************************************************************************)
(* The timing of BaseTask::run(): how long it waits for a message, and     *)
(* when it calls on_tick().  The tick counter of FreeRTOS wraps around at  *)
(* Modulus, as TickType_t does; what messages say is in other modules.     *)
(*                                                                         *)
(* Time passes in steps of one tick at any place of the loop.  `busy' is   *)
(* the time an iteration takes apart from waiting for a message: reading   *)
(* the clock, handle_message(), on_tick(), and every moment the task is    *)
(* ready and others run.                                                   *)
(***************************************************************************)
EXTENDS Integers

CONSTANTS
    Modulus,        \* number of values of TickType_t (2^32 in the code)
    Intervals,      \* intervals a derived class asks for
    Capacity,       \* Config::queue_length
    MaxBusy         \* bound: ticks an iteration is not waiting

ASSUME TickLoopAssumption ==
    /\ Modulus \in Nat
    /\ MaxBusy \in Nat \ {0}
    /\ Capacity \in Nat
    /\ Intervals \subseteq Nat \ {0}
    /\ \A i \in Intervals : i + MaxBusy < Modulus

VARIABLES
    clock,          \* xTaskGetTickCount()
    interval,       \* tick_interval_ticks_, 0 when ticking is disabled
    last,           \* last_tick_time_
    age,            \* true time since last_tick_time_ was set, while ticking
    posted,         \* number of messages in the inbound queue
    pc,             \* where run() is
    wait,           \* ticks left of the wait in xQueueReceive
    busy            \* ticks this iteration has taken apart from waiting

tickVars == <<clock, interval, last, age, posted, pc, wait, busy>>

portMAX_DELAY == Modulus - 1

TickInit ==
    /\ clock \in 0..(Modulus - 1)
    /\ interval = 0
    /\ last = 0
    /\ age = 0
    /\ posted = 0
    /\ pc = "start"
    /\ wait = portMAX_DELAY
    /\ busy = 0

-----------------------------------------------------------------------------

\* xTaskGetTickCount() - last_tick_time_, an unsigned difference.
Elapsed == IF clock >= last THEN clock - last ELSE clock - last + Modulus

\* Fault variant: the queue has to be idle, as the comment on on_tick() says.
DueWhenIdle == interval > 0 /\ Elapsed >= interval /\ posted = 0

Due == interval > 0 /\ Elapsed >= interval

\* Fault variant: an interval that is over already not told apart.
WaitTicksUntested == IF interval = 0 THEN portMAX_DELAY ELSE interval - Elapsed

WaitTicks ==
    IF interval = 0 THEN portMAX_DELAY ELSE IF Due THEN 0 ELSE interval - Elapsed

\* Fault variant: the new interval counted from the last tick.
SetIntervalKeepingLast(i) ==
    /\ interval' = i
    /\ age' = 0
    /\ UNCHANGED last

\* set_tick_interval(): the interval runs from now.
SetInterval(i) ==
    /\ interval' = i
    /\ last' = clock
    /\ age' = 0

\* on_start() and handle_message() may set the interval.
MaySetInterval ==
    \/ \E i \in Intervals \cup {0} : SetInterval(i)
    \/ UNCHANGED <<interval, last, age>>

-----------------------------------------------------------------------------

Start ==
    /\ pc = "start"
    /\ MaySetInterval
    /\ pc' = "head"
    /\ UNCHANGED <<clock, posted, wait, busy>>

\* The first half of an iteration, up to the call of xQueueReceive.
ComputeWait ==
    /\ pc = "head"
    /\ wait' = WaitTicks
    /\ pc' = "receive"
    /\ UNCHANGED <<clock, interval, last, age, posted, busy>>

Dequeue ==
    /\ pc = "receive"
    /\ posted > 0
    /\ posted' = posted - 1
    /\ pc' = "handle"
    /\ UNCHANGED <<clock, interval, last, age, wait, busy>>

WaitOver ==
    /\ pc = "receive"
    /\ posted = 0
    /\ wait = 0
    /\ pc' = "check"
    /\ UNCHANGED <<clock, interval, last, age, posted, wait, busy>>

\* handle_message() returns, and the payload is freed.
HandleDone ==
    /\ pc = "handle"
    /\ MaySetInterval
    /\ pc' = "check"
    /\ UNCHANGED <<clock, posted, wait, busy>>

\* The next iteration begins.
NoTick ==
    /\ pc = "check"
    /\ ~Due
    /\ pc' = "head"
    /\ busy' = 0
    /\ UNCHANGED <<clock, interval, last, age, posted, wait>>

OnTick ==
    /\ pc = "check"
    /\ Due
    /\ pc' = "tick"
    /\ UNCHANGED <<clock, interval, last, age, posted, wait, busy>>

\* on_tick() returns.
TickDone ==
    /\ pc = "tick"
    /\ last' = clock
    /\ age' = 0
    /\ pc' = "head"
    /\ busy' = 0
    /\ UNCHANGED <<clock, interval, posted, wait>>

Loop ==
    Start \/ ComputeWait \/ Dequeue \/ WaitOver \/ HandleDone \/ NoTick \/ OnTick
        \/ TickDone

\* Somebody posts a message.
Arrive ==
    /\ posted < Capacity
    /\ posted' = posted + 1
    /\ UNCHANGED <<clock, interval, last, age, pc, wait, busy>>

\* The task is blocked in xQueueReceive.
Waiting == pc = "receive" /\ posted = 0 /\ wait > 0

\* One tick of the clock.
Pass ==
    /\ clock' = IF clock = Modulus - 1 THEN 0 ELSE clock + 1
    /\ age' = IF interval = 0 THEN 0 ELSE age + 1
    /\ \/ /\ Waiting
          /\ wait' = IF wait = portMAX_DELAY THEN wait ELSE wait - 1
          /\ UNCHANGED busy
       \/ /\ ~Waiting
          /\ busy < MaxBusy
          /\ busy' = busy + 1
          /\ UNCHANGED wait
    /\ UNCHANGED <<interval, last, posted, pc>>

TickNext == Loop \/ Arrive \/ Pass

TickSpec == TickInit /\ [][TickNext]_tickVars

-----------------------------------------------------------------------------
(* Properties.                                                             *)

TickTypeOK ==
    /\ clock \in 0..(Modulus - 1)
    /\ interval \in Intervals \cup {0}
    /\ last \in 0..(Modulus - 1)
    /\ age \in Nat
    /\ posted \in 0..Capacity
    /\ pc \in {"start", "head", "receive", "handle", "check", "tick"}
    /\ wait \in 0..portMAX_DELAY
    /\ busy \in 0..MaxBusy

\* However the counter wraps and however often ticking is switched off and on, a
\* tick comes when its interval has really passed, never sooner.
NeverEarly == [][pc # "tick" /\ pc' = "tick" => age >= interval]_tickVars

\* No flood of messages, no overflow of the counter and no change of the interval
\* keeps a tick back: it is over one iteration's work after its time at the latest.
NeverLate == interval > 0 => age <= interval + MaxBusy

=============================================================================
