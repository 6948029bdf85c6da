------------------------------ MODULE BaseTask ------------------------------
(***************************************************************************)
(* BaseTask: one task, its inbound queue, and the tasks that post to it,   *)
(* down to the payload buffers.                                            *)
(*                                                                         *)
(* post_message() copies the caller's payload into a heap buffer, so the   *)
(* caller may reuse its own memory as soon as the call returns (the        *)
(* network gateway decodes every frame into the same buffer).  The buffer  *)
(* belongs to the call until xQueueSend takes the message, then to the     *)
(* queue, then to the owner task, which frees it when handle_message       *)
(* returns.  The ticks of the run loop are in TickLoop.                    *)
(***************************************************************************)
EXTENDS Naturals, Sequences

CONSTANTS
    Posters,        \* tasks that post; each has one payload object of its own
    Buffers,        \* blocks of the FreeRTOS heap
    Values,         \* contents a payload may have
    Null,           \* the null pointer
    Bare,           \* the content of a message without payload
    Nothing,        \* no message at all
    QueueLen        \* Config::queue_length

Addresses == Buffers \cup Posters

ASSUME BaseTaskAssumption ==
    /\ QueueLen \in Nat \ {0}
    /\ Buffers \cap Posters = {}
    /\ Null \notin Addresses
    /\ Bare \notin Values
    /\ Nothing \notin Values \cup {Bare}

VARIABLES
    stage,          \* how far each poster is in post_message()
    kind,           \* what it passes: no payload, a null pointer, a payload
    timeout,        \* how long it is ready to wait
    copy,           \* its copyMsg.data
    result,         \* what its last post_message() returned
    mem,            \* contents of the posters' payload objects and the buffers
    heap,           \* allocated buffers
    queue,          \* the data pointers of the queued messages
    taskPc,         \* where the owner task is
    msg             \* its msg.data

callVars == <<stage, kind, timeout, copy, result>>
taskVars == <<taskPc, msg>>
vars == <<callVars, mem, heap, queue, taskVars>>

Init ==
    /\ stage = [p \in Posters |-> "idle"]
    /\ kind = [p \in Posters |-> "bare"]
    /\ timeout = [p \in Posters |-> "forever"]
    /\ copy = [p \in Posters |-> Null]
    /\ result = [p \in Posters |-> FALSE]
    /\ mem \in [Addresses -> Values]
    /\ heap = {}
    /\ queue = <<>>
    /\ taskPc = "start"
    /\ msg = Null

-----------------------------------------------------------------------------
(* post_message().                                                         *)

\* A poster fills its payload object, whose last content nobody needs by then,
\* and calls.  "null" is a message with a size but no data.
Call(p) ==
    /\ stage[p] = "idle"
    /\ stage' = [stage EXCEPT ![p] = "copy"]
    /\ \E k \in {"bare", "null", "sized"} : kind' = [kind EXCEPT ![p] = k]
    /\ \E t \in {"finite", "forever"} : timeout' = [timeout EXCEPT ![p] = t]
    /\ \E v \in Values : mem' = [mem EXCEPT ![p] = v]
    /\ UNCHANGED <<copy, result, heap, queue, taskVars>>

\* The call returns r and its arguments and locals are gone.
Return(p, r) ==
    /\ stage' = [stage EXCEPT ![p] = "idle"]
    /\ kind' = [kind EXCEPT ![p] = "bare"]
    /\ timeout' = [timeout EXCEPT ![p] = "forever"]
    /\ copy' = [copy EXCEPT ![p] = Null]
    /\ result' = [result EXCEPT ![p] = r]

\* No data, or pvPortMalloc has no block: the call returns false.
CopyFails(p) ==
    /\ stage[p] = "copy"
    /\ kind[p] # "bare"
    /\ Return(p, FALSE)
    /\ UNCHANGED <<mem, heap, queue, taskVars>>

\* Fault variant: the caller's pointer enqueued as it is.
CopyBorrowed(p) ==
    /\ stage[p] = "copy"
    /\ kind[p] # "null"
    /\ stage' = [stage EXCEPT ![p] = "send"]
    /\ copy' = [copy EXCEPT ![p] = IF kind[p] = "sized" THEN p ELSE Null]
    /\ UNCHANGED <<kind, timeout, result, mem, heap, queue, taskVars>>

\* copyMsg is made, with a heap buffer of its own if there is a payload.
Copy(p) ==
    /\ stage[p] = "copy"
    /\ stage' = [stage EXCEPT ![p] = "send"]
    /\ \/ kind[p] = "bare" /\ UNCHANGED <<copy, mem, heap>>
       \/ /\ kind[p] = "sized"
          /\ \E b \in Buffers \ heap :
                /\ heap' = heap \cup {b}
                /\ mem' = [mem EXCEPT ![b] = mem[p]]
                /\ copy' = [copy EXCEPT ![p] = b]
    /\ UNCHANGED <<kind, timeout, result, queue, taskVars>>

\* Fault variant: room in the queue not tested.
SendUnchecked(p) ==
    /\ stage[p] = "send"
    /\ queue' = Append(queue, copy[p])
    /\ Return(p, TRUE)
    /\ UNCHANGED <<mem, heap, taskVars>>

\* xQueueSend takes the message, and with it the buffer.
Send(p) ==
    /\ stage[p] = "send"
    /\ Len(queue) < QueueLen
    /\ queue' = Append(queue, copy[p])
    /\ Return(p, TRUE)
    /\ UNCHANGED <<mem, heap, taskVars>>

\* Fault variant: the buffer of a message that was not sent is forgotten.
TimeOutWithoutFree(p) ==
    /\ stage[p] = "send"
    /\ timeout[p] = "finite"
    /\ Len(queue) = QueueLen
    /\ Return(p, FALSE)
    /\ UNCHANGED <<mem, heap, queue, taskVars>>

\* xQueueSend times out: the buffer is freed and the call returns false.
TimeOut(p) ==
    /\ stage[p] = "send"
    /\ timeout[p] = "finite"
    /\ Len(queue) = QueueLen
    /\ heap' = heap \ {copy[p]}
    /\ Return(p, FALSE)
    /\ UNCHANGED <<mem, queue, taskVars>>

-----------------------------------------------------------------------------
(* run().                                                                  *)

OnStart ==
    /\ taskPc = "start"
    /\ taskPc' = "wait"
    /\ UNCHANGED <<callVars, mem, heap, queue, msg>>

\* Fault variant: the message looked at and left in the queue.
ReceivePeek ==
    /\ taskPc = "wait"
    /\ queue # <<>>
    /\ msg' = Head(queue)
    /\ taskPc' = "handle"
    /\ UNCHANGED <<callVars, mem, heap, queue>>

\* xQueueReceive: handle_message() starts on the message.
Receive ==
    /\ taskPc = "wait"
    /\ queue # <<>>
    /\ msg' = Head(queue)
    /\ queue' = Tail(queue)
    /\ taskPc' = "handle"
    /\ UNCHANGED <<callVars, mem, heap>>

\* handle_message() returns and the payload, if any, is freed.
Finish ==
    /\ taskPc = "handle"
    /\ heap' = heap \ {msg}
    /\ msg' = Null
    /\ taskPc' = "wait"
    /\ UNCHANGED <<callVars, mem, queue>>

-----------------------------------------------------------------------------

Next ==
    \/ \E p \in Posters : Call(p) \/ CopyFails(p) \/ Copy(p) \/ Send(p) \/ TimeOut(p)
    \/ OnStart
    \/ Receive
    \/ Finish

\* Every task runs when it can, and handlers return.  A poster that waits with
\* portMAX_DELAY is woken by each receive, longest waiting first within a
\* priority, so it gets in if there is room again and again.
Fairness ==
    /\ \A p \in Posters :
          /\ WF_vars(CopyFails(p) \/ Copy(p))
          /\ SF_vars(Send(p))
    /\ WF_vars(OnStart)
    /\ WF_vars(Receive)
    /\ WF_vars(Finish)

Spec == Init /\ [][Next]_vars /\ Fairness

-----------------------------------------------------------------------------
(* Properties.                                                             *)

TypeOK ==
    /\ stage \in [Posters -> {"idle", "copy", "send"}]
    /\ kind \in [Posters -> {"bare", "null", "sized"}]
    /\ timeout \in [Posters -> {"finite", "forever"}]
    /\ copy \in [Posters -> Buffers \cup {Null}]
    /\ result \in [Posters -> BOOLEAN]
    /\ mem \in [Addresses -> Values]
    /\ heap \subseteq Buffers
    /\ queue \in Seq(Buffers \cup {Null}) /\ Len(queue) <= QueueLen
    /\ taskPc \in {"start", "wait", "handle"}
    /\ msg \in Buffers \cup {Null}

\* Those who hold a buffer, and the buffer.
Holders ==
    {h \in (   {<<"call", p, copy[p]>> : p \in Posters}
          \cup {<<"queue", i, queue[i]>> : i \in DOMAIN queue}
          \cup {<<"task", 0, msg>>}) : h[3] # Null}

\* Each allocated buffer has one holder and each pointer held leads to an
\* allocated buffer: post_message(), the queue and the run loop hand payloads
\* on without losing one, freeing one twice or keeping one that is freed.
OwnedOnce ==
    /\ {h[3] : h \in Holders} = heap
    /\ \A g, h \in Holders : g[3] = h[3] => g = h

\* What a data pointer stands for.
Content(d) == IF d = Null THEN Bare ELSE mem[d]

\* The mailbox as posters and handler see it.
Offered ==
    [p \in Posters |->
        IF stage[p] = "idle" THEN Nothing ELSE IF kind[p] = "bare" THEN Bare ELSE mem[p]]
Boxed == [i \in DOMAIN queue |-> Content(queue[i])]
Handled == IF taskPc = "handle" THEN Content(msg) ELSE Nothing

Box == INSTANCE Mailbox WITH
    Capacity <- QueueLen,
    Contents <- Values \cup {Bare},
    offer    <- Offered,
    answer   <- result,
    box      <- Boxed,
    handling <- Handled

\* The promise of the mailbox is kept: what the handler sees is what was passed
\* to post_message(), whatever the poster does with its memory afterwards and
\* however buffers are freed and allocated again; true means queued and false
\* means never handled.
ImplementsMailbox == Box!Spec

\* The safety part of it, which needs no fairness.
SimulatesMailbox == Box!Init /\ [][Box!Next]_(Box!vars)

\* Every post_message() returns, those with portMAX_DELAY included.
CallReturns == \A p \in Posters : (stage[p] # "idle") ~> (stage[p] = "idle")

=============================================================================
