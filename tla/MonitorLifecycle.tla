-------------------------- MODULE MonitorLifecycle --------------------------
(***************************************************************************)
(* SystemMonitorTask from start() to stop() and back.  Unlike the gateway  *)
(* it resets its flag, may be started twice, and clears its own handle     *)
(* when it ends, while stop() may be about to use it.                      *)
(*                                                                         *)
(* stop() tests handle_ and passes it to vTaskDelete without a lock, so    *)
(* that a build that reads it twice may pass null, which means the calling *)
(* task, and one that reads it once may pass a task that is gone: the      *)
(* controlling task is then "deleted" or "lost".                           *)
(***************************************************************************)
EXTENDS Naturals, Sequences

CONSTANT MaxTasks   \* bound: tasks created

VARIABLES
    ctl,            \* the controlling task: "ready", or where it is in a call
    mHandle,        \* the task handle_ means, 0 for null
    mStopRequested, \* stop_requested_
    mTask,          \* where run() is, for each task created
    mOld            \* the handle stop() has tested

vars == <<ctl, mHandle, mStopRequested, mTask, mOld>>

Init ==
    /\ ctl = "ready"
    /\ mHandle = 0
    /\ mStopRequested = FALSE
    /\ mTask = <<>>
    /\ mOld = 0

-----------------------------------------------------------------------------
(* The controlling task.                                                   *)

\* Fault variant: started twice, two tasks.
StartUntested ==
    /\ ctl = "ready"
    /\ Len(mTask) < MaxTasks
    /\ mStopRequested' = FALSE
    /\ mTask' = Append(mTask, "test")
    /\ mHandle' = Len(mTask) + 1
    /\ UNCHANGED <<ctl, mOld>>

\* Fault variant: the flag not reset.
StartKeepingFlag ==
    /\ ctl = "ready"
    /\ mHandle = 0
    /\ Len(mTask) < MaxTasks
    /\ mTask' = Append(mTask, "test")
    /\ mHandle' = Len(mTask) + 1
    /\ UNCHANGED <<ctl, mStopRequested, mOld>>

\* A task that runs already is left alone.
Start ==
    /\ ctl = "ready"
    /\ mHandle = 0
    /\ Len(mTask) < MaxTasks
    /\ mStopRequested' = FALSE
    /\ mTask' = Append(mTask, "test")
    /\ mHandle' = Len(mTask) + 1
    /\ UNCHANGED <<ctl, mOld>>

Stop ==
    /\ ctl = "ready"
    /\ mStopRequested' = TRUE
    /\ ctl' = "test"
    /\ UNCHANGED <<mHandle, mTask, mOld>>

TestHandle ==
    /\ ctl = "test"
    /\ mOld' = mHandle
    /\ ctl' = IF mHandle = 0 THEN "ready" ELSE "remove"
    /\ UNCHANGED <<mHandle, mStopRequested, mTask>>

\* handle_ is read a second time, or not.
DeleteTask ==
    /\ ctl = "remove"
    /\ \E h \in {mHandle, mOld} :
          \/ /\ h = 0
             /\ ctl' = "deleted"
             /\ UNCHANGED <<mHandle, mTask>>
          \/ /\ h # 0
             /\ ctl' = IF mTask[h] = "gone" THEN "lost" ELSE "ready"
             /\ mTask' = [mTask EXCEPT ![h] = "gone"]
             /\ mHandle' = 0
    /\ UNCHANGED <<mStopRequested, mOld>>

-----------------------------------------------------------------------------
(* run(), of task t.                                                       *)

Goto(t, from, to) ==
    /\ mTask[t] = from
    /\ mTask' = [mTask EXCEPT ![t] = to]
    /\ UNCHANGED <<ctl, mStopRequested, mOld>>

\* The test of the loop.
Test(t) ==
    /\ Goto(t, "test", IF mStopRequested THEN "leave" ELSE "report")
    /\ UNCHANGED mHandle

\* The heap and the watched queues are reported, then vTaskDelay.
Report(t) == Goto(t, "report", "sleep") /\ UNCHANGED mHandle

Wake(t) == Goto(t, "sleep", "test") /\ UNCHANGED mHandle

Leave(t) == Goto(t, "leave", "end") /\ mHandle' = 0

\* vTaskDelete(nullptr) in run() itself.
End(t) == Goto(t, "end", "gone") /\ UNCHANGED mHandle

Run(t) == Test(t) \/ Report(t) \/ Wake(t) \/ Leave(t) \/ End(t)

-----------------------------------------------------------------------------

Next ==
    \/ Start \/ Stop \/ TestHandle \/ DeleteTask
    \/ \E t \in DOMAIN mTask : Run(t)

\* A task that is ready runs, and vTaskDelay comes to an end.
Fairness == \A t \in 1..MaxTasks : WF_vars(t \in DOMAIN mTask /\ Run(t))

Spec == Init /\ [][Next]_vars /\ Fairness

-----------------------------------------------------------------------------
(* Properties.                                                             *)

\* Of all but ctl, which other components move too.
TypeOK ==
    /\ mTask \in Seq({"test", "report", "sleep", "leave", "end", "gone"})
    /\ mHandle \in 0..Len(mTask)
    /\ mOld \in 0..Len(mTask)
    /\ mStopRequested \in BOOLEAN

\* Tasks that still have something to do with the object.
Inside == {t \in DOMAIN mTask : mTask[t] \in {"test", "report", "sleep", "leave"}}

\* ~SystemMonitorTask() relies on it, and so does the next start(): when stop() has
\* returned no task is left in the object, and at other times there is one at most,
\* the one handle_ means, however the end of run() and stop() meet.
OneMonitor ==
    /\ Inside = {mHandle} \ {0}
    /\ ctl = "ready" /\ mStopRequested => Inside = {}

\* A monitor that is started reports, the first time and every time after a stop(),
\* until the next one.
Reports ==
    (ctl = "ready" /\ mHandle # 0)
        ~> (ctl # "ready" \/ \E t \in DOMAIN mTask : mTask[t] = "report")

=============================================================================
