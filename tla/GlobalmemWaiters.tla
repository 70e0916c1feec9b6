-------------------------- MODULE GlobalmemWaiters --------------------------
(***************************************************************************)
(* src/globalmem/globalmem.c: the two threads that only wait.              *)
(* wait_function sleeps on a wait queue until globalmem_exit sets          *)
(* wait_queue_flag; wait_function2 sleeps on a completion that every read  *)
(* of the device signals, and globalmem_exit too.  completion_flag tells   *)
(* it which of them it was.                                                *)
(*                                                                         *)
(* A read is what globalmem_read does behind the copy.  globalmem_exit is  *)
(* its two notifications; what it does before and behind them is           *)
(* GlobalmemExit.                                                          *)
(***************************************************************************)
EXTENDS Integers

CONSTANTS
    Apps,       \* the tasks that read /dev/globalmem
    MaxReads    \* bound: how often they read it

ASSUME GlobalmemWaitersAssumption == MaxReads \in Nat

VARIABLES
    exit,               \* where globalmem_exit is
    app,                \* where a task that reads the device is
    wait_queue_flag,
    w1, asleep,         \* where wait_function is, and its task's state
    completion_flag,
    done,               \* data_read_complete.done
    w2,                 \* where wait_function2 is
    reads,              \* how many reads have got to their notification
    completion_count    \* how many reads wait_function2 has reported

vars == <<exit, app, wait_queue_flag, w1, asleep, completion_flag, done, w2,
          reads, completion_count>>

waitqueue == <<wait_queue_flag, w1, asleep>>
completion == <<completion_flag, done, w2, reads, completion_count>>

TypeOK ==
    /\ exit \in {"loaded", "flag", "wake", "flag2", "done", "complete", "rest", "gone"}
    /\ app \in [Apps -> {"closed", "open", "done", "complete"}]
    /\ wait_queue_flag \in {0, 1, 2}
    /\ w1 \in {"prepare", "test", "schedule", "woken", "exited"}
    /\ asleep \in BOOLEAN
    /\ completion_flag \in {0, 1, 2}
    /\ done \in 0 .. reads + 1
    /\ w2 \in {"wait", "test", "count", "clear", "exited"}
    /\ reads \in 0 .. MaxReads
    /\ completion_count \in 0 .. reads + 1

\* init_waitqueue_head, init_completion, and the two threads woken up.
Init ==
    /\ exit = "loaded"
    /\ app = [a \in Apps |-> "closed"]
    /\ wait_queue_flag = 0 /\ w1 = "prepare" /\ asleep = FALSE
    /\ completion_flag = 0 /\ done = 0 /\ w2 = "wait"
    /\ reads = 0 /\ completion_count = 0

\* The threads' code is there.
Present == exit # "gone"
-----------------------------------------------------------------------------
(* globalmem_read's notification. *)

At(a, label) == app' = [app EXCEPT ![a] = label]

Open(a) ==
    /\ app[a] = "closed"
    /\ exit = "loaded"
    /\ At(a, "open")
    /\ UNCHANGED <<exit, waitqueue, completion>>

Release(a) ==
    /\ app[a] = "open"
    /\ At(a, "closed")
    /\ UNCHANGED <<exit, waitqueue, completion>>

ReadFlag(a) ==
    /\ app[a] = "open"
    /\ reads < MaxReads
    /\ reads' = reads + 1
    /\ completion_flag' = 1
    /\ At(a, "done")
    /\ UNCHANGED <<exit, waitqueue, done, w2, completion_count>>

\* Mutant: completion_done asked the wrong way round.
ReadDone_Negated(a) ==
    /\ app[a] = "done"
    /\ At(a, IF done # 0 THEN "complete" ELSE "open")
    /\ UNCHANGED <<exit, waitqueue, completion>>

ReadDone(a) ==
    /\ app[a] = "done"
    /\ At(a, IF done = 0 THEN "complete" ELSE "open")
    /\ UNCHANGED <<exit, waitqueue, completion>>

ReadComplete(a) ==
    /\ app[a] = "complete"
    /\ done' = done + 1
    /\ At(a, "open")
    /\ UNCHANGED <<exit, waitqueue, completion_flag, w2, reads, completion_count>>
-----------------------------------------------------------------------------
(* wait_function.  wait_event_interruptible puts the thread on the queue,  *)
(* tests the condition, and sleeps unless it was woken since.              *)

W1Prepare ==
    /\ Present
    /\ w1 = "prepare"
    /\ w1' = "test"
    /\ asleep' = TRUE
    /\ UNCHANGED <<exit, app, wait_queue_flag, completion>>

\* Mutant: no test between prepare_to_wait and schedule.
W1Test_None ==
    /\ Present
    /\ w1 = "test"
    /\ w1' = "schedule"
    /\ UNCHANGED <<exit, app, wait_queue_flag, asleep, completion>>

W1Test ==
    /\ Present
    /\ w1 = "test"
    /\ w1' = IF wait_queue_flag # 0 THEN "woken" ELSE "schedule"
    /\ asleep' = (wait_queue_flag = 0 /\ asleep)
    /\ UNCHANGED <<exit, app, wait_queue_flag, completion>>

W1Schedule ==
    /\ Present
    /\ w1 = "schedule"
    /\ ~asleep
    /\ w1' = "prepare"
    /\ UNCHANGED <<exit, app, wait_queue_flag, asleep, completion>>

W1Woken ==
    /\ Present
    /\ w1 = "woken"
    /\ IF wait_queue_flag = 2
       THEN w1' = "exited" /\ UNCHANGED wait_queue_flag
       ELSE w1' = "prepare" /\ wait_queue_flag' = 0
    /\ UNCHANGED <<exit, app, asleep, completion>>
-----------------------------------------------------------------------------
(* wait_function2. *)

W2Wait ==
    /\ Present
    /\ w2 = "wait"
    /\ done > 0
    /\ done' = done - 1
    /\ w2' = "test"
    /\ UNCHANGED <<exit, app, waitqueue, completion_flag, reads, completion_count>>

W2Test ==
    /\ Present
    /\ w2 = "test"
    /\ w2' = IF completion_flag = 2 THEN "exited" ELSE "count"
    /\ UNCHANGED <<exit, app, waitqueue, completion_flag, done, reads, completion_count>>

\* Mutant: a report counts twice (as hr_timer_callback's first one does).
W2Count_Twice ==
    /\ Present
    /\ w2 = "count"
    /\ completion_count' = completion_count + 2
    /\ w2' = "clear"
    /\ UNCHANGED <<exit, app, waitqueue, completion_flag, done, reads>>

W2Count ==
    /\ Present
    /\ w2 = "count"
    /\ completion_count' = completion_count + 1
    /\ w2' = "clear"
    /\ UNCHANGED <<exit, app, waitqueue, completion_flag, done, reads>>

\* Whatever completion_flag has become since the test.
W2Clear ==
    /\ Present
    /\ w2 = "clear"
    /\ completion_flag' = 0
    /\ w2' = "wait"
    /\ UNCHANGED <<exit, app, waitqueue, done, reads, completion_count>>
-----------------------------------------------------------------------------
(* globalmem_exit. *)

\* rmmod: the module is unloaded only while no file of it is open.
Rmmod ==
    /\ exit = "loaded"
    /\ \A a \in Apps : app[a] = "closed"
    /\ exit' = "flag"
    /\ UNCHANGED <<app, waitqueue, completion>>

SetWaitFlag ==
    /\ exit = "flag"
    /\ wait_queue_flag' = 2
    /\ exit' = "wake"
    /\ UNCHANGED <<app, w1, asleep, completion>>

WakeUp ==
    /\ exit = "wake"
    /\ asleep' = FALSE
    /\ exit' = "flag2"
    /\ UNCHANGED <<app, wait_queue_flag, w1, completion>>

SetCompletionFlag ==
    /\ exit = "flag2"
    /\ completion_flag' = 2
    /\ exit' = "done"
    /\ UNCHANGED <<app, waitqueue, done, w2, reads, completion_count>>

TestDone ==
    /\ exit = "done"
    /\ exit' = IF done = 0 THEN "complete" ELSE "rest"
    /\ UNCHANGED <<app, waitqueue, completion>>

Complete ==
    /\ exit = "complete"
    /\ done' = done + 1
    /\ exit' = "rest"
    /\ UNCHANGED <<app, waitqueue, completion_flag, w2, reads, completion_count>>

\* The rest of globalmem_exit takes its time (device_destroy, cdev_del), but
\* waits for neither thread.
Unload ==
    /\ exit = "rest"
    /\ exit' = "gone"
    /\ UNCHANGED <<app, waitqueue, completion>>
-----------------------------------------------------------------------------
Read(a) == ReadDone(a) \/ ReadComplete(a)
Waiter1 == W1Prepare \/ W1Test \/ W1Schedule \/ W1Woken
Waiter2 == W2Wait \/ W2Test \/ W2Count \/ W2Clear
Exit == SetWaitFlag \/ WakeUp \/ SetCompletionFlag \/ TestDone \/ Complete \/ Unload

Next ==
    \/ \E a \in Apps : Open(a) \/ Release(a) \/ ReadFlag(a) \/ Read(a)
    \/ Waiter1 \/ Waiter2 \/ Rmmod \/ Exit

Spec == Init /\ [][Next]_vars

\* A call in the kernel and a runnable thread go on; nothing makes a task
\* read or rmmod start.
Fairness ==
    /\ \A a \in Apps : WF_vars(Read(a))
    /\ WF_vars(Waiter1) /\ WF_vars(Waiter2) /\ WF_vars(Exit)

FairSpec == Spec /\ Fairness
-----------------------------------------------------------------------------
(* Properties. *)

\* Asleep, with nobody left to wake it.
Stuck1 == w1 = "schedule" /\ asleep
Stuck2 == w2 = "wait" /\ done = 0

\* globalmem.c:890, "Wakeup wait queue before exit driver": behind the wakeup
\* wait_function does not sleep on.
WaitThreadNotStuck == exit \in {"flag2", "done", "complete", "rest", "gone"} => ~Stuck1

\* Until globalmem_exit signals the completion itself, wait_function2 has not
\* reported more reads than there were, those it is about to report included.
ReportsAreReads ==
    exit \notin {"rest", "gone"} =>
        completion_count + done + (IF w2 \in {"test", "count"} THEN 1 ELSE 0) <= reads

\* A read that is over makes wait_function2 report: between two readers that
\* both look at completion_done no report is lost.
ReadsAreReported ==
    \A a \in Apps : \A n \in 0 .. MaxReads :
        app[a] = "done" /\ completion_count = n
            ~> completion_count > n \/ w2 = "exited" \/ exit = "gone"

\* globalmem.c:894, "Wakeup completion before exit driver": behind it
\* wait_function2 does not wait on either.
CompletionThreadNotStuck == exit = "gone" => ~Stuck2
=============================================================================
