--------------------------- MODULE GlobalmemExit ---------------------------
(***************************************************************************)
(* src/globalmem/globalmem.c: what runs on its own while the module is     *)
(* loaded - two timers, a tasklet, a work item, an interrupt handler and   *)
(* two worker threads - against globalmem_exit, which takes them down one  *)
(* after the other.                                                        *)
(*                                                                         *)
(* What the worker threads do between two looks at kthread_should_stop is  *)
(* GlobalmemThreads; the two threads that globalmem_exit only notifies are *)
(* GlobalmemWaiters.  Of a read of sysfs_value only the interrupt is here. *)
(***************************************************************************)
EXTENDS Integers, FiniteSets

CONSTANTS
    Apps,       \* the tasks that use /dev/globalmem
    Files,      \* its open files
    Shows,      \* the tasks that read /sys/kernel/example_sysfs/sysfs_value
    NoTask,     \* sig_task is NULL
    MaxIrqs     \* bound: how often IRQ 11 is raised

Threads == {"thread", "thread2"}

ASSUME GlobalmemExitAssumption == NoTask \notin Apps /\ MaxIrqs \in Nat

\* The steps of globalmem_exit, in their order.  kthread_stop asks and
\* waits; free_irq and kobject_put close a door and wait for who is inside.
Step == [hrtimer |-> 1, timer |-> 2, kill |-> 3, kfree |-> 4,
         stop |-> 5, join |-> 6, stop2 |-> 7, join2 |-> 8,
         list |-> 9, free_irq |-> 10, sync_irq |-> 11,
         kobject |-> 12, drain |-> 13, remove |-> 14]
Gone == 15

VARIABLES
    exit,       \* the step of globalmem_exit, 0 before it, Gone behind it
    hrtimer,    \* globalmem_hr_timer
    timer,      \* globalmem_timer
    tasklet,    \* the state bits of *tasklet
    work,       \* the state bits of workqueue
    nodes,      \* how many nodes hang on head_node
    kthread,    \* globalmem_thread and globalmem_thread2
    irqs,       \* how often IRQ 11 has been raised
    show,       \* where a sysfs_show and the handler that it raises are
    holders,    \* the tasks that have a descriptor of a file, none if it is not open
    closing,    \* the files whose release has found its task to be sig_task
    sig_task,   \* the task that irq_handler signals
    orphaned,   \* sig_task has lost a file, since it registered, to no release
                \* of its own
    misuse      \* what the code used when it must not

vars == <<exit, hrtimer, timer, tasklet, work, nodes, kthread, irqs, show,
          holders, closing, sig_task, orphaned, misuse>>

timers == <<hrtimer, timer>>
bottom == <<tasklet, work, nodes>>
fds == <<holders, closing, orphaned>>
users == <<irqs, show, fds, sig_task>>

TypeOK ==
    /\ exit \in 0 .. Gone
    /\ hrtimer \in {"queued", "running", "cancelled"}
    /\ timer \in {"idle", "pending", "running"}
    /\ tasklet \subseteq {"SCHED", "RUN"}
    /\ work \subseteq {"PENDING", "RUN"}
    /\ nodes \in 0 .. MaxIrqs
    /\ kthread \in [Threads -> {"run", "stop", "exited"}]
    /\ irqs \in 0 .. MaxIrqs
    /\ show \in [Shows -> {"idle", "int", "work", "tasklet", "test", "send", "ret"}]
    /\ holders \in [Files -> SUBSET Apps]
    /\ closing \subseteq Files
    /\ sig_task \in Apps \cup {NoTask}
    /\ orphaned \in BOOLEAN
    /\ misuse \subseteq {"tasklet", "timer", "list", "sig_task", "text"}

At(step) == exit = Step[step]
Past(step) == exit > Step[step]
Advance == exit' = exit + 1
Misused(what, wrong) == misuse' = IF wrong THEN misuse \cup {what} ELSE misuse

AllClosed == \A f \in Files : holders[f] = {}

\* The module's code and data are there.
Present == exit < Gone

Init ==
    /\ exit = 0
    /\ hrtimer = "queued"
    /\ timer = "pending"
    /\ tasklet = {}
    /\ work = {}
    /\ nodes = 0
    /\ kthread = [k \in Threads |-> "run"]
    /\ irqs = 0
    /\ show = [s \in Shows |-> "idle"]
    /\ holders = [f \in Files |-> {}] /\ closing = {} /\ orphaned = FALSE
    /\ sig_task = NoTask
    /\ misuse = {}
-----------------------------------------------------------------------------
(* The timers. *)

HrtimerFire ==
    /\ hrtimer = "queued"
    /\ hrtimer' = "running"
    /\ UNCHANGED <<exit, timer, bottom, kthread, users, misuse>>

\* hr_timer_callback returns HRTIMER_RESTART.
HrtimerCallback ==
    /\ hrtimer = "running"
    /\ hrtimer' = "queued"
    /\ UNCHANGED <<exit, timer, bottom, kthread, users, misuse>>

TimerFire ==
    /\ Present
    /\ timer = "pending"
    /\ timer' = "running"
    /\ UNCHANGED <<exit, hrtimer, bottom, kthread, users, misuse>>

\* timer_callback ends with mod_timer.
TimerCallback ==
    /\ Present
    /\ timer = "running"
    /\ timer' = "pending"
    /\ UNCHANGED <<exit, hrtimer, bottom, kthread, users, misuse>>
-----------------------------------------------------------------------------
(* sysfs_show raises IRQ 11; irq_handler runs on the CPU of the caller.    *)

GoOn(s, label) == show' = [show EXCEPT ![s] = label]

\* The kernel lets readers of the attribute in until kobject_put.
Show(s) ==
    /\ show[s] = "idle"
    /\ exit <= Step.kobject
    /\ irqs < MaxIrqs
    /\ irqs' = irqs + 1
    /\ GoOn(s, "int")
    /\ UNCHANGED <<exit, timers, bottom, kthread, fds, sig_task, misuse>>

\* int $0x3B: the handler is entered if it is registered.
Interrupt(s) ==
    /\ show[s] = "int"
    /\ GoOn(s, IF Past("free_irq") THEN "ret" ELSE "work")
    /\ UNCHANGED <<exit, timers, bottom, kthread, irqs, fds, sig_task, misuse>>

ScheduleWork(s) ==
    /\ show[s] = "work"
    /\ work' = work \cup {"PENDING"}
    /\ Misused("list", Past("list"))
    /\ GoOn(s, "tasklet")
    /\ UNCHANGED <<exit, timers, tasklet, nodes, kthread, irqs, fds, sig_task>>

\* Behind tasklet_kill the tasklet must not be scheduled, behind kfree it is
\* not even there.
ScheduleTasklet(s) ==
    /\ show[s] = "tasklet"
    /\ tasklet' = IF Past("kfree") THEN tasklet ELSE tasklet \cup {"SCHED"}
    /\ Misused("tasklet", Past("kill"))
    /\ GoOn(s, "test")
    /\ UNCHANGED <<exit, timers, work, nodes, kthread, irqs, fds, sig_task>>

TestSigTask(s) ==
    /\ show[s] = "test"
    /\ GoOn(s, IF sig_task # NoTask THEN "send" ELSE "ret")
    /\ UNCHANGED <<exit, timers, bottom, kthread, irqs, fds, sig_task, misuse>>

\* send_sig_info reads sig_task again.
SendSignal(s) ==
    /\ show[s] = "send"
    /\ Misused("sig_task", sig_task = NoTask)
    /\ GoOn(s, "ret")
    /\ UNCHANGED <<exit, timers, bottom, kthread, irqs, fds, sig_task>>

ShowReturn(s) ==
    /\ show[s] = "ret"
    /\ GoOn(s, "idle")
    /\ UNCHANGED <<exit, timers, bottom, kthread, irqs, fds, sig_task, misuse>>

InHandler(s) == show[s] \in {"work", "tasklet", "test", "send"}
-----------------------------------------------------------------------------
(* The bottom halves, neither of which runs on two CPUs at a time, and the *)
(* tasks that use the device.                                              *)

TaskletRun ==
    /\ Present
    /\ tasklet = {"SCHED"}
    /\ tasklet' = {"RUN"}
    /\ UNCHANGED <<exit, timers, work, nodes, kthread, users, misuse>>

TaskletDone ==
    /\ Present
    /\ "RUN" \in tasklet
    /\ tasklet' = tasklet \ {"RUN"}
    /\ UNCHANGED <<exit, timers, work, nodes, kthread, users, misuse>>

WorkRun ==
    /\ Present
    /\ work = {"PENDING"}
    /\ work' = {"RUN"}
    /\ UNCHANGED <<exit, timers, tasklet, nodes, kthread, users, misuse>>

\* workqueue_fn appends a node and walks the list.
WorkDone ==
    /\ Present
    /\ "RUN" \in work
    /\ work' = work \ {"RUN"}
    /\ nodes' = nodes + 1
    /\ UNCHANGED <<exit, timers, tasklet, kthread, users, misuse>>


\* A worker thread sees kthread_should_stop.
ThreadExit(k) ==
    /\ kthread[k] = "stop"
    /\ kthread' = [kthread EXCEPT ![k] = "exited"]
    /\ UNCHANGED <<exit, timers, bottom, users, misuse>>

Open(a, f) ==
    /\ exit = 0
    /\ holders[f] = {}
    /\ holders' = [holders EXCEPT ![f] = {a}]
    /\ UNCHANGED <<exit, timers, bottom, kthread, irqs, show, closing, sig_task, orphaned, misuse>>

\* The ways to share a file: fork, a thread, a message with the descriptor.
Share(a, b, f) ==
    /\ f \notin closing /\ a \in holders[f] /\ b \notin holders[f]
    /\ holders' = [holders EXCEPT ![f] = @ \cup {b}]
    /\ UNCHANGED <<exit, timers, bottom, kthread, irqs, show, closing, sig_task, orphaned, misuse>>

\* Closing takes the descriptor from the task and those that share its table,
\* T; while others have the file nothing of the driver runs.
Drop(a, f, T) ==
    /\ f \notin closing /\ a \in T /\ T \subseteq holders[f] /\ T # holders[f]
    /\ holders' = [holders EXCEPT ![f] = @ \ T]
    /\ orphaned' = (orphaned \/ sig_task \in T)
    /\ UNCHANGED <<exit, timers, bottom, kthread, irqs, show, closing, sig_task, misuse>>

\* globalmem_release in the task that closes the last one and is not sig_task.
Release(a, f) ==
    /\ f \notin closing /\ a \in holders[f]
    /\ sig_task # a
    /\ holders' = [holders EXCEPT ![f] = {}]
    /\ orphaned' = (orphaned \/ sig_task \in holders[f])
    /\ UNCHANGED <<exit, timers, bottom, kthread, irqs, show, closing, sig_task, misuse>>

\* globalmem_release in the task that is: the test ...
ReleaseTest(a, f) ==
    /\ f \notin closing /\ a \in holders[f]
    /\ sig_task = a
    /\ holders' = [holders EXCEPT ![f] = {a}]
    /\ closing' = closing \cup {f}
    /\ UNCHANGED <<exit, timers, bottom, kthread, irqs, show, sig_task, orphaned, misuse>>

\* Mutant: globalmem_release leaves sig_task alone.
ReleaseClear_KeepsTask(f) ==
    /\ f \in closing
    /\ holders' = [holders EXCEPT ![f] = {}]
    /\ closing' = closing \ {f}
    /\ UNCHANGED <<exit, timers, bottom, kthread, irqs, show, sig_task, orphaned, misuse>>

\* ... and the assignment, whoever is sig_task by now.
ReleaseClear(f) ==
    /\ f \in closing
    /\ sig_task' = NoTask
    /\ orphaned' = FALSE
    /\ holders' = [holders EXCEPT ![f] = {}]
    /\ closing' = closing \ {f}
    /\ UNCHANGED <<exit, timers, bottom, kthread, irqs, show, misuse>>

\* The ioctl REG_CURRENT_TASK.
Register(a, f) ==
    /\ f \notin closing /\ a \in holders[f]
    /\ sig_task' = a
    /\ orphaned' = FALSE
    /\ UNCHANGED <<exit, timers, bottom, kthread, irqs, show, holders, closing, misuse>>
-----------------------------------------------------------------------------
(* globalmem_exit. *)

\* rmmod: the module is unloaded only while no file of it is open.
Rmmod ==
    /\ exit = 0
    /\ AllClosed
    /\ Advance
    /\ UNCHANGED <<timers, bottom, kthread, users, misuse>>

\* hrtimer_cancel waits for a running callback.
CancelHrtimer ==
    /\ At("hrtimer")
    /\ hrtimer # "running"
    /\ hrtimer' = "cancelled"
    /\ Advance
    /\ UNCHANGED <<timer, bottom, kthread, users, misuse>>

\* del_timer does not: a running callback arms the timer again.
DelTimer ==
    /\ At("timer")
    /\ timer' = IF timer = "pending" THEN "idle" ELSE timer
    /\ Misused("timer", timer = "running")
    /\ Advance
    /\ UNCHANGED <<hrtimer, bottom, kthread, users>>

\* Mutant: the tasklet is freed without tasklet_kill.
KillTasklet_None ==
    /\ At("kill")
    /\ Advance
    /\ UNCHANGED <<timers, bottom, kthread, users, misuse>>

\* tasklet_kill waits until the tasklet is neither queued nor running.
KillTasklet ==
    /\ At("kill")
    /\ tasklet = {}
    /\ Advance
    /\ UNCHANGED <<timers, bottom, kthread, users, misuse>>

\* kfree(tasklet), which an interrupt may have queued again.
FreeTasklet ==
    /\ At("kfree")
    /\ Advance
    /\ UNCHANGED <<timers, bottom, kthread, users, misuse>>

\* kthread_stop, twice: ask, and wait for the thread to end.
StopThread(k) ==
    /\ At(IF k = "thread" THEN "stop" ELSE "stop2")
    /\ kthread' = [kthread EXCEPT ![k] = "stop"]
    /\ Advance
    /\ UNCHANGED <<timers, bottom, users, misuse>>

\* Mutant: the thread is asked to stop and not waited for.
JoinThread_None(k) ==
    /\ At(IF k = "thread" THEN "join" ELSE "join2")
    /\ Advance
    /\ UNCHANGED <<timers, bottom, kthread, users, misuse>>

JoinThread(k) ==
    /\ At(IF k = "thread" THEN "join" ELSE "join2")
    /\ kthread[k] = "exited"
    /\ Advance
    /\ UNCHANGED <<timers, bottom, kthread, users, misuse>>

\* The loop over head_node takes no lock against workqueue_fn, which may be
\* appending to it, or yet to run: nothing flushes the work.
FreeList ==
    /\ At("list")
    /\ nodes' = 0
    /\ Misused("list", work # {})
    /\ Advance
    /\ UNCHANGED <<timers, tasklet, work, kthread, users>>

\* free_irq takes the handler off the line (from here Past("free_irq")) ...
FreeIrq ==
    /\ At("free_irq")
    /\ Advance
    /\ UNCHANGED <<timers, bottom, kthread, users, misuse>>

\* ... and waits for the handlers that are still running.
SyncIrq ==
    /\ At("sync_irq")
    /\ \A s \in Shows : ~InHandler(s)
    /\ Advance
    /\ UNCHANGED <<timers, bottom, kthread, users, misuse>>

\* kobject_put removes the attribute, and waits for its readers.
PutKobject ==
    /\ At("kobject") \/ At("drain")
    /\ At("drain") => \A s \in Shows : show[s] = "idle"
    /\ Advance
    /\ UNCHANGED <<timers, bottom, kthread, users, misuse>>

\* Notifying the waiters (GlobalmemWaiters), removing the device, and the
\* end of the module's code and data.
Remove ==
    /\ At("remove")
    /\ Advance
    /\ UNCHANGED <<timers, bottom, kthread, users, misuse>>

\* Whatever of the module would still run finds its code gone.
Stray ==
    /\ exit = Gone
    /\ timer # "idle" \/ tasklet # {} \/ work # {}
    /\ misuse' = misuse \cup {"text"}
    /\ UNCHANGED <<exit, timers, bottom, kthread, users>>
-----------------------------------------------------------------------------
Handler(s) ==
    \/ Interrupt(s) \/ ScheduleWork(s) \/ ScheduleTasklet(s) \/ TestSigTask(s)
    \/ SendSignal(s) \/ ShowReturn(s)

Close(a, f) ==
    \/ \E T \in SUBSET holders[f] : Drop(a, f, T)
    \/ Release(a, f) \/ ReleaseTest(a, f)

Use(a, f) ==
    \/ Open(a, f) \/ Close(a, f) \/ Register(a, f)
    \/ \E b \in Apps : Share(a, b, f)

Exit ==
    \/ CancelHrtimer \/ DelTimer \/ KillTasklet \/ FreeTasklet \/ FreeList
    \/ FreeIrq \/ SyncIrq \/ PutKobject \/ Remove
    \/ \E k \in Threads : StopThread(k) \/ JoinThread(k)

Next ==
    \/ HrtimerFire \/ HrtimerCallback \/ TimerFire \/ TimerCallback
    \/ \E s \in Shows : Show(s) \/ Handler(s)
    \/ TaskletRun \/ TaskletDone \/ WorkRun \/ WorkDone
    \/ \E k \in Threads : ThreadExit(k)
    \/ \E f \in Files : ReleaseClear(f) \/ \E a \in Apps : Use(a, f)
    \/ Rmmod \/ Exit \/ Stray

Spec == Init /\ [][Next]_vars

\* Whatever runs in the kernel goes on running; the hrtimer's callback takes
\* microseconds of its five seconds, so that hrtimer_cancel finds it idle.
\* Nothing makes a task read, rmmod start or a timer expire.
Fairness ==
    /\ WF_vars(HrtimerCallback)
    /\ \A s \in Shows : WF_vars(Handler(s))
    /\ WF_vars(TaskletRun \/ TaskletDone)
    /\ \A k \in Threads : WF_vars(ThreadExit(k))
    /\ WF_vars(Exit) /\ SF_vars(CancelHrtimer)

FairSpec == Spec /\ Fairness
-----------------------------------------------------------------------------
(* Properties. *)

\* Behind globalmem_exit no hrtimer callback, worker thread, interrupt
\* handler, sysfs reader or open file is left to run the module's code.
QuietAfterExit ==
    exit = Gone =>
        /\ hrtimer = "cancelled"
        /\ \A k \in Threads : kthread[k] = "exited"
        /\ \A s \in Shows : show[s] = "idle"
        /\ AllClosed

\* No interrupt handler runs behind free_irq, on any CPU.
IrqQuiet == Past("sync_irq") => \A s \in Shows : ~InHandler(s)

\* What globalmem_exit has taken down stays down, with one exception each: the
\* freed tasklet is neither queued nor running, unless an interrupt came between
\* tasklet_kill and free_irq; the timer is dead, unless del_timer met its
\* callback; the list is empty and nobody is about to append to it, unless work
\* was pending or running when it was freed, or an interrupt came before
\* free_irq.
StaysDown ==
    /\ Past("kfree") /\ "tasklet" \notin misuse => tasklet = {}
    /\ Past("timer") /\ "timer" \notin misuse => timer = "idle"
    /\ Past("list") /\ "list" \notin misuse => nodes = 0 /\ work = {}

\* irq_handler signals no task that has closed the device, however opening,
\* sharing, registering and closing interleave, but for one way: the file was
\* shared, and globalmem_release compared sig_task with another task.
SignalsOpenFile ==
    sig_task # NoTask /\ ~orphaned => \E f \in Files : sig_task \in holders[f]

=============================================================================
