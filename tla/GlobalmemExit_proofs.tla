------------------------- MODULE GlobalmemExit_proofs -------------------------
(***************************************************************************)
(* Proofs about GlobalmemExit for every set of tasks and of readers of the *)
(* attribute and every number of interrupts: what the order of the steps   *)
(* of globalmem_exit does guarantee.                                       *)
(***************************************************************************)
EXTENDS GlobalmemExit, FiniteSetTheorems, TLAPS

\* The readers whose interrupt has not scheduled the work yet.
Raising == {s \in Shows : show[s] \in {"int", "work"}}

\* The runs of workqueue_fn that are still to come to their end.
Working == (IF "PENDING" \in work THEN 1 ELSE 0) + (IF "RUN" \in work THEN 1 ELSE 0)

\* Types that need nothing but themselves: TypeOK with no bound on nodes.
Types ==
    /\ exit \in 0 .. Gone
    /\ hrtimer \in {"queued", "running", "cancelled"}
    /\ timer \in {"idle", "pending", "running"}
    /\ tasklet \subseteq {"SCHED", "RUN"}
    /\ work \subseteq {"PENDING", "RUN"}
    /\ nodes \in Nat
    /\ kthread \in [Threads -> {"run", "stop", "exited"}]
    /\ irqs \in 0 .. MaxIrqs
    /\ show \in [Shows -> {"idle", "int", "work", "tasklet", "test", "send", "ret"}]
    /\ holders \in [Files -> SUBSET Apps]
    /\ closing \subseteq Files
    /\ orphaned \in BOOLEAN
    /\ sig_task \in Apps \cup {NoTask}
    /\ misuse \subseteq {"tasklet", "timer", "list", "sig_task", "text"}

\* One interrupt, one node at most: the work is scheduled once at a time.
NodesInv ==
    /\ IsFiniteSet(Raising)
    /\ nodes + Working + Cardinality(Raising) <= irqs

\* Only a task that has the device open registers and it is forgotten when its
\* own close is the last one; rmmod waits until all files are closed.
FilesInv ==
    /\ SignalsOpenFile
    /\ exit > 0 => AllClosed

\* What a step of globalmem_exit has waited for does not come back.
HrtimerInv == Past("hrtimer") => hrtimer = "cancelled"
TaskletInv == Past("kill") /\ "tasklet" \notin misuse => tasklet = {}
TimerInv == Past("timer") /\ "timer" \notin misuse => timer = "idle"
ListInv == Past("list") /\ "list" \notin misuse => nodes = 0 /\ work = {}
ThreadsInv ==
    /\ Past("join") => kthread["thread"] = "exited"
    /\ Past("join2") => kthread["thread2"] = "exited"
ShowsInv ==
    /\ IrqQuiet
    /\ Past("drain") => \A s \in Shows : show[s] = "idle"

IInv ==
    Types /\ NodesInv /\ FilesInv /\ HrtimerInv /\ TaskletInv /\ TimerInv /\ ListInv
        /\ ThreadsInv /\ ShowsInv
-----------------------------------------------------------------------------
\* The steps in numbers.
LEMMA StepNumbers ==
    /\ Step.hrtimer = 1 /\ Step.timer = 2 /\ Step.kill = 3 /\ Step.kfree = 4
    /\ Step.stop = 5 /\ Step.join = 6 /\ Step.stop2 = 7 /\ Step.join2 = 8
    /\ Step.list = 9 /\ Step.free_irq = 10 /\ Step.sync_irq = 11
    /\ Step.kobject = 12 /\ Step.drain = 13 /\ Step.remove = 14
    /\ Step["hrtimer"] = 1 /\ Step["timer"] = 2 /\ Step["kill"] = 3 /\ Step["kfree"] = 4
    /\ Step["stop"] = 5 /\ Step["join"] = 6 /\ Step["stop2"] = 7 /\ Step["join2"] = 8
    /\ Step["list"] = 9 /\ Step["free_irq"] = 10 /\ Step["sync_irq"] = 11
    /\ Step["kobject"] = 12 /\ Step["drain"] = 13 /\ Step["remove"] = 14
  BY DEF Step

\* The steps of globalmem_exit, and those that are none.
Timers == HrtimerFire \/ HrtimerCallback \/ TimerFire \/ TimerCallback
Bottoms == TaskletRun \/ TaskletDone \/ WorkRun \/ WorkDone
FileStep(f) == ReleaseClear(f) \/ \E a \in Apps : Use(a, f)
Shown(s) == Show(s) \/ Handler(s)

\* globalmem_exit goes one step on, and is through behind the last one.
LEMMA ExitStep ==
    ASSUME NEW step \in DOMAIN Step, At(step), Advance
    PROVE  exit' \in 0 .. Gone
  BY StepNumbers DEF At, Advance, Gone, Step

\* Every step keeps the types.
LEMMA NextTypes == Types /\ [Next]_vars => Types'
<1> SUFFICES ASSUME Types, [Next]_vars PROVE Types'
  OBVIOUS
<1> USE GlobalmemExitAssumption DEF Types, timers, bottom, fds, users
<1>1. CASE Timers
  BY <1>1 DEF Timers, HrtimerFire, HrtimerCallback, TimerFire, TimerCallback
<1>2. CASE Bottoms
  <2>1. tasklet' \subseteq {"SCHED", "RUN"} /\ work' \subseteq {"PENDING", "RUN"}
    BY <1>2 DEF Bottoms, TaskletRun, TaskletDone, WorkRun, WorkDone
  <2>2. nodes' \in Nat
    BY <1>2 DEF Bottoms, TaskletRun, TaskletDone, WorkRun, WorkDone
  <2> QED
    BY <1>2, <2>1, <2>2 DEF Bottoms, TaskletRun, TaskletDone, WorkRun, WorkDone
<1>3. ASSUME NEW f \in Files, FileStep(f) PROVE Types'
  <2>1. orphaned' \in BOOLEAN
    BY <1>3, Zenon
    DEF FileStep, Use, Open, Share, Close, Drop, Release, ReleaseTest, ReleaseClear, Register
  <2>2. holders' \in [Files -> SUBSET Apps] /\ closing' \subseteq Files
    BY <1>3
    DEF FileStep, Use, Open, Share, Close, Drop, Release, ReleaseTest, ReleaseClear, Register
  <2>3. /\ sig_task' \in Apps \cup {NoTask}
        /\ UNCHANGED <<exit, timers, bottom, kthread, irqs, show, misuse>>
    BY <1>3
    DEF FileStep, Use, Open, Share, Close, Drop, Release, ReleaseTest, ReleaseClear, Register
  <2> QED
    BY <2>1, <2>2, <2>3
<1>4. ASSUME NEW s \in Shows, Show(s) PROVE Types'
  BY <1>4 DEF Show, GoOn
<1>5. ASSUME NEW s \in Shows, Handler(s) PROVE Types'
  BY <1>5 DEF Handler, Interrupt, ScheduleWork, ScheduleTasklet, TestSigTask,
     SendSignal, ShowReturn, GoOn, Misused
<1>6. ASSUME NEW k \in Threads, ThreadExit(k) PROVE Types'
  BY <1>6 DEF ThreadExit
<1>7. CASE Rmmod
  BY <1>7 DEF Rmmod, Advance, Gone
<1>8. ASSUME NEW k \in Threads, StopThread(k) \/ JoinThread(k) PROVE Types'
  <2>1. exit' \in 0 .. Gone
    BY <1>8, ExitStep, Zenon DEF StopThread, JoinThread, Step
  <2>2. kthread' \in [Threads -> {"run", "stop", "exited"}]
    BY <1>8 DEF StopThread, JoinThread
  <2> QED
    BY <1>8, <2>1, <2>2 DEF StopThread, JoinThread
<1>9. CASE CancelHrtimer \/ DelTimer \/ KillTasklet \/ FreeTasklet
  <2>1. exit' \in 0 .. Gone
    BY <1>9, ExitStep, Zenon DEF CancelHrtimer, DelTimer, KillTasklet, FreeTasklet, Step
  <2>2. misuse' \subseteq {"tasklet", "timer", "list", "sig_task", "text"}
    BY <1>9 DEF CancelHrtimer, DelTimer, KillTasklet, FreeTasklet, Misused
  <2>3. /\ hrtimer' \in {"queued", "running", "cancelled"}
        /\ timer' \in {"idle", "pending", "running"}
    BY <1>9 DEF CancelHrtimer, DelTimer, KillTasklet, FreeTasklet
  <2>4. UNCHANGED <<tasklet, work, nodes, kthread, irqs, show, fds, sig_task>>
    BY <1>9 DEF CancelHrtimer, DelTimer, KillTasklet, FreeTasklet
  <2> QED
    BY <2>1, <2>2, <2>3, <2>4
<1>10. CASE FreeList \/ FreeIrq \/ SyncIrq \/ PutKobject \/ Remove
  <2>1. exit' \in 0 .. Gone
    BY <1>10, ExitStep, Zenon DEF FreeList, FreeIrq, SyncIrq, PutKobject, Remove, Step
  <2>2. misuse' \subseteq {"tasklet", "timer", "list", "sig_task", "text"}
    BY <1>10 DEF FreeList, FreeIrq, SyncIrq, PutKobject, Remove, Misused
  <2>3. nodes' \in Nat
    BY <1>10 DEF FreeList, FreeIrq, SyncIrq, PutKobject, Remove
  <2>4. UNCHANGED <<hrtimer, timer, tasklet, work, kthread, irqs, show, fds, sig_task>>
    BY <1>10 DEF FreeList, FreeIrq, SyncIrq, PutKobject, Remove
  <2> QED
    BY <2>1, <2>2, <2>3, <2>4
<1>11. CASE Stray
  BY <1>11 DEF Stray
<1>12. CASE UNCHANGED vars
  BY <1>12 DEF vars
<1> QED
  BY <1>1, <1>2, <1>3, <1>4, <1>5, <1>6, <1>7, <1>8, <1>9, <1>10, <1>11, <1>12
  DEF Next, Exit, Timers, Bottoms, FileStep
-----------------------------------------------------------------------------
(* The open files and the task to be signalled. *)

\* Every step keeps FilesInv: globalmem_release forgets the task it closes.
LEMMA NextFiles ==
    ASSUME Types, FilesInv, [Next]_vars
    PROVE  FilesInv'
<1> USE DEF FilesInv, SignalsOpenFile, AllClosed, timers, bottom, fds, users
<1>1. CASE Timers \/ Bottoms
  BY <1>1 DEF Timers, HrtimerFire, HrtimerCallback, TimerFire, TimerCallback,
     Bottoms, TaskletRun, TaskletDone, WorkRun, WorkDone
<1>2. ASSUME NEW f \in Files, FileStep(f) PROVE FilesInv'
  <2> USE GlobalmemExitAssumption DEF Types
  <2>1. ASSUME NEW a \in Apps, Open(a, f) \/ Register(a, f) PROVE FilesInv'
    BY <2>1 DEF Open, Register
  <2>2. ASSUME NEW a \in Apps, NEW b \in Apps, Share(a, b, f) PROVE FilesInv'
    BY <2>2 DEF Share
  <2>3. ASSUME NEW a \in Apps, NEW T \in SUBSET holders[f], Drop(a, f, T) PROVE FilesInv'
    BY <2>3 DEF Drop
  <2>4. ASSUME NEW a \in Apps, Release(a, f) \/ ReleaseTest(a, f) PROVE FilesInv'
    <3>1. exit' = 0 /\ sig_task' = sig_task
      BY <2>4 DEF Release, ReleaseTest
    <3>2. CASE Release(a, f)
      <4>1. holders' = [holders EXCEPT ![f] = {}]
        BY <3>2 DEF Release
      <4>2. ~orphaned' => ~orphaned /\ sig_task \notin holders[f]
        BY <3>2, Zenon DEF Release
      <4> QED
        BY <3>1, <4>1, <4>2
    <3>3. CASE ReleaseTest(a, f)
      BY <3>1, <3>3 DEF ReleaseTest
    <3> QED
      BY <2>4, <3>2, <3>3
  <2>5. CASE ReleaseClear(f)
    BY <2>5 DEF ReleaseClear
  <2> QED
    BY <1>2, <2>1, <2>2, <2>3, <2>4, <2>5 DEF FileStep, Use, Close
<1>3. ASSUME NEW s \in Shows, Shown(s) PROVE FilesInv'
  BY <1>3 DEF Shown, Show, Handler, Interrupt, ScheduleWork, ScheduleTasklet,
     TestSigTask, SendSignal, ShowReturn
<1>4. ASSUME NEW k \in Threads, ThreadExit(k) \/ StopThread(k) \/ JoinThread(k)
      PROVE  FilesInv'
  BY <1>4, StepNumbers DEF ThreadExit, StopThread, JoinThread, At, Types
<1>5. CASE Rmmod
  BY <1>5 DEF Rmmod
<1>6. CASE CancelHrtimer \/ DelTimer \/ KillTasklet \/ FreeTasklet \/ FreeList
  BY <1>6, StepNumbers DEF CancelHrtimer, DelTimer, KillTasklet, FreeTasklet, FreeList, At
<1>7. CASE FreeIrq \/ SyncIrq \/ PutKobject \/ Remove
  BY <1>7, StepNumbers DEF FreeIrq, SyncIrq, PutKobject, Remove, At
<1>8. CASE Stray \/ UNCHANGED vars
  BY <1>8 DEF Stray, vars
<1> QED
  BY <1>1, <1>2, <1>3, <1>4, <1>5, <1>6, <1>7, <1>8
  DEF Next, Exit, Timers, Bottoms, FileStep, Shown
-----------------------------------------------------------------------------
(* What globalmem_exit has waited for. *)

\* The hrtimer stays cancelled behind hrtimer_cancel.
LEMMA NextHrtimer ==
    ASSUME Types, HrtimerInv, [Next]_vars
    PROVE  HrtimerInv'
<1> USE StepNumbers DEF HrtimerInv, Past, At, timers, bottom, fds, users
<1>1. CASE Timers \/ Bottoms
  BY <1>1 DEF Timers, HrtimerFire, HrtimerCallback, TimerFire, TimerCallback,
     Bottoms, TaskletRun, TaskletDone, WorkRun, WorkDone
<1>2. ASSUME NEW f \in Files, FileStep(f) PROVE HrtimerInv'
  BY <1>2 DEF FileStep, Use, Open, Share, Close, Drop, Release, ReleaseTest, ReleaseClear, Register
<1>3. ASSUME NEW s \in Shows, Shown(s) PROVE HrtimerInv'
  BY <1>3 DEF Shown, Show, Handler, Interrupt, ScheduleWork, ScheduleTasklet,
     TestSigTask, SendSignal, ShowReturn
<1>4. ASSUME NEW k \in Threads, ThreadExit(k) \/ StopThread(k) \/ JoinThread(k)
      PROVE  HrtimerInv'
  BY <1>4 DEF ThreadExit, StopThread, JoinThread
<1>5. CASE Rmmod
  BY <1>5 DEF Rmmod, Advance
<1>6. CASE CancelHrtimer \/ DelTimer \/ KillTasklet \/ FreeTasklet \/ FreeList
  BY <1>6 DEF CancelHrtimer, DelTimer, KillTasklet, FreeTasklet, FreeList
<1>7. CASE FreeIrq \/ SyncIrq \/ PutKobject \/ Remove
  BY <1>7 DEF FreeIrq, SyncIrq, PutKobject, Remove
<1>8. CASE Stray \/ UNCHANGED vars
  BY <1>8 DEF Stray, vars
<1> QED
  BY <1>1, <1>2, <1>3, <1>4, <1>5, <1>6, <1>7, <1>8
  DEF Next, Exit, Timers, Bottoms, FileStep, Shown

\* The tasklet stays quiet behind tasklet_kill but for a recorded interrupt.
LEMMA NextTasklet ==
    ASSUME Types, TaskletInv, [Next]_vars
    PROVE  TaskletInv'
<1> USE StepNumbers DEF TaskletInv, Past, At, timers, bottom, fds, users
<1>1. CASE Timers \/ Bottoms
  BY <1>1 DEF Timers, HrtimerFire, HrtimerCallback, TimerFire, TimerCallback,
     Bottoms, TaskletRun, TaskletDone, WorkRun, WorkDone
<1>2. ASSUME NEW f \in Files, FileStep(f) PROVE TaskletInv'
  BY <1>2 DEF FileStep, Use, Open, Share, Close, Drop, Release, ReleaseTest, ReleaseClear, Register
<1>3. ASSUME NEW s \in Shows, Shown(s) PROVE TaskletInv'
  BY <1>3 DEF Shown, Show, Handler, Interrupt, ScheduleWork, ScheduleTasklet,
     TestSigTask, SendSignal, ShowReturn, Misused
<1>4. ASSUME NEW k \in Threads, ThreadExit(k) \/ StopThread(k) \/ JoinThread(k)
      PROVE  TaskletInv'
  BY <1>4 DEF ThreadExit, StopThread, JoinThread, Advance
<1>5. CASE Rmmod
  BY <1>5 DEF Rmmod, Advance
<1>6. CASE CancelHrtimer \/ DelTimer \/ KillTasklet \/ FreeTasklet \/ FreeList
  BY <1>6 DEF CancelHrtimer, DelTimer, KillTasklet, FreeTasklet, FreeList, Advance, Misused
<1>7. CASE FreeIrq \/ SyncIrq \/ PutKobject \/ Remove
  BY <1>7 DEF FreeIrq, SyncIrq, PutKobject, Remove, Advance
<1>8. CASE Stray \/ UNCHANGED vars
  BY <1>8 DEF Stray, vars
<1> QED
  BY <1>1, <1>2, <1>3, <1>4, <1>5, <1>6, <1>7, <1>8
  DEF Next, Exit, Timers, Bottoms, FileStep, Shown

\* The timer stays deleted behind del_timer but for a recorded callback.
LEMMA NextTimer ==
    ASSUME Types, TimerInv, [Next]_vars
    PROVE  TimerInv'
<1> USE StepNumbers DEF TimerInv, Past, At, timers, bottom, fds, users
<1>1. CASE Timers \/ Bottoms
  BY <1>1 DEF Timers, HrtimerFire, HrtimerCallback, TimerFire, TimerCallback,
     Bottoms, TaskletRun, TaskletDone, WorkRun, WorkDone
<1>2. ASSUME NEW f \in Files, FileStep(f) PROVE TimerInv'
  BY <1>2 DEF FileStep, Use, Open, Share, Close, Drop, Release, ReleaseTest, ReleaseClear, Register
<1>3. ASSUME NEW s \in Shows, Shown(s) PROVE TimerInv'
  BY <1>3 DEF Shown, Show, Handler, Interrupt, ScheduleWork, ScheduleTasklet,
     TestSigTask, SendSignal, ShowReturn, Misused
<1>4. ASSUME NEW k \in Threads, ThreadExit(k) \/ StopThread(k) \/ JoinThread(k)
      PROVE  TimerInv'
  BY <1>4 DEF ThreadExit, StopThread, JoinThread, Advance
<1>5. CASE Rmmod
  BY <1>5 DEF Rmmod, Advance
<1>6. CASE CancelHrtimer \/ DelTimer \/ KillTasklet \/ FreeTasklet \/ FreeList
  BY <1>6 DEF CancelHrtimer, DelTimer, KillTasklet, FreeTasklet, FreeList, Advance, Misused, Types
<1>7. CASE FreeIrq \/ SyncIrq \/ PutKobject \/ Remove
  BY <1>7 DEF FreeIrq, SyncIrq, PutKobject, Remove, Advance
<1>8. CASE Stray \/ UNCHANGED vars
  BY <1>8 DEF Stray, vars
<1> QED
  BY <1>1, <1>2, <1>3, <1>4, <1>5, <1>6, <1>7, <1>8
  DEF Next, Exit, Timers, Bottoms, FileStep, Shown

\* The list stays empty behind its loop but for recorded work.
LEMMA NextList ==
    ASSUME Types, ListInv, [Next]_vars
    PROVE  ListInv'
<1> USE StepNumbers DEF ListInv, Past, At, timers, bottom, fds, users
<1>1. CASE Timers \/ Bottoms
  BY <1>1 DEF Timers, HrtimerFire, HrtimerCallback, TimerFire, TimerCallback,
     Bottoms, TaskletRun, TaskletDone, WorkRun, WorkDone
<1>2. ASSUME NEW f \in Files, FileStep(f) PROVE ListInv'
  BY <1>2 DEF FileStep, Use, Open, Share, Close, Drop, Release, ReleaseTest, ReleaseClear, Register
<1>3. ASSUME NEW s \in Shows, Shown(s) PROVE ListInv'
  BY <1>3 DEF Shown, Show, Handler, Interrupt, ScheduleWork, ScheduleTasklet,
     TestSigTask, SendSignal, ShowReturn, Misused
<1>4. ASSUME NEW k \in Threads, ThreadExit(k) \/ StopThread(k) \/ JoinThread(k)
      PROVE  ListInv'
  BY <1>4 DEF ThreadExit, StopThread, JoinThread, Advance
<1>5. CASE Rmmod
  BY <1>5 DEF Rmmod, Advance
<1>6. CASE CancelHrtimer \/ DelTimer \/ KillTasklet \/ FreeTasklet \/ FreeList
  BY <1>6 DEF CancelHrtimer, DelTimer, KillTasklet, FreeTasklet, FreeList, Advance, Misused, Types
<1>7. CASE FreeIrq \/ SyncIrq \/ PutKobject \/ Remove
  BY <1>7 DEF FreeIrq, SyncIrq, PutKobject, Remove, Advance
<1>8. CASE Stray \/ UNCHANGED vars
  BY <1>8 DEF Stray, vars
<1> QED
  BY <1>1, <1>2, <1>3, <1>4, <1>5, <1>6, <1>7, <1>8
  DEF Next, Exit, Timers, Bottoms, FileStep, Shown

\* A joined worker thread stays ended.
LEMMA NextThreads ==
    ASSUME Types, ThreadsInv, [Next]_vars
    PROVE  ThreadsInv'
<1> USE StepNumbers DEF ThreadsInv, Past, At, timers, bottom, fds, users
<1>1. CASE Timers \/ Bottoms
  BY <1>1 DEF Timers, HrtimerFire, HrtimerCallback, TimerFire, TimerCallback,
     Bottoms, TaskletRun, TaskletDone, WorkRun, WorkDone
<1>2. ASSUME NEW f \in Files, FileStep(f) PROVE ThreadsInv'
  BY <1>2 DEF FileStep, Use, Open, Share, Close, Drop, Release, ReleaseTest, ReleaseClear, Register
<1>3. ASSUME NEW s \in Shows, Shown(s) PROVE ThreadsInv'
  BY <1>3 DEF Shown, Show, Handler, Interrupt, ScheduleWork, ScheduleTasklet,
     TestSigTask, SendSignal, ShowReturn
<1>4. ASSUME NEW k \in Threads, ThreadExit(k) \/ StopThread(k) \/ JoinThread(k)
      PROVE  ThreadsInv'
  BY <1>4 DEF ThreadExit, StopThread, JoinThread, Advance, Types, Threads
<1>5. CASE Rmmod
  BY <1>5 DEF Rmmod, Advance
<1>6. CASE CancelHrtimer \/ DelTimer \/ KillTasklet \/ FreeTasklet \/ FreeList
  BY <1>6 DEF CancelHrtimer, DelTimer, KillTasklet, FreeTasklet, FreeList, Advance
<1>7. CASE FreeIrq \/ SyncIrq \/ PutKobject \/ Remove
  BY <1>7 DEF FreeIrq, SyncIrq, PutKobject, Remove, Advance
<1>8. CASE Stray \/ UNCHANGED vars
  BY <1>8 DEF Stray, vars
<1> QED
  BY <1>1, <1>2, <1>3, <1>4, <1>5, <1>6, <1>7, <1>8
  DEF Next, Exit, Timers, Bottoms, FileStep, Shown

\* No handler is entered behind free_irq, no reader comes in behind kobject_put.
LEMMA NextShows ==
    ASSUME Types, ShowsInv, [Next]_vars
    PROVE  ShowsInv'
<1> USE StepNumbers DEF ShowsInv, IrqQuiet, InHandler, Past, At, timers, bottom, fds, users
<1>1. CASE Timers \/ Bottoms
  BY <1>1 DEF Timers, HrtimerFire, HrtimerCallback, TimerFire, TimerCallback,
     Bottoms, TaskletRun, TaskletDone, WorkRun, WorkDone
<1>2. ASSUME NEW f \in Files, FileStep(f) PROVE ShowsInv'
  BY <1>2 DEF FileStep, Use, Open, Share, Close, Drop, Release, ReleaseTest, ReleaseClear, Register
<1>3. ASSUME NEW s \in Shows, Shown(s) PROVE ShowsInv'
  BY <1>3 DEF Shown, Show, Handler, Interrupt, ScheduleWork, ScheduleTasklet,
     TestSigTask, SendSignal, ShowReturn, GoOn, Types, Gone
<1>4. ASSUME NEW k \in Threads, ThreadExit(k) \/ StopThread(k) \/ JoinThread(k)
      PROVE  ShowsInv'
  BY <1>4 DEF ThreadExit, StopThread, JoinThread, Advance
<1>5. CASE Rmmod
  BY <1>5 DEF Rmmod, Advance
<1>6. CASE CancelHrtimer \/ DelTimer \/ KillTasklet \/ FreeTasklet \/ FreeList
  BY <1>6 DEF CancelHrtimer, DelTimer, KillTasklet, FreeTasklet, FreeList, Advance
<1>7. CASE FreeIrq \/ SyncIrq \/ PutKobject \/ Remove
  BY <1>7 DEF FreeIrq, SyncIrq, PutKobject, Remove, Advance
<1>8. CASE Stray \/ UNCHANGED vars
  BY <1>8 DEF Stray, vars
<1> QED
  BY <1>1, <1>2, <1>3, <1>4, <1>5, <1>6, <1>7, <1>8
  DEF Next, Exit, Timers, Bottoms, FileStep, Shown
-----------------------------------------------------------------------------
(* The nodes of the list.  An interrupt that is raised brings one, or finds *)
(* the work pending already; each step passes it on.                       *)

\* Every step keeps the balance of interrupts and nodes.
LEMMA NextNodes ==
    ASSUME Types, NodesInv, [Next]_vars
    PROVE  NodesInv'
<1> DEFINE n == Cardinality(Raising)
<1>0. n \in Nat
  BY FS_CardinalityType DEF NodesInv
<1> HIDE DEF n
<1>fix. Raising' = Raising => IsFiniteSet(Raising') /\ Cardinality(Raising') = n
  BY DEF n, NodesInv
<1>same. UNCHANGED show => Raising' = Raising
  BY DEF Raising
<1> USE DEF timers, bottom, fds, users
<1>1. CASE Timers
  BY <1>1, <1>fix, <1>same DEF Timers, HrtimerFire, HrtimerCallback, TimerFire, TimerCallback,
     NodesInv, Working, n
<1>2. CASE Bottoms
  BY <1>2, <1>0, <1>fix, <1>same DEF Bottoms, TaskletRun, TaskletDone, WorkRun, WorkDone,
     NodesInv, Working, Types, n
<1>3. ASSUME NEW f \in Files, FileStep(f) PROVE NodesInv'
  BY <1>3, <1>fix, <1>same
  DEF FileStep, Use, Open, Share, Close, Drop, Release, ReleaseTest, ReleaseClear, Register, NodesInv, Working, n
<1>4. ASSUME NEW s \in Shows, Show(s) PROVE NodesInv'
  <2>1. Raising' = Raising \cup {s} /\ s \notin Raising
    BY <1>4 DEF Show, GoOn, Raising, Types
  <2>2. IsFiniteSet(Raising') /\ Cardinality(Raising') = n + 1
    BY <2>1, FS_AddElement DEF NodesInv, n
  <2> QED
    BY <1>4, <1>0, <2>2 DEF Show, NodesInv, Working, Types, n
<1>5. ASSUME NEW s \in Shows, Interrupt(s) PROVE NodesInv'
  <2>1. Raising' = Raising \/ (s \in Raising /\ Raising' = Raising \ {s})
    BY <1>5 DEF Interrupt, GoOn, Raising, Types
  <2>2. IsFiniteSet(Raising') /\ Cardinality(Raising') \in {n, n - 1}
    BY <2>1, <1>fix, FS_RemoveElement DEF NodesInv, n
  <2> QED
    BY <1>5, <1>0, <2>2 DEF Interrupt, NodesInv, Working, Types, n
<1>6. ASSUME NEW s \in Shows, ScheduleWork(s) PROVE NodesInv'
  <2>1. Raising' = Raising \ {s} /\ s \in Raising
    BY <1>6 DEF ScheduleWork, GoOn, Raising, Types
  <2>2. IsFiniteSet(Raising') /\ Cardinality(Raising') = n - 1
    BY <2>1, FS_RemoveElement DEF NodesInv, n
  <2>3. Working' \in {Working, Working + 1}
    BY <1>6 DEF ScheduleWork, Working
  <2>4. Working \in Nat
    BY DEF Working
  <2> QED
    BY <1>6, <1>0, <2>2, <2>3, <2>4 DEF ScheduleWork, NodesInv, Types, n
<1>7. ASSUME NEW s \in Shows,
             ScheduleTasklet(s) \/ TestSigTask(s) \/ SendSignal(s) \/ ShowReturn(s)
      PROVE  NodesInv'
  <2>1. Raising' = Raising
    BY <1>7 DEF ScheduleTasklet, TestSigTask, SendSignal, ShowReturn, GoOn, Raising, Types
  <2> QED
    BY <1>7, <2>1, <1>fix DEF ScheduleTasklet, TestSigTask, SendSignal, ShowReturn,
       NodesInv, Working, n
<1>8. ASSUME NEW k \in Threads, ThreadExit(k) \/ StopThread(k) \/ JoinThread(k)
      PROVE  NodesInv'
  BY <1>8, <1>fix, <1>same DEF ThreadExit, StopThread, JoinThread, NodesInv, Working, n
<1>9. CASE FreeList
  <2>1. Working \in Nat
    BY DEF Working
  <2> QED
    BY <1>9, <1>0, <1>fix, <1>same, <2>1 DEF FreeList, NodesInv, Working, Types, n
<1>10. CASE Rmmod \/ CancelHrtimer \/ DelTimer \/ KillTasklet \/ FreeTasklet
  BY <1>10, <1>fix, <1>same
  DEF Rmmod, CancelHrtimer, DelTimer, KillTasklet, FreeTasklet, NodesInv, Working, n
<1>11. CASE FreeIrq \/ SyncIrq \/ PutKobject \/ Remove
  BY <1>11, <1>fix, <1>same DEF FreeIrq, SyncIrq, PutKobject, Remove, NodesInv, Working, n
<1>12. CASE Stray \/ UNCHANGED vars
  BY <1>12, <1>fix, <1>same DEF Stray, vars, NodesInv, Working, n
<1> QED
  BY <1>1, <1>2, <1>3, <1>4, <1>5, <1>6, <1>7, <1>8, <1>9, <1>10, <1>11, <1>12
  DEF Next, Handler, Exit, Timers, Bottoms, FileStep
-----------------------------------------------------------------------------
\* The initial state satisfies the inductive invariant.
LEMMA InitIInv == Init => IInv
<1> SUFFICES ASSUME Init PROVE IInv
  OBVIOUS
<1>1. Raising = {}
  BY DEF Init, Raising
<1>2. NodesInv
  BY <1>1, FS_EmptySet DEF Init, NodesInv, Working
<1>3. Types
  <2>1. orphaned \in BOOLEAN
    BY Zenon DEF Init
  <2> QED
    BY <2>1, GlobalmemExitAssumption DEF Init, Types, Gone
<1>4. FilesInv /\ HrtimerInv /\ TaskletInv /\ TimerInv /\ ListInv /\ ThreadsInv /\ ShowsInv
  BY StepNumbers DEF Init, FilesInv, SignalsOpenFile, AllClosed, HrtimerInv, TaskletInv, TimerInv, ListInv,
     ThreadsInv, ShowsInv, IrqQuiet, Past
<1> QED
  BY <1>2, <1>3, <1>4 DEF IInv

\* The inductive invariant is one.
LEMMA Inductive == Spec => []IInv
<1>1. IInv /\ [Next]_vars => IInv'
  BY NextTypes, NextNodes, NextFiles, NextHrtimer, NextTasklet, NextTimer, NextList, NextThreads, NextShows
  DEF IInv
<1> QED
  BY InitIInv, <1>1, PTL DEF Spec
-----------------------------------------------------------------------------
\* Every variable keeps its type; the list has no more nodes than there were
\* interrupts.
THEOREM TypeCorrect == Spec => []TypeOK
<1>1. IInv => TypeOK
  <2> SUFFICES ASSUME IInv PROVE TypeOK
    OBVIOUS
  <2>1. Working \in Nat /\ Cardinality(Raising) \in Nat
    BY FS_CardinalityType DEF Working, IInv, NodesInv
  <2>2. nodes \in 0 .. MaxIrqs
    BY <2>1, GlobalmemExitAssumption DEF IInv, NodesInv, Types
  <2> QED
    BY <2>2 DEF IInv, Types, TypeOK
<1> QED
  BY <1>1, Inductive, PTL

\* irq_handler's sig_task is a task that still has the device open, whichever
\* tasks register and close it in which order.
THEOREM SignalTarget == Spec => []SignalsOpenFile
<1>1. IInv => SignalsOpenFile
  BY DEF IInv, FilesInv
<1> QED
  BY <1>1, Inductive, PTL

\* free_irq leaves no handler running on any CPU.
THEOREM HandlersDone == Spec => []IrqQuiet
<1>1. IInv => IrqQuiet
  BY DEF IInv, ShowsInv
<1> QED
  BY <1>1, Inductive, PTL

\* An interrupt behind tasklet_kill is the only way to a freed tasklet that
\* is queued or running; a callback that del_timer met, to a timer that is armed
\* again; and work that nobody has flushed, to a list that is used when freed.
THEOREM TakenDown == Spec => []StaysDown
<1>1. IInv => StaysDown
  BY StepNumbers DEF IInv, Types, TaskletInv, TimerInv, ListInv, StaysDown, Past
<1> QED
  BY <1>1, Inductive, PTL

\* Behind globalmem_exit nothing that it waits for runs the module's code.
THEOREM NothingLeft == Spec => []QuietAfterExit
<1>1. IInv => QuietAfterExit
  BY StepNumbers DEF IInv, FilesInv, HrtimerInv, ThreadsInv, ShowsInv,
     QuietAfterExit, Past, Gone, Threads
<1> QED
  BY <1>1, Inductive, PTL
=============================================================================
