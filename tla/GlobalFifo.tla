----------------------------- MODULE GlobalFifo -----------------------------
(***************************************************************************)
(* src/globalfifo/globalfifo.c: a character device that holds a FIFO of    *)
(* bytes.  A read sleeps until the FIFO is not empty, a write until it is  *)
(* not full, poll waits for either, a write sends SIGIO to the files that  *)
(* asked for it, and the FIFO_CLEAR ioctl empties the FIFO.                *)
(*                                                                         *)
(* Every task runs one of the programs that open the device, through a     *)
(* file of its own.  A step of a task is what its handler does between two *)
(* points where another task can get in between: taking and dropping the   *)
(* mutex, changing the task's state, calling schedule(), touching a wait   *)
(* queue, and the copy to or from user memory, which may fault and sleep.  *)
(* globalfifo_read and globalfifo_write have the same skeleton around a    *)
(* different transfer; the skeleton is written once, over call[t].         *)
(***************************************************************************)
EXTENDS Integers, Sequences, FiniteSets

CONSTANTS
    Tasks,            \* the tasks that use the device
    NoTask,           \* the owner of a free mutex
    Calls,            \* Calls[t]: the system calls that t's program makes
    NonBlocking,      \* the tasks that open the device with O_NONBLOCK
    Signalled,        \* the tasks that other processes send signals to
    GLOBALFIFO_SIZE,  \* 0x1000 in the code
    Byte,             \* the values of a byte
    Zero,             \* the byte that memset leaves
    ReadCounts,       \* the counts that programs pass to read
    Payloads,         \* the byte strings that programs pass to write
    PollEvents,       \* the sets of events that programs poll for
    CopyOrders        \* the orders in which the build's memcpy copies

CallKinds == {"read", "write", "poll", "clear", "fasync"}
Events == {"POLLIN", "POLLOUT"}
Queues == {"r_wait", "w_wait"}

ASSUME GlobalFifoAssumption ==
    /\ NoTask \notin Tasks
    /\ Calls \in [Tasks -> SUBSET CallKinds]
    /\ NonBlocking \subseteq Tasks
    /\ Signalled \subseteq Tasks
    /\ GLOBALFIFO_SIZE \in Nat \ {0}
    /\ Zero \in Byte
    /\ ReadCounts \subseteq Nat
    /\ Payloads \subseteq Seq(Byte)
    /\ PollEvents \subseteq SUBSET Events
    /\ CopyOrders \subseteq {"ascending", "descending"}

EAGAIN == -11
EFAULT == -14
ERESTARTSYS == -512

VARIABLES
    mem,          \* dev->mem
    current_len,  \* dev->current_len
    mutex,        \* the task that holds dev->mutex, or NoTask
    wait,         \* the entries of dev->r_wait and dev->w_wait
    async_queue,  \* the tasks whose file is in dev->async_queue
    state,        \* the scheduler's state of a task
    triggered,    \* the pollers that a wait queue has woken
    sigpending,   \* the tasks with a signal that is not handled yet
    pc,           \* where in its program or in a handler a task is
    call,         \* the system call that a task is in
    cnt,          \* the call's count, clamped by the handler
    ubuf,         \* the user memory that the call reads or fills
    want,         \* the events that a poll call asks for
    ret           \* the value that the call is about to return

vars == <<mem, current_len, mutex, wait, async_queue, state, triggered,
          sigpending, pc, call, cnt, ubuf, want, ret>>

fifo == <<mem, current_len>>                        \* the bytes of the device
task == <<call, cnt, ubuf, want>>                   \* the arguments of a call
sched == <<state, triggered, sigpending>>           \* the scheduler's view

\* Program points.  A task holds the mutex exactly at a Critical point.
Critical == {"check", "unlock", "xfer", "out"}
Points == Critical \cup {"closed", "user", "lock", "sched", "relock", "out2",
                         "poll", "pwait", "last", "ioctl"}

TypeOK ==
    /\ mem \in [0 .. GLOBALFIFO_SIZE - 1 -> Byte]
    /\ current_len \in 0 .. GLOBALFIFO_SIZE
    /\ mutex \in Tasks \cup {NoTask}
    /\ wait \in [Queues -> SUBSET Tasks]
    /\ async_queue \subseteq Tasks
    /\ state \in [Tasks -> {"RUNNING", "INTERRUPTIBLE"}]
    /\ triggered \subseteq Tasks
    /\ sigpending \subseteq Tasks
    /\ pc \in [Tasks -> Points]
    /\ call \in [Tasks -> {"none", "read", "write", "poll", "clear"}]
    /\ cnt \in [Tasks -> Nat]
    /\ ubuf \in [Tasks -> Seq(Byte)]
    /\ want \in [Tasks -> SUBSET Events]
    /\ ret \in [Tasks -> Int]
-----------------------------------------------------------------------------
(* Helpers of the handlers. *)

\* Mutant: everybody sleeps on w_wait.
OwnQueue_WriteQueue(kind) == "w_wait"

\* The wait queue on which a blocking call of this kind sleeps.
OwnQueue(kind) == IF kind = "read" THEN "r_wait" ELSE "w_wait"

\* The condition of the handlers' while loops.
MustWait(kind) ==
    IF kind = "read" THEN current_len = 0 ELSE current_len = GLOBALFIFO_SIZE

\* How many bytes the transfer of a call of this kind may move at most.
Available(kind) ==
    IF kind = "read" THEN current_len ELSE GLOBALFIFO_SIZE - current_len

\* Mutant: the transfer moves what the caller asked for.
Clamp_None(count, limit) == count

Clamp(count, limit) == IF count > limit THEN limit ELSE count

\* What memcpy(mem, mem + n, len - n) leaves at mem[i].  The areas overlap.
\* Copying upwards is a shift; copying downwards reads what it has already
\* written, so that every byte comes from the last n bytes of the FIFO.
AfterMemcpy(n, len, order, i) ==
    IF i >= len - n \/ n = 0 THEN mem[i]
    ELSE IF order = "ascending" THEN mem[i + n]
    ELSE mem[len - n + ((i - (len - n)) % n)]

\* mem after the first n bytes of data went to mem + current_len.
CopiedIn(data, n) ==
    [i \in DOMAIN mem |-> IF i \in current_len .. current_len + n - 1
                          THEN data[i - current_len + 1] ELSE mem[i]]

\* poll's answer: what the FIFO is ready for.
PollMask ==
    {e \in Events : \/ e = "POLLIN"  /\ current_len # 0
                    \/ e = "POLLOUT" /\ current_len # GLOBALFIFO_SIZE}

\* wake_up_interruptible(q): every sleeper of the queue becomes runnable.
\* Entries of r_wait and w_wait are never exclusive.
Woken(q) == {t \in wait[q] : state[t] = "INTERRUPTIBLE"}

\* Mutant: globalfifo_poll forgets poll_wait.
PollersOf_None(q) == {}

PollersOf(q) == {t \in wait[q] : call[t] = "poll"}

MakeRunnable(S) ==
    state' = [t \in Tasks |-> IF t \in S THEN "RUNNING" ELSE state[t]]

\* Mutants: a read wakes nobody, a read wakes the readers.
WakeUp_None(q) == UNCHANGED <<state, triggered>>

WakeUp_Readers(q) ==
    /\ MakeRunnable(Woken("r_wait"))
    /\ triggered' = triggered \cup PollersOf("r_wait")

WakeUp(q) ==
    /\ MakeRunnable(Woken(q))
    /\ triggered' = triggered \cup PollersOf(q)

Goto(t, label) == pc' = [pc EXCEPT ![t] = label]

AcquireMutex(t) == mutex = NoTask /\ mutex' = t
ReleaseMutex(t) == mutex = t /\ mutex' = NoTask
-----------------------------------------------------------------------------
(* What the programs do: main_poll.cpp, main_aio.cpp, cat and echo. *)

Init ==
    /\ mem = [i \in 0 .. GLOBALFIFO_SIZE - 1 |-> Zero]
    /\ current_len = 0
    /\ mutex = NoTask
    /\ wait = [q \in Queues |-> {}]
    /\ async_queue = {}
    /\ state = [t \in Tasks |-> "RUNNING"]
    /\ triggered = {}
    /\ sigpending = {}
    /\ pc = [t \in Tasks |-> "closed"]
    /\ call = [t \in Tasks |-> "none"]
    /\ cnt = [t \in Tasks |-> 0]
    /\ ubuf = [t \in Tasks |-> <<>>]
    /\ want = [t \in Tasks |-> {}]
    /\ ret = [t \in Tasks |-> 0]

Open(t) ==
    /\ pc[t] = "closed"
    /\ Goto(t, "user")
    /\ UNCHANGED <<fifo, mutex, wait, async_queue, sched, task, ret>>

\* close: the last thing globalfifo_release does is to leave async_queue.
Release(t) ==
    /\ pc[t] = "user"
    /\ async_queue' = async_queue \ {t}
    /\ Goto(t, "closed")
    /\ UNCHANGED <<fifo, mutex, wait, sched, task, ret>>

\* fcntl(F_SETFL) turns FASYNC on or off.
Fasync(t) ==
    /\ pc[t] = "user"
    /\ "fasync" \in Calls[t]
    /\ async_queue' \in {async_queue \cup {t}, async_queue \ {t}}
    /\ UNCHANGED <<fifo, mutex, wait, sched, pc, task, ret>>

CallRead(t, n) ==
    /\ pc[t] = "user"
    /\ "read" \in Calls[t]
    /\ Goto(t, "lock")
    /\ call' = [call EXCEPT ![t] = "read"]
    /\ cnt' = [cnt EXCEPT ![t] = n]
    /\ UNCHANGED <<fifo, mutex, wait, async_queue, sched, ubuf, want, ret>>

CallWrite(t, data) ==
    /\ pc[t] = "user"
    /\ "write" \in Calls[t]
    /\ Goto(t, "lock")
    /\ call' = [call EXCEPT ![t] = "write"]
    /\ cnt' = [cnt EXCEPT ![t] = Len(data)]
    /\ ubuf' = [ubuf EXCEPT ![t] = data]
    /\ UNCHANGED <<fifo, mutex, wait, async_queue, sched, want, ret>>

CallPoll(t, events) ==
    /\ pc[t] = "user"
    /\ "poll" \in Calls[t]
    /\ Goto(t, "poll")
    /\ call' = [call EXCEPT ![t] = "poll"]
    /\ want' = [want EXCEPT ![t] = events]
    /\ UNCHANGED <<fifo, mutex, wait, async_queue, sched, cnt, ubuf, ret>>

CallClear(t) ==
    /\ pc[t] = "user"
    /\ "clear" \in Calls[t]
    /\ Goto(t, "ioctl")
    /\ call' = [call EXCEPT ![t] = "clear"]
    /\ UNCHANGED <<fifo, mutex, wait, async_queue, sched, cnt, ubuf, want, ret>>

\* Some other process sends t a signal (Ctrl-C, a timer of its own).
Signal(t) ==
    /\ t \in Signalled
    /\ pc[t] # "closed"
    /\ sigpending' = sigpending \cup {t}
    /\ MakeRunnable({t})
    /\ UNCHANGED <<fifo, mutex, wait, async_queue, triggered, pc, task, ret>>

\* Back in user mode the signal's handler runs.
Deliver(t) ==
    /\ pc[t] = "user"
    /\ t \in sigpending
    /\ sigpending' = sigpending \ {t}
    /\ UNCHANGED <<fifo, mutex, wait, async_queue, state, triggered, pc, task, ret>>
-----------------------------------------------------------------------------
(* The skeleton of globalfifo_read and globalfifo_write. *)

\* Mutant: the state is set before the condition is tested, and left so.
Lock_StateFirst(t) ==
    /\ pc[t] = "lock"
    /\ AcquireMutex(t)
    /\ wait' = [wait EXCEPT ![OwnQueue(call[t])] = @ \cup {t}]
    /\ state' = [state EXCEPT ![t] = "INTERRUPTIBLE"]
    /\ Goto(t, "check")
    /\ UNCHANGED <<fifo, async_queue, triggered, sigpending, task, ret>>

\* mutex_lock and add_wait_queue.
Lock(t) ==
    /\ pc[t] = "lock"
    /\ AcquireMutex(t)
    /\ wait' = [wait EXCEPT ![OwnQueue(call[t])] = @ \cup {t}]
    /\ Goto(t, "check")
    /\ UNCHANGED <<fifo, async_queue, sched, task, ret>>

\* O_NONBLOCK: do not wait.
Again(t) ==
    /\ pc[t] = "check"
    /\ MustWait(call[t])
    /\ t \in NonBlocking
    /\ ret' = [ret EXCEPT ![t] = EAGAIN]
    /\ Goto(t, "out")
    /\ UNCHANGED <<fifo, mutex, wait, async_queue, sched, task>>

\* __set_current_state(TASK_INTERRUPTIBLE), with the mutex still held.
Park(t) ==
    /\ pc[t] = "check"
    /\ MustWait(call[t])
    /\ t \notin NonBlocking
    /\ state' = [state EXCEPT ![t] = "INTERRUPTIBLE"]
    /\ Goto(t, "unlock")
    /\ UNCHANGED <<fifo, mutex, wait, async_queue, triggered, sigpending, task, ret>>

\* mutex_unlock before schedule().
Unlock(t) ==
    /\ pc[t] = "unlock"
    /\ ReleaseMutex(t)
    /\ Goto(t, "sched")
    /\ UNCHANGED <<fifo, wait, async_queue, sched, task, ret>>

\* Mutants: the signal path returns at once, the signal is not looked at.
Resume_NoCleanup(t) ==
    /\ pc[t] = "sched"
    /\ state[t] = "RUNNING" \/ t \in sigpending
    /\ state' = [state EXCEPT ![t] = "RUNNING"]
    /\ Goto(t, IF t \in sigpending THEN "user" ELSE "relock")
    /\ UNCHANGED <<fifo, mutex, wait, async_queue, triggered, sigpending, task, ret>>

Resume_NoSignal(t) ==
    /\ pc[t] = "sched"
    /\ state[t] = "RUNNING" \/ t \in sigpending
    /\ state' = [state EXCEPT ![t] = "RUNNING"]
    /\ Goto(t, "relock")
    /\ UNCHANGED <<fifo, mutex, wait, async_queue, triggered, sigpending, task, ret>>

\* schedule() returns to a task that was made runnable, at once if that
\* happened before the call or if a signal is pending.
Resume(t) ==
    /\ pc[t] = "sched"
    /\ state[t] = "RUNNING" \/ t \in sigpending
    /\ state' = [state EXCEPT ![t] = "RUNNING"]
    /\ ret' = IF t \in sigpending THEN [ret EXCEPT ![t] = ERESTARTSYS] ELSE ret
    /\ Goto(t, IF t \in sigpending THEN "out2" ELSE "relock")
    /\ UNCHANGED <<fifo, mutex, wait, async_queue, triggered, sigpending, task>>

Relock(t) ==
    /\ pc[t] = "relock"
    /\ AcquireMutex(t)
    /\ Goto(t, "check")
    /\ UNCHANGED <<fifo, wait, async_queue, sched, task, ret>>

\* Mutant: goto out2 where the code has goto out.
Fault_NoUnlock(t) ==
    /\ pc[t] = "check"
    /\ ~MustWait(call[t])
    /\ ret' = [ret EXCEPT ![t] = EFAULT]
    /\ Goto(t, "out2")
    /\ UNCHANGED <<fifo, mutex, wait, async_queue, sched, task>>

\* copy_to_user or copy_from_user meets a bad address after k bytes.  A
\* failing copy_from_user fills the rest of its target with zeros; what a
\* failing read left in the program's buffer is not looked at.
Fault(t) ==
    /\ pc[t] = "check"
    /\ ~MustWait(call[t])
    /\ LET n == Clamp(cnt[t], Available(call[t])) IN
        /\ n > 0
        /\ cnt' = [cnt EXCEPT ![t] = n]
        /\ IF call[t] = "write"
           THEN \E k \in 0 .. n - 1 :
                    mem' = CopiedIn([i \in 1 .. n |->
                                        IF i <= k THEN ubuf[t][i] ELSE Zero], n)
           ELSE UNCHANGED mem
    /\ ret' = [ret EXCEPT ![t] = EFAULT]
    /\ Goto(t, "out")
    /\ UNCHANGED <<current_len, mutex, wait, async_queue, sched, call, ubuf, want>>

Out(t) ==
    /\ pc[t] = "out"
    /\ ReleaseMutex(t)
    /\ Goto(t, "out2")
    /\ UNCHANGED <<fifo, wait, async_queue, sched, task, ret>>

\* remove_wait_queue, set_current_state(TASK_RUNNING), and the return to
\* the program, which brings fresh arguments to its next call.
Out2(t) ==
    /\ pc[t] = "out2"
    /\ wait' = [wait EXCEPT ![OwnQueue(call[t])] = @ \ {t}]
    /\ state' = [state EXCEPT ![t] = "RUNNING"]
    /\ Goto(t, "user")
    /\ call' = [call EXCEPT ![t] = "none"]
    /\ cnt' = [cnt EXCEPT ![t] = 0]
    /\ ubuf' = [ubuf EXCEPT ![t] = <<>>]
    /\ ret' = [ret EXCEPT ![t] = 0]
    /\ UNCHANGED <<fifo, mutex, async_queue, triggered, sigpending, want>>
-----------------------------------------------------------------------------
(* The transfers. *)

\* Mutant: the mutex is dropped around the copy, which may sleep.
ReadCopy_Unlocked(t) ==
    /\ pc[t] = "check"
    /\ call[t] = "read"
    /\ ~MustWait("read")
    /\ LET n == Clamp(cnt[t], Available("read")) IN
        /\ cnt' = [cnt EXCEPT ![t] = n]
        /\ ubuf' = [ubuf EXCEPT ![t] = [i \in 1 .. n |-> mem[i - 1]]]
    /\ mutex' = NoTask
    /\ Goto(t, "xfer")
    /\ UNCHANGED <<fifo, wait, async_queue, sched, call, want, ret>>

\* The clamp and copy_to_user.
ReadCopy(t) ==
    /\ pc[t] = "check"
    /\ call[t] = "read"
    /\ ~MustWait("read")
    /\ LET n == Clamp(cnt[t], Available("read")) IN
        /\ cnt' = [cnt EXCEPT ![t] = n]
        /\ ubuf' = [ubuf EXCEPT ![t] = [i \in 1 .. n |-> mem[i - 1]]]
    /\ Goto(t, "xfer")
    /\ UNCHANGED <<fifo, mutex, wait, async_queue, sched, call, want, ret>>

\* Moving the rest of the FIFO to the front, and waking the writers.
ReadShift(t) ==
    /\ pc[t] = "xfer"
    /\ call[t] = "read"
    /\ \E order \in CopyOrders :
        mem' = [i \in DOMAIN mem |-> AfterMemcpy(cnt[t], current_len, order, i)]
    /\ current_len' = current_len - cnt[t]
    /\ WakeUp("w_wait")
    /\ ret' = [ret EXCEPT ![t] = cnt[t]]
    /\ Goto(t, "out")
    /\ UNCHANGED <<mutex, wait, async_queue, sigpending, task>>

\* The clamp and copy_from_user, into the free part of mem.
WriteCopy(t) ==
    /\ pc[t] = "check"
    /\ call[t] = "write"
    /\ ~MustWait("write")
    /\ LET n == Clamp(cnt[t], Available("write")) IN
        /\ cnt' = [cnt EXCEPT ![t] = n]
        /\ mem' = CopiedIn(ubuf[t], n)
    /\ Goto(t, "xfer")
    /\ UNCHANGED <<current_len, mutex, wait, async_queue, sched, call, ubuf, want, ret>>

\* Publishing the bytes, waking the readers, and SIGIO to async_queue.
WriteCommit(t) ==
    /\ pc[t] = "xfer"
    /\ call[t] = "write"
    /\ current_len' = current_len + cnt[t]
    /\ MakeRunnable(Woken("r_wait") \cup async_queue)
    /\ triggered' = triggered \cup PollersOf("r_wait")
    /\ sigpending' = sigpending \cup async_queue
    /\ ret' = [ret EXCEPT ![t] = cnt[t]]
    /\ Goto(t, "out")
    /\ UNCHANGED <<mem, mutex, wait, async_queue, task>>

Read(t) ==
    /\ call[t] = "read"
    /\ \/ Lock(t) \/ Again(t) \/ Park(t) \/ Unlock(t) \/ Resume(t) \/ Relock(t)
       \/ ReadCopy(t) \/ Fault(t) \/ ReadShift(t) \/ Out(t) \/ Out2(t)

Write(t) ==
    /\ call[t] = "write"
    /\ \/ Lock(t) \/ Again(t) \/ Park(t) \/ Unlock(t) \/ Resume(t) \/ Relock(t)
       \/ WriteCopy(t) \/ Fault(t) \/ WriteCommit(t) \/ Out(t) \/ Out2(t)
-----------------------------------------------------------------------------
(* poll, and the kernel's loop around it (do_select of fs/select.c).       *)
(* globalfifo_poll is one critical section: no other task can see its      *)
(* middle, so it is one step.  A poller's sleep is the point "pwait": it   *)
(* ends when a queue has triggered it, by a signal, or by its timeout.     *)

\* globalfifo_poll, and the caller's decision what to do with the mask.
Poll(t) ==
    /\ pc[t] \in {"poll", "last"}
    /\ mutex = NoTask
    /\ wait' = [q \in Queues |-> wait[q] \cup {t}]
    /\ Goto(t, IF \/ PollMask \cap want[t] # {}
                  \/ pc[t] = "last"
                  \/ t \in sigpending
               THEN "out2" ELSE "pwait")
    /\ UNCHANGED <<fifo, mutex, async_queue, sched, task, ret>>

\* A wait queue or a signal ended the sleep: poll the device again.
PollWake(t) ==
    /\ pc[t] = "pwait"
    /\ t \in triggered \/ t \in sigpending
    /\ triggered' = triggered \ {t}
    /\ Goto(t, "poll")
    /\ UNCHANGED <<fifo, mutex, wait, async_queue, state, sigpending, task, ret>>

\* The timeout expired: poll the device one last time.
PollTimeout(t) ==
    /\ pc[t] = "pwait"
    /\ triggered' = triggered \ {t}
    /\ Goto(t, "last")
    /\ UNCHANGED <<fifo, mutex, wait, async_queue, state, sigpending, task, ret>>

\* poll_freewait takes the entries off both queues.
PollReturn(t) ==
    /\ pc[t] = "out2"
    /\ call[t] = "poll"
    /\ wait' = [q \in Queues |-> wait[q] \ {t}]
    /\ triggered' = triggered \ {t}
    /\ Goto(t, "user")
    /\ call' = [call EXCEPT ![t] = "none"]
    /\ want' = [want EXCEPT ![t] = {}]
    /\ UNCHANGED <<fifo, mutex, async_queue, state, sigpending, cnt, ubuf, ret>>

\* FIFO_CLEAR: a critical section that wakes nobody.
Clear(t) ==
    /\ pc[t] = "ioctl"
    /\ mutex = NoTask
    /\ current_len' = 0
    /\ mem' = [i \in DOMAIN mem |-> Zero]
    /\ Goto(t, "user")
    /\ call' = [call EXCEPT ![t] = "none"]
    /\ UNCHANGED <<mutex, wait, async_queue, sched, cnt, ubuf, want, ret>>

Program(t) ==
    \/ Open(t) \/ Release(t) \/ Fasync(t) \/ Deliver(t) \/ CallClear(t)
    \/ \E n \in ReadCounts : CallRead(t, n)
    \/ \E data \in Payloads : CallWrite(t, data)
    \/ \E events \in PollEvents : CallPoll(t, events)

Kernel(t) ==
    Read(t) \/ Write(t) \/ Poll(t) \/ PollWake(t) \/ PollReturn(t) \/ Clear(t)

Next == \E t \in Tasks : Program(t) \/ Kernel(t) \/ Signal(t) \/ PollTimeout(t)

Spec == Init /\ [][Next]_vars
-----------------------------------------------------------------------------
(* Fairness.  A task inside the kernel keeps running, and a waiter for the  *)
(* mutex gets it in the end (the kernel's mutexes hand over to a starving   *)
(* waiter).  Nothing makes a program issue a call, send a signal or set a   *)
(* timeout.                                                                 *)

TakesMutex(t) == Lock(t) \/ Relock(t) \/ Poll(t) \/ Clear(t)

Fairness ==
    \A t \in Tasks : WF_vars(Kernel(t)) /\ SF_vars(TakesMutex(t))

FairSpec == Spec /\ Fairness
-----------------------------------------------------------------------------
(* Properties. *)

Clearers == {t \in Tasks : "clear" \in Calls[t]}

\* A task that is asleep in a read or a write call: parked, not woken.
Asleep(t) == pc[t] = "sched" /\ state[t] = "INTERRUPTIBLE" /\ t \notin sigpending

\* No reader sleeps while there are bytes to read: a write between a
\* reader's test of current_len and its schedule() still wakes it.
ReadersNotStranded ==
    \A t \in Tasks : Asleep(t) /\ call[t] = "read" => current_len = 0

\* Likewise no writer sleeps while there is room, as long as nobody uses
\* FIFO_CLEAR, which makes room without waking anybody.
WritersNotStranded ==
    Clearers = {} =>
        \A t \in Tasks :
            Asleep(t) /\ call[t] = "write" => current_len = GLOBALFIFO_SIZE

\* A poller sleeps untriggered only while no event that it asked for is
\* there (POLLOUT again without FIFO_CLEAR).
PollersNotStranded ==
    \A t \in Tasks : pc[t] = "pwait" /\ t \notin triggered =>
        /\ "POLLIN" \in want[t] => current_len = 0
        /\ "POLLOUT" \in want[t] /\ Clearers = {} =>
                current_len = GLOBALFIFO_SIZE

\* The wait queue entries live on the stack of the call: when a call is
\* over none of them is on a queue, nor is a closed file in async_queue.
NoDanglingEntries ==
    \A t \in Tasks :
        /\ pc[t] \in {"closed", "user"} => \A q \in Queues : t \notin wait[q]
        /\ pc[t] = "closed" => t \notin async_queue

\* Code that may fault, sleep on the mutex or return to the program never
\* runs in a sleeping state: the task would not be scheduled again.
SleepsOnlyInSchedule ==
    \A t \in Tasks : state[t] = "INTERRUPTIBLE" => pc[t] \in {"unlock", "sched"}

\* The device is a bounded FIFO: every read and write takes effect in one
\* step, in the order of the mutex, whatever the interleaving, the signals
\* and the faults.
Content == [i \in 1 .. current_len |-> mem[i - 1]]
UserBuffer == [t \in Tasks |->
    IF pc[t] = "xfer" /\ call[t] = "read" THEN <<>> ELSE ubuf[t]]

Abstract == INSTANCE BoundedFifo WITH
    content <- Content, buf <- UserBuffer, SIZE <- GLOBALFIFO_SIZE

Linearizable == Abstract!Spec

\* Nobody waits on everybody: a call that entered the kernel returns, or
\* gets to its sleep, with the mutex free for the others.
CallsSettle ==
    \A t \in Tasks :
        call[t] # "none" ~> call[t] = "none" \/ Asleep(t) \/ pc[t] = "pwait"

\* A signal ends every wait, asleep or not: the task gets back to user mode.
SignalInterrupts ==
    \A t \in Tasks : t \in sigpending ~> pc[t] \in {"user", "closed"}

\* globalfifo.c:4, "Block write until FIFO not full": a blocked writer goes
\* on as soon as there is room.
BlockedWriterGoesOn ==
    \A t \in Tasks :
        pc[t] = "sched" /\ call[t] = "write" /\ current_len < GLOBALFIFO_SIZE
            ~> pc[t] # "sched"
=============================================================================
