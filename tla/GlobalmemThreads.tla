-------------------------- MODULE GlobalmemThreads --------------------------
(***************************************************************************)
(* src/globalmem/globalmem.c: the two kernel threads that demonstrate      *)
(* locking.  Both add to globalmem_thread_variable again and again, but    *)
(* not under one lock: each pass of a thread goes through a mutex, a       *)
(* spinlock, an rwlock, an atomic counter and a seqlock in turn.           *)
(*                                                                         *)
(* variable++ is a load and a store.  A thread passes the sections of its  *)
(* Program in order; a section is entered through its lock, and left.      *)
(*                                                                         *)
(* globalmem_init starts both threads before it initialises the mutex, the *)
(* spinlock and the rwlock, so that a lock can be initialised while a      *)
(* thread is in its section.                                               *)
(***************************************************************************)
EXTENDS Integers, Sequences

CONSTANTS
    NoThread,   \* the owner of a free lock
    MaxRounds   \* bound: how often a thread goes round its loop

Threads == {"thread", "thread2"}
OwnedLocks == {"mutex", "spin"}

\* The locks in the order in which globalmem_init initialises them.
InitOrder == <<"mutex", "spin", "rwlock">>

ASSUME GlobalmemThreadsAssumption ==
    /\ NoThread \notin Threads
    /\ MaxRounds \in Nat

\* thread_function and thread_function2.
Program(t) ==
    IF t = "thread" THEN <<"mutex", "spin", "read", "atomic", "seqread">>
                    ELSE <<"mutex", "spin", "write", "atomic", "seqwrite">>

\* The sections that add to globalmem_thread_variable.
Adds == {"mutex", "spin", "write", "seqwrite"}

VARIABLES
    variable,   \* globalmem_thread_variable
    variable2,  \* globalmem_thread_variable2, an atomic_t
    owner,      \* who holds globalmem_mutex and globalmem_spinlock
    readers,    \* the rwlock's count of readers
    writing,    \* the rwlock's writer bit
    seq,        \* globalmem_seq_lock.seqcount
    initialised,\* how many of the three locks globalmem_init has initialised
    stopping,   \* the threads that kthread_stop has asked to stop
    sec, pc,    \* the section a thread is in, and where in it
    reg,        \* what the thread has loaded and still needs, or 0
    round,      \* how often the thread has gone round
    added,      \* how often variable++ has been completed
    missed,     \* how often the other thread has stored since the thread's load
    torn        \* the locks that were initialised while they were held

vars == <<variable, variable2, owner, readers, writing, seq, initialised,
          stopping, sec, pc, reg, round, added, missed, torn>>

locks == <<owner, readers, writing, seq>>

\* What the properties speak of and the code does not keep.
ghosts == <<added, missed, torn>>

TypeOK ==
    /\ variable \in 0 .. 6 * MaxRounds
    /\ variable2 \in 0 .. 2 * MaxRounds
    /\ owner \in [OwnedLocks -> Threads \cup {NoThread}]
    /\ readers \in Int
    /\ writing \in BOOLEAN
    /\ seq \in 0 .. 2 * MaxRounds
    /\ initialised \in 0 .. 3
    /\ stopping \subseteq Threads
    /\ sec \in [Threads -> 1 .. 5]
    /\ pc \in [Threads -> {"loop", "enter", "load", "store", "leave", "retry", "dead", "exited"}]
    /\ reg \in [Threads -> Nat]
    /\ round \in [Threads -> 0 .. MaxRounds]
    /\ added \in Nat
    /\ missed \in [Threads -> Nat]
    /\ torn \subseteq {"mutex", "spin", "rwlock"}

Section(t) == Program(t)[sec[t]]
Goto(t, label) == pc' = [pc EXCEPT ![t] = label]

\* To the next section, or to the end of the loop's body.
NextSection(t) ==
    /\ sec' = [sec EXCEPT ![t] = IF sec[t] = 5 THEN 1 ELSE sec[t] + 1]
    /\ Goto(t, IF sec[t] = 5 THEN "loop" ELSE "enter")

Init ==
    /\ variable = 0
    /\ variable2 = 0
    /\ owner = [l \in OwnedLocks |-> NoThread]
    /\ readers = 0 /\ writing = FALSE /\ seq = 0
    /\ initialised = 0
    /\ stopping = {}
    /\ sec = [t \in Threads |-> 1]
    /\ pc = [t \in Threads |-> "loop"]
    /\ reg = [t \in Threads |-> 0]
    /\ round = [t \in Threads |-> 0]
    /\ added = 0
    /\ missed = [t \in Threads |-> 0]
    /\ torn = {}
-----------------------------------------------------------------------------
(* globalmem_init, behind the creation of the threads, and globalmem_exit. *)

InUse(l) == IF l = "rwlock" THEN readers # 0 \/ writing ELSE owner[l] # NoThread

\* mutex_init, spin_lock_init and rwlock_init: whatever was held is free.
InitLock ==
    /\ initialised < 3
    /\ initialised' = initialised + 1
    /\ LET l == InitOrder[initialised + 1] IN
        /\ owner' = [m \in OwnedLocks |-> IF m = l THEN NoThread ELSE owner[m]]
        /\ readers' = IF l = "rwlock" THEN 0 ELSE readers
        /\ writing' = (writing /\ l # "rwlock")
        /\ torn' = IF InUse(l) THEN torn \cup {l} ELSE torn
    /\ UNCHANGED <<variable, variable2, seq, stopping, sec, pc, reg, round, added, missed>>

\* kthread_stop(globalmem_thread), and when that has ended, the other one.  For
\* a thread that has died it reads a freed task_struct: the model ends there.
Stop(t) ==
    /\ initialised = 3
    /\ t \notin stopping
    /\ \A s \in Threads : pc[s] # "dead"
    /\ t = "thread2" => pc["thread"] = "exited"
    /\ stopping' = stopping \cup {t}
    /\ UNCHANGED <<variable, variable2, locks, initialised, sec, pc, reg, round, ghosts>>
-----------------------------------------------------------------------------
(* The loop and its sections. *)

\* while (!kthread_should_stop()).  Between the rounds the thread sleeps.
Loop(t) ==
    /\ pc[t] = "loop"
    /\ t \in stopping \/ round[t] < MaxRounds
    /\ IF t \in stopping THEN Goto(t, "exited") /\ UNCHANGED round
       ELSE Goto(t, "enter") /\ round' = [round EXCEPT ![t] = @ + 1]
    /\ UNCHANGED <<variable, variable2, locks, initialised, stopping, sec, reg, ghosts>>

\* Mutant: a section is entered whoever is in it.
EnterOwned_NoLock(t) ==
    /\ pc[t] = "enter"
    /\ Section(t) \in OwnedLocks
    /\ owner' = [owner EXCEPT ![Section(t)] = t]
    /\ Goto(t, "load")
    /\ UNCHANGED <<variable, variable2, readers, writing, seq, initialised, stopping,
                   sec, reg, round, ghosts>>

\* mutex_lock and spin_lock.
EnterOwned(t) ==
    /\ pc[t] = "enter"
    /\ Section(t) \in OwnedLocks
    /\ owner[Section(t)] = NoThread
    /\ owner' = [owner EXCEPT ![Section(t)] = t]
    /\ Goto(t, "load")
    /\ UNCHANGED <<variable, variable2, readers, writing, seq, initialised, stopping,
                   sec, reg, round, ghosts>>

\* A thread that must wait for the mutex before mutex_init follows the null
\* pointers of its list of waiters: an Oops ends it.
Oops(t) ==
    /\ pc[t] = "enter"
    /\ Section(t) = "mutex"
    /\ initialised = 0
    /\ owner["mutex"] # NoThread
    /\ Goto(t, "dead")
    /\ UNCHANGED <<variable, variable2, locks, initialised, stopping, sec, reg, round, ghosts>>

\* read_lock; the reader only looks.
EnterRead(t) ==
    /\ pc[t] = "enter"
    /\ Section(t) = "read"
    /\ ~writing
    /\ readers' = readers + 1
    /\ Goto(t, "leave")
    /\ UNCHANGED <<variable, variable2, owner, writing, seq, initialised, stopping,
                   sec, reg, round, ghosts>>

EnterWrite(t) ==
    /\ pc[t] = "enter"
    /\ Section(t) = "write"
    /\ readers = 0
    /\ writing' = TRUE
    /\ Goto(t, "load")
    /\ UNCHANGED <<variable, variable2, owner, readers, seq, initialised, stopping,
                   sec, reg, round, ghosts>>

\* write_seqlock makes the sequence odd.
EnterSeqWrite(t) ==
    /\ pc[t] = "enter"
    /\ Section(t) = "seqwrite"
    /\ seq' = seq + 1
    /\ Goto(t, "load")
    /\ UNCHANGED <<variable, variable2, owner, readers, writing, initialised, stopping,
                   sec, reg, round, ghosts>>

\* Mutant: it does not wait for an even sequence.
SeqBegin_Odd(t) ==
    /\ pc[t] = "enter"
    /\ Section(t) = "seqread"
    /\ reg' = [reg EXCEPT ![t] = seq]
    /\ Goto(t, "retry")
    /\ UNCHANGED <<variable, variable2, locks, initialised, stopping, sec, round, ghosts>>

\* read_seqbegin waits for an even sequence and keeps it.
SeqBegin(t) ==
    /\ pc[t] = "enter"
    /\ Section(t) = "seqread"
    /\ seq % 2 = 0
    /\ reg' = [reg EXCEPT ![t] = seq]
    /\ Goto(t, "retry")
    /\ UNCHANGED <<variable, variable2, locks, initialised, stopping, sec, round, ghosts>>

\* Mutant: read again if there was none.
SeqRetry_Negated(t) ==
    /\ pc[t] = "retry"
    /\ IF seq # reg[t] THEN NextSection(t) ELSE Goto(t, "enter") /\ UNCHANGED sec
    /\ reg' = [reg EXCEPT ![t] = 0]
    /\ UNCHANGED <<variable, variable2, locks, initialised, stopping, round, ghosts>>

\* read_seqretry: read again if there was a writer since.
SeqRetry(t) ==
    /\ pc[t] = "retry"
    /\ IF seq = reg[t] THEN NextSection(t) ELSE Goto(t, "enter") /\ UNCHANGED sec
    /\ reg' = [reg EXCEPT ![t] = 0]
    /\ UNCHANGED <<variable, variable2, locks, initialised, stopping, round, ghosts>>

Load(t) ==
    /\ pc[t] = "load"
    /\ reg' = [reg EXCEPT ![t] = variable]
    /\ Goto(t, "store")
    /\ UNCHANGED <<variable, variable2, locks, initialised, stopping, sec, round, ghosts>>

Store(t) ==
    /\ pc[t] = "store"
    /\ variable' = reg[t] + 1
    /\ added' = added + 1
    /\ missed' = [s \in Threads |->
                     IF s = t THEN 0 ELSE IF pc[s] = "store" THEN missed[s] + 1 ELSE missed[s]]
    /\ reg' = [reg EXCEPT ![t] = 0]
    /\ Goto(t, "leave")
    /\ UNCHANGED <<variable2, locks, initialised, stopping, sec, round, torn>>

\* Mutant: the rwlock is not left by the reader.
Leave_KeepsRead(t) ==
    /\ pc[t] = "leave"
    /\ owner' = [l \in OwnedLocks |-> IF l = Section(t) THEN NoThread ELSE owner[l]]
    /\ writing' = (writing /\ Section(t) # "write")
    /\ seq' = IF Section(t) = "seqwrite" THEN seq + 1 ELSE seq
    /\ NextSection(t)
    /\ UNCHANGED <<variable, variable2, readers, initialised, stopping, reg, round, ghosts>>

\* The section's unlock.  Readers and a writer of a torn rwlock can be in it
\* together; some architectures' write_unlock then clears the readers' count.
Leave(t) ==
    /\ pc[t] = "leave"
    /\ owner' = [l \in OwnedLocks |-> IF l = Section(t) THEN NoThread ELSE owner[l]]
    /\ \/ Section(t) = "read" /\ readers' = readers - 1
       \/ Section(t) # "read" /\ readers' = readers
       \/ Section(t) = "write" /\ readers' = 0
    /\ writing' = (writing /\ Section(t) # "write")
    /\ seq' = IF Section(t) = "seqwrite" THEN seq + 1 ELSE seq
    /\ NextSection(t)
    /\ UNCHANGED <<variable, variable2, initialised, stopping, reg, round, ghosts>>

\* atomic_inc.
AtomicInc(t) ==
    /\ pc[t] = "enter"
    /\ Section(t) = "atomic"
    /\ variable2' = variable2 + 1
    /\ NextSection(t)
    /\ UNCHANGED <<variable, locks, initialised, stopping, reg, round, ghosts>>
-----------------------------------------------------------------------------
Enter(t) ==
    EnterOwned(t) \/ EnterRead(t) \/ EnterWrite(t) \/ EnterSeqWrite(t) \/ SeqBegin(t)

Thread(t) ==
    \/ Loop(t) \/ Enter(t) \/ Oops(t) \/ SeqRetry(t) \/ Load(t) \/ Store(t) \/ Leave(t)
    \/ AtomicInc(t)

Next == InitLock \/ \E t \in Threads : Stop(t) \/ Thread(t)

Spec == Init /\ [][Next]_vars

\* A thread goes on; the kernel's locks are granted in turn, so that one that
\* is free again and again is got in the end; and since the writer sleeps for
\* a second between two rounds a seqlock reader meets a quiet moment.
Fairness ==
    /\ WF_vars(InitLock)
    /\ \A t \in Threads : WF_vars(Thread(t)) /\ SF_vars(Enter(t))
    /\ \A t \in Threads : SF_vars(SeqRetry(t) /\ seq = reg[t])

FairSpec == Spec /\ Fairness
-----------------------------------------------------------------------------
(* Properties. *)

\* How often t has been through its atomic section.
Passed(t) == IF pc[t] \in {"loop", "exited"} \/ sec[t] > 4 THEN round[t] ELSE round[t] - 1

\* The atomic counter counts every pass of both threads.
AtomicExact == variable2 = Passed("thread") + Passed("thread2")

LockOf(t) == IF Section(t) \in {"read", "write"} THEN "rwlock" ELSE Section(t)

\* Two threads that are about to store what they have loaded are under
\* different locks, or else the lock was initialised while it was held: that
\* the threads run before the locks are initialised does no other harm.
LossNeedsTwoLocks ==
    pc["thread"] = "store" /\ pc["thread2"] = "store"
        => Section("thread") # Section("thread2") \/ Section("thread") \in torn

\* How often the other thread can add before it comes to the lock t is under.
MostMissed(t) ==
    IF t = "thread" THEN 3 ELSE IF Section(t) \in OwnedLocks THEN 1 ELSE 2

\* One stale store loses no more than the other thread's additions of one
\* round: under a lock that was not initialised while it was held, whichever
\* of the four it is, the other thread comes to a stop at that very lock.
LossIsBounded ==
    \A t \in Threads :
        pc[t] = "store" /\ LockOf(t) \notin torn => missed[t] <= MostMissed(t)

\* While both threads sleep no lock is held and no sequence is odd.  Only an
\* rwlock that was initialised while it was held is off its count for good.
LocksFreeBetweenRounds ==
    (\A t \in Threads : pc[t] \in {"loop", "exited"}) =>
        /\ \A l \in OwnedLocks : owner[l] = NoThread
        /\ ~writing /\ seq % 2 = 0
        /\ readers = 0 \/ "rwlock" \in torn

\* kthread_stop comes back: a thread that is asked to stop does, whatever
\* lock or seqlock retry it is in, unless the rwlock is off its count.
ThreadsStop ==
    \A t \in Threads : t \in stopping ~> pc[t] = "exited" \/ "rwlock" \in torn

\* README.md:95, "Mutex / spinlock used to protect shared variable between
\* threads": between the rounds every increment has been counted, if the locks
\* were initialised in time.
NoLostUpdate ==
    (\A t \in Threads : pc[t] \in {"loop", "exited"}) /\ torn = {} => variable = added
=============================================================================
