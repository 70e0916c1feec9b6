---------------------------- MODULE GlobalmemFile ----------------------------
(***************************************************************************)
(* src/globalmem/globalmem.c: read, write, llseek and MEM_CLEAR of the     *)
(* device file, by tasks that may share an open file (across fork); and    *)
(* multi_globalmem.c, which has the same handlers without the mutex, for   *)
(* each of its device files.                                               *)
(*                                                                         *)
(* Two things interleave.  The bytes: read and write copy them one by one  *)
(* under the mutex, MEM_CLEAR without it.  And the position: the kernel    *)
(* hands read and write a copy of f_pos and stores it back when they       *)
(* return, without a lock for a character device, while llseek works on    *)
(* f_pos itself.  What globalmem_read tells the waiting threads before it  *)
(* returns is in GlobalmemWaiters.                                         *)
(***************************************************************************)
EXTENDS Integers, Sequences

CONSTANTS
    Tasks,
    NoTask,         \* the mutex is free, or a task has no file in hand
    Files,          \* the open files
    Uses,           \* which of them a task has, [Tasks -> SUBSET Files]
    Calls,          \* what a task calls, [Tasks -> SUBSET CallNames]
    GLOBALMEM_SIZE,
    UIntSize,       \* how many values an unsigned int has
    Sizes,          \* the sizes that are read and written
    Offsets,        \* the offsets that are sought
    Byte, Zero,
    MaxPos          \* bound: reads and writes start at a position up to it

CallNames == {"read", "write", "seek", "clear"}

ASSUME GlobalmemFileAssumption ==
    /\ NoTask \notin Tasks \cup Files
    /\ Uses \in [Tasks -> SUBSET Files]
    /\ Calls \in [Tasks -> SUBSET CallNames]
    /\ GLOBALMEM_SIZE \in Nat \ {0}
    /\ UIntSize \in Nat /\ UIntSize > GLOBALMEM_SIZE
    /\ Sizes \subseteq Nat
    /\ Offsets \subseteq Int
    /\ Zero \in Byte
    /\ MaxPos \in Nat

Index == 0 .. GLOBALMEM_SIZE - 1

VARIABLES
    driver,     \* globalmem, or a device of multi_globalmem
    mem,        \* globalmem_devp->mem
    mutex,      \* the task that holds globalmem_devp->mutex
    f_pos,      \* the position of an open file
    pc,         \* where a task is
    call,       \* its call: name, file, p (*ppos), count
    buf,        \* the caller's buffer
    done,       \* how many bytes it has copied or cleared, or what it has loaded
    overlap     \* the copies during which MEM_CLEAR has written

vars == <<driver, mem, mutex, f_pos, pc, call, buf, done, overlap>>

Labels == {"idle", "lock", "copy", "return", "clear", "store"}

Call == [name : CallNames, file : Files \cup {NoTask}, p : Int, count : Nat]
NoCall == [name |-> "clear", file |-> NoTask, p |-> 0, count |-> 0]

TypeOK ==
    /\ driver \in {"globalmem", "multi_globalmem"}
    /\ mem \in [Index -> Byte]
    /\ mutex \in Tasks \cup {NoTask}
    /\ f_pos \in [Files -> Int]
    /\ pc \in [Tasks -> Labels]
    /\ call \in [Tasks -> Call]
    /\ buf \in [Tasks -> Seq(Byte)]
    /\ done \in [Tasks -> Int]
    /\ \A t \in Tasks : pc[t] = "clear" => done[t] \in Index
    /\ overlap \subseteq Tasks

Init ==
    /\ driver \in {"globalmem", "multi_globalmem"}
    /\ mem = [i \in Index |-> Zero]
    /\ mutex = NoTask
    /\ f_pos = [f \in Files |-> 0]
    /\ pc = [t \in Tasks |-> "idle"]
    /\ call = [t \in Tasks |-> NoCall]
    /\ buf = [t \in Tasks |-> <<>>]
    /\ done = [t \in Tasks |-> 0]
    /\ overlap = {}

Goto(t, label) == pc' = [pc EXCEPT ![t] = label]
Make(t, c) == call' = [call EXCEPT ![t] = c]
Did(t, n) == done' = [done EXCEPT ![t] = n]
Fill(t, data) == buf' = [buf EXCEPT ![t] = data]
End(t) == Goto(t, "idle") /\ Make(t, NoCall) /\ Fill(t, <<>>) /\ Did(t, 0)
-----------------------------------------------------------------------------
(* globalmem_read and globalmem_write. *)

\* Mutant: the size is taken as it is.
Clamp_None(p, size) == size

Clamp(p, size) == IF size > GLOBALMEM_SIZE - p THEN GLOBALMEM_SIZE - p ELSE size

\* The kernel has copied f_pos to p and refused a negative one; at the end of
\* the memory there is nothing to lock.  (Seeks that race with a read's return
\* can carry f_pos further and further up: hence MaxPos.)
Begin(t, name, f, size, data) ==
    /\ pc[t] = "idle"
    /\ f_pos[f] \in 0 .. MaxPos
    /\ LET p == f_pos[f] IN
       IF p >= GLOBALMEM_SIZE
       THEN /\ Make(t, [name |-> name, file |-> f, p |-> p, count |-> 0])
            /\ Fill(t, <<>>)
            /\ Goto(t, "return")
       ELSE /\ Make(t, [name |-> name, file |-> f, p |-> p, count |-> Clamp(p, size)])
            /\ Fill(t, data)
            /\ Goto(t, "lock")
    /\ UNCHANGED <<driver, mem, mutex, f_pos, done, overlap>>

Read(t, f) ==
    /\ "read" \in Calls[t]
    /\ \E size \in Sizes : Begin(t, "read", f, size, <<>>)

\* One byte value for all of the buffer.
Write(t, f) ==
    /\ "write" \in Calls[t]
    /\ \E size \in Sizes : \E b \in Byte :
           Begin(t, "write", f, size, [i \in 1 .. size |-> b])

\* Mutant: write does not take the mutex.
Lock_None(t) ==
    /\ pc[t] = "lock"
    /\ driver = "globalmem"
    /\ mutex = NoTask \/ call[t].name = "write"
    /\ mutex' = t
    /\ Goto(t, "copy")
    /\ UNCHANGED <<driver, mem, f_pos, call, buf, done, overlap>>

Lock(t) ==
    /\ pc[t] = "lock"
    /\ driver = "globalmem"
    /\ mutex = NoTask
    /\ mutex' = t
    /\ Goto(t, "copy")
    /\ UNCHANGED <<driver, mem, f_pos, call, buf, done, overlap>>

\* multi_globalmem's read and write go on to copy at once.
NoLock(t) ==
    /\ pc[t] = "lock"
    /\ driver = "multi_globalmem"
    /\ Goto(t, "copy")
    /\ UNCHANGED <<driver, mem, mutex, f_pos, call, buf, done, overlap>>

\* copy_to_user and copy_from_user, byte after byte.
Copy(t) ==
    /\ pc[t] = "copy"
    /\ done[t] < call[t].count
    /\ LET at == call[t].p + done[t] IN
       IF call[t].name = "read"
       THEN Fill(t, Append(buf[t], mem[at])) /\ UNCHANGED mem
       ELSE mem' = [mem EXCEPT ![at] = buf[t][done[t] + 1]] /\ UNCHANGED buf
    /\ Did(t, done[t] + 1)
    /\ UNCHANGED <<driver, mutex, f_pos, pc, call, overlap>>

Unlock(t) ==
    /\ pc[t] = "copy"
    /\ done[t] = call[t].count
    /\ mutex' = NoTask
    /\ Goto(t, "return")
    /\ Fill(t, <<>>)
    /\ Did(t, 0)
    /\ overlap' = overlap \ {t}
    /\ UNCHANGED <<driver, mem, f_pos, call>>

\* Mutant: the error path returns with the mutex.
Fault_NoUnlock(t) ==
    /\ pc[t] = "copy"
    /\ End(t)
    /\ overlap' = overlap \ {t}
    /\ UNCHANGED <<driver, mem, mutex, f_pos>>

\* A page of the caller is not there: -EFAULT, and the position stays.
Fault(t) ==
    /\ pc[t] = "copy"
    /\ mutex' = NoTask
    /\ End(t)
    /\ overlap' = overlap \ {t}
    /\ UNCHANGED <<driver, mem, f_pos>>

\* *ppos += count, which the kernel stores in f_pos, also if count is 0.
Return(t) ==
    /\ pc[t] = "return"
    /\ f_pos' = [f_pos EXCEPT ![call[t].file] = call[t].p + call[t].count]
    /\ End(t)
    /\ UNCHANGED <<driver, mem, mutex, overlap>>
-----------------------------------------------------------------------------
(* MEM_CLEAR: memset, without the mutex. *)

Clear(t) ==
    /\ "clear" \in Calls[t]
    /\ pc[t] = "idle"
    /\ Goto(t, "clear")
    /\ UNCHANGED <<driver, mem, mutex, f_pos, call, buf, done, overlap>>

ClearByte(t) ==
    /\ pc[t] = "clear"
    /\ mem' = [mem EXCEPT ![done[t]] = Zero]
    /\ overlap' = {u \in Tasks : pc[u] = "copy"}
    /\ IF done[t] < GLOBALMEM_SIZE - 1 THEN Did(t, done[t] + 1) /\ UNCHANGED <<pc, call, buf>>
                                       ELSE End(t)
    /\ UNCHANGED <<driver, mutex, f_pos>>
-----------------------------------------------------------------------------
(* globalmem_llseek. *)

\* SEEK_SET: the offset is cut to an unsigned int, for the test too.
SeekSet(t, f, offset) ==
    /\ "seek" \in Calls[t]
    /\ pc[t] = "idle"
    /\ offset >= 0
    /\ offset % UIntSize <= GLOBALMEM_SIZE
    /\ f_pos' = [f_pos EXCEPT ![f] = offset % UIntSize]
    /\ UNCHANGED <<driver, mem, mutex, pc, call, buf, done, overlap>>

\* Mutant: the second test is missing.
InRange_Above(pos) == pos <= GLOBALMEM_SIZE

InRange(pos) == pos <= GLOBALMEM_SIZE /\ pos >= 0

\* SEEK_CUR: tests f_pos + offset ...
SeekCur(t, f, offset) ==
    /\ "seek" \in Calls[t]
    /\ pc[t] = "idle"
    /\ InRange(f_pos[f] + offset)
    /\ Make(t, [name |-> "seek", file |-> f, p |-> offset, count |-> 0])
    /\ Did(t, f_pos[f])
    /\ Goto(t, "store")
    /\ UNCHANGED <<driver, mem, mutex, f_pos, buf, overlap>>

\* ... and adds offset, to the f_pos that it tested or to one that it reads
\* again, as the compiler likes.
SeekStore(t) ==
    /\ pc[t] = "store"
    /\ LET file == call[t].file IN
       \E base \in {done[t], f_pos[file]} :
           f_pos' = [f_pos EXCEPT ![file] = base + call[t].p]
    /\ End(t)
    /\ UNCHANGED <<driver, mem, mutex, overlap>>
-----------------------------------------------------------------------------
Start(t) ==
    \/ Clear(t)
    \/ \E f \in Uses[t] :
           \/ Read(t, f) \/ Write(t, f)
           \/ \E offset \in Offsets : SeekSet(t, f, offset) \/ SeekCur(t, f, offset)

GoOn(t) ==
    \/ Lock(t) \/ NoLock(t) \/ Copy(t) \/ Unlock(t) \/ Fault(t) \/ Return(t)
    \/ ClearByte(t) \/ SeekStore(t)

Next == \E t \in Tasks : Start(t) \/ GoOn(t)

Spec == Init /\ [][Next]_vars

\* A call goes on, and mutex_lock, which hands the mutex over in turn, gets it
\* in the end.  Nothing makes a task call.
Fairness == \A t \in Tasks : WF_vars(GoOn(t)) /\ SF_vars(Lock(t))

FairSpec == Spec /\ Fairness
-----------------------------------------------------------------------------
(* Properties. *)

\* Whatever concurrent seeks make of f_pos, no copy leaves the memory.
CopiesInBounds ==
    \A t \in Tasks : pc[t] \in {"lock", "copy"} =>
        call[t].p \in Index /\ call[t].p + call[t].count <= GLOBALMEM_SIZE

\* What t has copied so far is what is in the memory now: no other call has
\* written in between, that is, globalmem's reads and writes are atomic.  Only
\* MEM_CLEAR, which takes no mutex, can get in between.
CopiesAtomic ==
    driver = "globalmem" => \A t \in Tasks : pc[t] = "copy" /\ t \notin overlap =>
        \A i \in 1 .. done[t] : buf[t][i] = mem[call[t].p + i - 1]

\* The position of a file that is not shared stays within the memory, although
\* SEEK_CUR tests and computes it apart.  (Two tasks that share a file can get
\* it out of range, see the README.)
PositionInRange ==
    \A f \in Files :
        (\A t, u \in Tasks : f \in Uses[t] /\ f \in Uses[u] => t = u)
            => f_pos[f] \in 0 .. GLOBALMEM_SIZE

\* Every call returns, after a fault too.
CallsEnd == \A t \in Tasks : pc[t] # "idle" ~> pc[t] = "idle"
=============================================================================
