------------------------- MODULE GlobalFifo_proofs -------------------------
(***************************************************************************)
(* Proofs about GlobalFifo for every set of tasks, every FIFO size and     *)
(* every set of programs.                                                  *)
(***************************************************************************)
EXTENDS GlobalFifo, SequenceTheorems, TLAPS

\* What a reader copies out of the FIFO is a sequence of bytes.
LEMMA CopiedBytes ==
    ASSUME NEW n \in Nat, NEW m, \A i \in 0 .. n - 1 : m[i] \in Byte
    PROVE  /\ [i \in 1 .. n |-> m[i - 1]] \in Seq(Byte)
           /\ Len([i \in 1 .. n |-> m[i - 1]]) = n
<1>1. \A i \in 1 .. n : m[i - 1] \in Byte
  OBVIOUS
<1>2. [i \in 1 .. n |-> m[i - 1]] \in [1 .. n -> Byte]
  BY <1>1
<1>3. [i \in 1 .. n |-> m[i - 1]] \in Seq(Byte)
  BY <1>2, SeqDef
<1> QED
  BY <1>2, <1>3, LenProperties

-----------------------------------------------------------------------------
(* Every step is a step of one task.  The lemma spares each proof below the *)
(* way through Program, Kernel, Read and Write.                             *)

LEMMA StepCases ==
    ASSUME Next
    PROVE  \E t \in Tasks :
        \/ Open(t) \/ Release(t) \/ Fasync(t) \/ Deliver(t) \/ CallClear(t)
        \/ \E n \in ReadCounts : CallRead(t, n)
        \/ \E data \in Payloads : CallWrite(t, data)
        \/ \E events \in PollEvents : CallPoll(t, events)
        \/ Signal(t)
        \/ /\ call[t] \in {"read", "write"}
           /\ \/ Lock(t) \/ Again(t) \/ Park(t) \/ Unlock(t) \/ Resume(t)
              \/ Relock(t) \/ Fault(t) \/ Out(t) \/ Out2(t)
        \/ ReadCopy(t) \/ ReadShift(t) \/ WriteCopy(t) \/ WriteCommit(t)
        \/ Poll(t) \/ PollWake(t) \/ PollTimeout(t) \/ PollReturn(t)
        \/ Clear(t)
  BY DEF Next, Program, Kernel, Read, Write

-----------------------------------------------------------------------------
(* Type correctness. *)

\* The variables start in their types.
LEMMA TypeInit == Init => TypeOK
<1>1. \A S : <<>> \in Seq(S)
  OBVIOUS
<1> QED
  BY <1>1, GlobalFifoAssumption
  DEF Init, TypeOK, Points, Critical, Queues, Events

\* Bytes copied into mem leave it an array of bytes.
LEMMA CopiedInType ==
    ASSUME TypeOK, NEW n \in Nat, NEW data, \A i \in 1 .. n : data[i] \in Byte
    PROVE  CopiedIn(data, n) \in [0 .. GLOBALFIFO_SIZE - 1 -> Byte]
  BY GlobalFifoAssumption DEF CopiedIn, TypeOK

-----------------------------------------------------------------------------
\* The inductive invariant, a named part at a time.

\* The mutex is held exactly at the Critical points.
LockInv == \A t \in Tasks : mutex = t <=> pc[t] \in Critical

\* A handler never asks for more bytes than the program gave it, and from
\* the clamp to the transfer there is room, or data, for what it moves.
CountInv ==
    \A t \in Tasks :
        /\ call[t] = "write" => cnt[t] <= Len(ubuf[t])
        /\ pc[t] = "xfer" /\ call[t] = "read" =>
                current_len # 0 /\ cnt[t] <= current_len
        /\ pc[t] = "xfer" /\ call[t] = "write" =>
                /\ current_len < GLOBALFIFO_SIZE
                /\ cnt[t] <= GLOBALFIFO_SIZE - current_len

\* Which call a task is in says where it can be.
CallInv ==
    \A t \in Tasks :
        /\ pc[t] \in {"closed", "user"} => call[t] = "none"
        /\ pc[t] \in Critical \cup {"lock", "sched", "relock"} =>
                call[t] \in {"read", "write"}
        /\ pc[t] = "out2" => call[t] \in {"read", "write", "poll"}
        /\ pc[t] \in {"poll", "pwait", "last"} => call[t] = "poll"
        /\ pc[t] = "ioctl" => call[t] = "clear"

\* The points between add_wait_queue and remove_wait_queue.
Queued == Critical \cup {"sched", "relock", "out2"}

\* Every entry of a queue belongs to a call in progress that put it there,
\* and a call that may sleep has its entries in place.
QueueInv ==
    \A t \in Tasks :
        /\ \A q \in Queues : t \in wait[q] =>
                \/ call[t] = "poll"
                \/ call[t] \in {"read", "write"} /\ q = OwnQueue(call[t])
                        /\ pc[t] \in Queued
        /\ pc[t] \in Queued /\ call[t] \in {"read", "write"} =>
                t \in wait[OwnQueue(call[t])]
        /\ pc[t] = "pwait" => \A q \in Queues : t \in wait[q]

\* A task is in a sleeping state only for as long as it has to wait.  This
\* covers the tasks that have not reached schedule() yet.
SleepInv ==
    \A t \in Tasks : state[t] = "INTERRUPTIBLE" =>
        /\ pc[t] \in {"unlock", "sched"}
        /\ call[t] = "read" => current_len = 0
        /\ call[t] = "write" /\ Clearers = {} => current_len = GLOBALFIFO_SIZE

AsyncInv == \A t \in Tasks : pc[t] = "closed" => t \notin async_queue

ClearInv == \A t \in Tasks : pc[t] = "ioctl" => t \in Clearers

IInv ==
    /\ TypeOK /\ LockInv /\ CountInv /\ CallInv /\ QueueInv /\ SleepInv
    /\ PollersNotStranded /\ AsyncInv /\ ClearInv

\* What the two parties to a transfer have copied so far.
CopyInv ==
    \A t \in Tasks :
        /\ pc[t] = "xfer" /\ call[t] = "read" =>
                ubuf[t] = [i \in 1 .. cnt[t] |-> mem[i - 1]]
        /\ pc[t] = "xfer" /\ call[t] = "write" =>
                \A i \in 1 .. cnt[t] : mem[current_len + i - 1] = ubuf[t][i]
        /\ \/ call[t] \notin {"read", "write"}
           \/ call[t] = "read" /\ pc[t] \notin {"xfer", "out", "out2"}
           => ubuf[t] = <<>>

\* No handler step leaves the types.  CountInv keeps the transfers in range.
LEMMA TypeStep ==
    ASSUME TypeOK, CountInv, [Next]_vars
    PROVE  TypeOK'
<1> USE GlobalFifoAssumption
    DEF TypeOK, Points, Critical, Queues, Events, Goto, AcquireMutex, ReleaseMutex,
        MakeRunnable, OwnQueue, fifo, task, sched
<1>1. ASSUME NEW t \in Tasks, Open(t) PROVE TypeOK'
  BY <1>1 DEF Open
<1>2. ASSUME NEW t \in Tasks, Release(t) PROVE TypeOK'
  BY <1>2 DEF Release
<1>3. ASSUME NEW t \in Tasks, Fasync(t) PROVE TypeOK'
  BY <1>3 DEF Fasync
<1>4. ASSUME NEW t \in Tasks, NEW n \in ReadCounts, CallRead(t, n) PROVE TypeOK'
  BY <1>4 DEF CallRead
<1>5. ASSUME NEW t \in Tasks, NEW data \in Payloads, CallWrite(t, data) PROVE TypeOK'
  BY <1>5 DEF CallWrite
<1>6. ASSUME NEW t \in Tasks, NEW events \in PollEvents, CallPoll(t, events) PROVE TypeOK'
  BY <1>6 DEF CallPoll
<1>7. ASSUME NEW t \in Tasks, CallClear(t) PROVE TypeOK'
  BY <1>7 DEF CallClear
<1>8. ASSUME NEW t \in Tasks, Signal(t) PROVE TypeOK'
  BY <1>8 DEF Signal
<1>9. ASSUME NEW t \in Tasks, Deliver(t) PROVE TypeOK'
  BY <1>9 DEF Deliver
<1>10. ASSUME NEW t \in Tasks, call[t] \in {"read", "write"}, Lock(t) PROVE TypeOK'
  BY <1>10 DEF Lock
<1>11. ASSUME NEW t \in Tasks, Again(t) PROVE TypeOK'
  BY <1>11 DEF Again, EAGAIN
<1>12. ASSUME NEW t \in Tasks, call[t] \in {"read", "write"}, Park(t) PROVE TypeOK'
  BY <1>12 DEF Park
<1>13. ASSUME NEW t \in Tasks, call[t] \in {"read", "write"}, Unlock(t) PROVE TypeOK'
  BY <1>13 DEF Unlock
<1>14. ASSUME NEW t \in Tasks, call[t] \in {"read", "write"}, Resume(t) PROVE TypeOK'
  <2>1. state' \in [Tasks -> {"RUNNING", "INTERRUPTIBLE"}]
    BY <1>14 DEF Resume
  <2>2. pc' \in [Tasks -> Points]
    BY <1>14 DEF Resume
  <2>3. ret' \in [Tasks -> Int]
    <3>1. ERESTARTSYS \in Int
      BY DEF ERESTARTSYS
    <3> QED
      BY <1>14, <3>1 DEF Resume
  <2> QED
    BY <1>14, <2>1, <2>2, <2>3 DEF Resume
<1>15. ASSUME NEW t \in Tasks, call[t] \in {"read", "write"}, Relock(t) PROVE TypeOK'
  BY <1>15 DEF Relock
<1>16. ASSUME NEW t \in Tasks, ReadCopy(t) PROVE TypeOK'
  <2> DEFINE n == Clamp(cnt[t], Available("read"))
             copy == [i \in 1 .. n |-> mem[i - 1]]
  <2>1. n \in 0 .. current_len
    BY DEF Clamp, Available
  <2>2. copy \in Seq(Byte)
    <3>1. n \in Nat /\ \A i \in 0 .. n - 1 : mem[i] \in Byte
      BY <2>1
    <3> HIDE DEF n
    <3> QED
      BY <3>1, CopiedBytes
  <2>3. /\ cnt' = [cnt EXCEPT ![t] = n]
        /\ ubuf' = [ubuf EXCEPT ![t] = copy]
    BY <1>16 DEF ReadCopy
  <2> HIDE DEF n, copy
  <2>4. cnt' \in [Tasks -> Nat] /\ ubuf' \in [Tasks -> Seq(Byte)]
    BY <2>1, <2>2, <2>3
  <2> QED
    BY <1>16, <2>4 DEF ReadCopy
<1>17. ASSUME NEW t \in Tasks, call[t] \in {"read", "write"}, Fault(t) PROVE TypeOK'
  <2> DEFINE n == Clamp(cnt[t], Available(call[t]))
             upto(k) == [i \in 1 .. n |-> IF i <= k THEN ubuf[t][i] ELSE Zero]
  <2>1. n \in Nat /\ n <= cnt[t]
    BY DEF Clamp, Available
  <2>2. cnt' = [cnt EXCEPT ![t] = n]
    BY <1>17 DEF Fault
  <2>3. CASE call[t] = "write"
    <3>1. n <= Len(ubuf[t])
      BY <2>1, <2>3 DEF CountInv
    <3>2. PICK k \in 0 .. n - 1 : mem' = CopiedIn(upto(k), n)
      BY <1>17, <2>3 DEF Fault
    <3>3. \A i \in 1 .. n : upto(k)[i] \in Byte
      BY <2>1, <3>1
    <3> HIDE DEF n, upto
    <3>4. mem' \in [0 .. GLOBALFIFO_SIZE - 1 -> Byte]
      BY <2>1, <3>2, <3>3, CopiedInType
    <3> QED
      BY <1>17, <2>1, <2>2, <3>4 DEF Fault, EFAULT
  <2>4. CASE call[t] = "read"
    <3>1. UNCHANGED mem
      BY <1>17, <2>4 DEF Fault
    <3> HIDE DEF n, upto
    <3> QED
      BY <1>17, <2>1, <2>2, <3>1 DEF Fault, EFAULT
  <2> QED
    BY <1>17, <2>3, <2>4
<1>18. ASSUME NEW t \in Tasks, ReadShift(t) PROVE TypeOK'
  <2>1. cnt[t] \in 0 .. current_len
    BY <1>18 DEF ReadShift, CountInv
  <2>2. mem' \in [0 .. GLOBALFIFO_SIZE - 1 -> Byte]
    <3>1. PICK order \in CopyOrders :
            mem' = [i \in DOMAIN mem |-> AfterMemcpy(cnt[t], current_len, order, i)]
      BY <1>18 DEF ReadShift
    <3>2. \A i \in 0 .. GLOBALFIFO_SIZE - 1 :
            AfterMemcpy(cnt[t], current_len, order, i) \in Byte
      <4> SUFFICES ASSUME NEW i \in 0 .. GLOBALFIFO_SIZE - 1
                   PROVE  AfterMemcpy(cnt[t], current_len, order, i) \in Byte
        OBVIOUS
      <4>1. CASE i >= current_len - cnt[t] \/ cnt[t] = 0
        BY <2>1, <4>1 DEF AfterMemcpy
      <4>2. CASE i < current_len - cnt[t] /\ cnt[t] > 0 /\ order = "ascending"
        BY <2>1, <4>2 DEF AfterMemcpy
      <4>3. CASE i < current_len - cnt[t] /\ cnt[t] > 0 /\ order # "ascending"
        <5>1. (i - (current_len - cnt[t])) % cnt[t] \in 0 .. cnt[t] - 1
          BY <2>1, <4>3
        <5> QED
          BY <2>1, <4>3, <5>1 DEF AfterMemcpy
      <4> QED
        BY <2>1, <4>1, <4>2, <4>3
    <3> QED
      BY <3>1, <3>2
  <2>3. current_len' \in 0 .. GLOBALFIFO_SIZE
    BY <1>18, <2>1 DEF ReadShift
  <2>4. state' \in [Tasks -> {"RUNNING", "INTERRUPTIBLE"}] /\ triggered' \subseteq Tasks
    BY <1>18 DEF ReadShift, WakeUp, PollersOf
  <2>5. pc' \in [Tasks -> Points] /\ ret' \in [Tasks -> Int]
    BY <1>18, <2>1 DEF ReadShift
  <2>6. UNCHANGED <<mutex, wait, async_queue, sigpending, call, cnt, ubuf, want>>
    BY <1>18 DEF ReadShift
  <2> QED
    BY <2>2, <2>3, <2>4, <2>5, <2>6
<1>19. ASSUME NEW t \in Tasks, WriteCopy(t) PROVE TypeOK'
  <2> DEFINE n == Clamp(cnt[t], Available("write"))
  <2>1. n \in Nat /\ n <= cnt[t]
    BY DEF Clamp, Available
  <2>2. \A i \in 1 .. n : ubuf[t][i] \in Byte
    BY <1>19, <2>1 DEF WriteCopy, CountInv
  <2>3. cnt' = [cnt EXCEPT ![t] = n] /\ mem' = CopiedIn(ubuf[t], n)
    BY <1>19 DEF WriteCopy
  <2> HIDE DEF n
  <2>4. mem' \in [0 .. GLOBALFIFO_SIZE - 1 -> Byte]
    BY <2>1, <2>2, <2>3, CopiedInType
  <2> QED
    BY <1>19, <2>1, <2>3, <2>4 DEF WriteCopy
<1>20. ASSUME NEW t \in Tasks, WriteCommit(t) PROVE TypeOK'
  <2>1. current_len' \in 0 .. GLOBALFIFO_SIZE
    BY <1>20 DEF WriteCommit, CountInv
  <2>2. state' \in [Tasks -> {"RUNNING", "INTERRUPTIBLE"}] /\ triggered' \subseteq Tasks
    BY <1>20 DEF WriteCommit, PollersOf
  <2> QED
    BY <1>20, <2>1, <2>2 DEF WriteCommit
<1>21. ASSUME NEW t \in Tasks, call[t] \in {"read", "write"}, Out(t) PROVE TypeOK'
  BY <1>21 DEF Out
<1>22. ASSUME NEW t \in Tasks, call[t] \in {"read", "write"}, Out2(t) PROVE TypeOK'
  BY <1>22 DEF Out2
<1>23. ASSUME NEW t \in Tasks, Poll(t) PROVE TypeOK'
  BY <1>23 DEF Poll
<1>24. ASSUME NEW t \in Tasks, PollWake(t) PROVE TypeOK'
  BY <1>24 DEF PollWake
<1>25. ASSUME NEW t \in Tasks, PollTimeout(t) PROVE TypeOK'
  BY <1>25 DEF PollTimeout
<1>26. ASSUME NEW t \in Tasks, PollReturn(t) PROVE TypeOK'
  BY <1>26 DEF PollReturn
<1>27. ASSUME NEW t \in Tasks, Clear(t) PROVE TypeOK'
  BY <1>27 DEF Clear
<1>28. CASE UNCHANGED vars
  BY <1>28 DEF vars
<1> QED
  BY StepCases, <1>1, <1>2, <1>3, <1>4, <1>5, <1>6, <1>7, <1>8, <1>9, <1>10, <1>11, <1>12, <1>13, <1>14, <1>15, <1>16, <1>17, <1>18, <1>19, <1>20, <1>21, <1>22, <1>23, <1>24, <1>25, <1>26, <1>27, <1>28

\* Only the owner of the mutex is at a Critical point, after every step.
LEMMA LockStep ==
    ASSUME TypeOK, LockInv, [Next]_vars
    PROVE  LockInv'
<1> USE GlobalFifoAssumption
    DEF TypeOK, LockInv, Points, Critical, Goto, AcquireMutex, ReleaseMutex, fifo, task, sched
<1>1. ASSUME NEW t \in Tasks, Open(t) PROVE LockInv'
  BY <1>1 DEF Open
<1>2. ASSUME NEW t \in Tasks, Release(t) PROVE LockInv'
  BY <1>2 DEF Release
<1>3. ASSUME NEW t \in Tasks, Fasync(t) PROVE LockInv'
  BY <1>3 DEF Fasync
<1>4. ASSUME NEW t \in Tasks, NEW n \in ReadCounts, CallRead(t, n) PROVE LockInv'
  BY <1>4 DEF CallRead
<1>5. ASSUME NEW t \in Tasks, NEW data \in Payloads, CallWrite(t, data) PROVE LockInv'
  BY <1>5 DEF CallWrite
<1>6. ASSUME NEW t \in Tasks, NEW events \in PollEvents, CallPoll(t, events) PROVE LockInv'
  BY <1>6 DEF CallPoll
<1>7. ASSUME NEW t \in Tasks, CallClear(t) PROVE LockInv'
  BY <1>7 DEF CallClear
<1>8. ASSUME NEW t \in Tasks, Signal(t) PROVE LockInv'
  BY <1>8 DEF Signal
<1>9. ASSUME NEW t \in Tasks, Deliver(t) PROVE LockInv'
  BY <1>9 DEF Deliver
<1>10. ASSUME NEW t \in Tasks, call[t] \in {"read", "write"}, Lock(t) PROVE LockInv'
  BY <1>10 DEF Lock
<1>11. ASSUME NEW t \in Tasks, Again(t) PROVE LockInv'
  BY <1>11 DEF Again
<1>12. ASSUME NEW t \in Tasks, call[t] \in {"read", "write"}, Park(t) PROVE LockInv'
  BY <1>12 DEF Park
<1>13. ASSUME NEW t \in Tasks, call[t] \in {"read", "write"}, Unlock(t) PROVE LockInv'
  BY <1>13 DEF Unlock
<1>14. ASSUME NEW t \in Tasks, call[t] \in {"read", "write"}, Resume(t) PROVE LockInv'
  BY <1>14 DEF Resume
<1>15. ASSUME NEW t \in Tasks, call[t] \in {"read", "write"}, Relock(t) PROVE LockInv'
  BY <1>15 DEF Relock
<1>16. ASSUME NEW t \in Tasks, ReadCopy(t) PROVE LockInv'
  BY <1>16 DEF ReadCopy
<1>17. ASSUME NEW t \in Tasks, call[t] \in {"read", "write"}, Fault(t) PROVE LockInv'
  BY <1>17 DEF Fault
<1>18. ASSUME NEW t \in Tasks, ReadShift(t) PROVE LockInv'
  BY <1>18 DEF ReadShift
<1>19. ASSUME NEW t \in Tasks, WriteCopy(t) PROVE LockInv'
  BY <1>19 DEF WriteCopy
<1>20. ASSUME NEW t \in Tasks, WriteCommit(t) PROVE LockInv'
  BY <1>20 DEF WriteCommit
<1>21. ASSUME NEW t \in Tasks, call[t] \in {"read", "write"}, Out(t) PROVE LockInv'
  BY <1>21 DEF Out
<1>22. ASSUME NEW t \in Tasks, call[t] \in {"read", "write"}, Out2(t) PROVE LockInv'
  BY <1>22 DEF Out2
<1>23. ASSUME NEW t \in Tasks, Poll(t) PROVE LockInv'
  BY <1>23 DEF Poll
<1>24. ASSUME NEW t \in Tasks, PollWake(t) PROVE LockInv'
  BY <1>24 DEF PollWake
<1>25. ASSUME NEW t \in Tasks, PollTimeout(t) PROVE LockInv'
  BY <1>25 DEF PollTimeout
<1>26. ASSUME NEW t \in Tasks, PollReturn(t) PROVE LockInv'
  BY <1>26 DEF PollReturn
<1>27. ASSUME NEW t \in Tasks, Clear(t) PROVE LockInv'
  BY <1>27 DEF Clear
<1>28. CASE UNCHANGED vars
  BY <1>28 DEF vars
<1> QED
  BY StepCases, <1>1, <1>2, <1>3, <1>4, <1>5, <1>6, <1>7, <1>8, <1>9, <1>10, <1>11, <1>12, <1>13, <1>14, <1>15, <1>16, <1>17, <1>18, <1>19, <1>20, <1>21, <1>22, <1>23, <1>24, <1>25, <1>26, <1>27, <1>28

\* What the clamp has checked still holds at the transfer: current_len only
\* changes under the mutex, which the task holds from the one to the other.
LEMMA CountStep ==
    ASSUME TypeOK, TypeOK', LockInv, CountInv, [Next]_vars
    PROVE  CountInv'
<1> USE GlobalFifoAssumption
    DEF TypeOK, LockInv, CountInv, Points, Critical, Goto, AcquireMutex, ReleaseMutex, fifo, task, sched
<1>1. ASSUME NEW t \in Tasks, Open(t) PROVE CountInv'
  BY <1>1 DEF Open
<1>2. ASSUME NEW t \in Tasks, Release(t) PROVE CountInv'
  BY <1>2 DEF Release
<1>3. ASSUME NEW t \in Tasks, Fasync(t) PROVE CountInv'
  BY <1>3 DEF Fasync
<1>4. ASSUME NEW t \in Tasks, NEW n \in ReadCounts, CallRead(t, n) PROVE CountInv'
  BY <1>4 DEF CallRead
<1>5. ASSUME NEW t \in Tasks, NEW data \in Payloads, CallWrite(t, data) PROVE CountInv'
  BY <1>5 DEF CallWrite
<1>6. ASSUME NEW t \in Tasks, NEW events \in PollEvents, CallPoll(t, events) PROVE CountInv'
  BY <1>6 DEF CallPoll
<1>7. ASSUME NEW t \in Tasks, CallClear(t) PROVE CountInv'
  BY <1>7 DEF CallClear
<1>8. ASSUME NEW t \in Tasks, Signal(t) PROVE CountInv'
  BY <1>8 DEF Signal
<1>9. ASSUME NEW t \in Tasks, Deliver(t) PROVE CountInv'
  BY <1>9 DEF Deliver
<1>10. ASSUME NEW t \in Tasks, call[t] \in {"read", "write"}, Lock(t) PROVE CountInv'
  BY <1>10 DEF Lock
<1>11. ASSUME NEW t \in Tasks, Again(t) PROVE CountInv'
  BY <1>11 DEF Again
<1>12. ASSUME NEW t \in Tasks, call[t] \in {"read", "write"}, Park(t) PROVE CountInv'
  BY <1>12 DEF Park
<1>13. ASSUME NEW t \in Tasks, call[t] \in {"read", "write"}, Unlock(t) PROVE CountInv'
  BY <1>13 DEF Unlock
<1>14. ASSUME NEW t \in Tasks, call[t] \in {"read", "write"}, Resume(t) PROVE CountInv'
  BY <1>14 DEF Resume
<1>15. ASSUME NEW t \in Tasks, call[t] \in {"read", "write"}, Relock(t) PROVE CountInv'
  BY <1>15 DEF Relock
<1>16. ASSUME NEW t \in Tasks, ReadCopy(t) PROVE CountInv'
  BY <1>16 DEF ReadCopy, Clamp, Available, MustWait
<1>17. ASSUME NEW t \in Tasks, call[t] \in {"read", "write"}, Fault(t) PROVE CountInv'
  BY <1>17 DEF Fault, Clamp, Available
<1>18. ASSUME NEW t \in Tasks, ReadShift(t) PROVE CountInv'
  BY <1>18 DEF ReadShift
<1>19. ASSUME NEW t \in Tasks, WriteCopy(t) PROVE CountInv'
  BY <1>19 DEF WriteCopy, Clamp, Available, MustWait
<1>20. ASSUME NEW t \in Tasks, WriteCommit(t) PROVE CountInv'
  BY <1>20 DEF WriteCommit
<1>21. ASSUME NEW t \in Tasks, call[t] \in {"read", "write"}, Out(t) PROVE CountInv'
  BY <1>21 DEF Out
<1>22. ASSUME NEW t \in Tasks, call[t] \in {"read", "write"}, Out2(t) PROVE CountInv'
  BY <1>22 DEF Out2
<1>23. ASSUME NEW t \in Tasks, Poll(t) PROVE CountInv'
  BY <1>23 DEF Poll
<1>24. ASSUME NEW t \in Tasks, PollWake(t) PROVE CountInv'
  BY <1>24 DEF PollWake
<1>25. ASSUME NEW t \in Tasks, PollTimeout(t) PROVE CountInv'
  BY <1>25 DEF PollTimeout
<1>26. ASSUME NEW t \in Tasks, PollReturn(t) PROVE CountInv'
  BY <1>26 DEF PollReturn
<1>27. ASSUME NEW t \in Tasks, Clear(t) PROVE CountInv'
  BY <1>27 DEF Clear
<1>28. CASE UNCHANGED vars
  BY <1>28 DEF vars
<1> QED
  BY StepCases, <1>1, <1>2, <1>3, <1>4, <1>5, <1>6, <1>7, <1>8, <1>9, <1>10, <1>11, <1>12, <1>13, <1>14, <1>15, <1>16, <1>17, <1>18, <1>19, <1>20, <1>21, <1>22, <1>23, <1>24, <1>25, <1>26, <1>27, <1>28

\* The program points of a call are reached by that call only.
LEMMA CallStep ==
    ASSUME TypeOK, CallInv, [Next]_vars
    PROVE  CallInv'
<1> USE GlobalFifoAssumption
    DEF TypeOK, CallInv, Points, Critical, Goto, AcquireMutex, ReleaseMutex, fifo, task, sched
<1>1. ASSUME NEW t \in Tasks, Open(t) PROVE CallInv'
  BY <1>1 DEF Open
<1>2. ASSUME NEW t \in Tasks, Release(t) PROVE CallInv'
  BY <1>2 DEF Release
<1>3. ASSUME NEW t \in Tasks, Fasync(t) PROVE CallInv'
  BY <1>3 DEF Fasync
<1>4. ASSUME NEW t \in Tasks, NEW n \in ReadCounts, CallRead(t, n) PROVE CallInv'
  BY <1>4 DEF CallRead
<1>5. ASSUME NEW t \in Tasks, NEW data \in Payloads, CallWrite(t, data) PROVE CallInv'
  BY <1>5 DEF CallWrite
<1>6. ASSUME NEW t \in Tasks, NEW events \in PollEvents, CallPoll(t, events) PROVE CallInv'
  BY <1>6 DEF CallPoll
<1>7. ASSUME NEW t \in Tasks, CallClear(t) PROVE CallInv'
  BY <1>7 DEF CallClear
<1>8. ASSUME NEW t \in Tasks, Signal(t) PROVE CallInv'
  BY <1>8 DEF Signal
<1>9. ASSUME NEW t \in Tasks, Deliver(t) PROVE CallInv'
  BY <1>9 DEF Deliver
<1>10. ASSUME NEW t \in Tasks, call[t] \in {"read", "write"}, Lock(t) PROVE CallInv'
  BY <1>10 DEF Lock
<1>11. ASSUME NEW t \in Tasks, call[t] \in {"read", "write"}, Again(t) PROVE CallInv'
  BY <1>11 DEF Again
<1>12. ASSUME NEW t \in Tasks, call[t] \in {"read", "write"}, Park(t) PROVE CallInv'
  BY <1>12 DEF Park
<1>13. ASSUME NEW t \in Tasks, call[t] \in {"read", "write"}, Unlock(t) PROVE CallInv'
  BY <1>13 DEF Unlock
<1>14. ASSUME NEW t \in Tasks, call[t] \in {"read", "write"}, Resume(t) PROVE CallInv'
  BY <1>14 DEF Resume
<1>15. ASSUME NEW t \in Tasks, call[t] \in {"read", "write"}, Relock(t) PROVE CallInv'
  BY <1>15 DEF Relock
<1>16. ASSUME NEW t \in Tasks, ReadCopy(t) PROVE CallInv'
  BY <1>16 DEF ReadCopy
<1>17. ASSUME NEW t \in Tasks, call[t] \in {"read", "write"}, Fault(t) PROVE CallInv'
  BY <1>17 DEF Fault
<1>18. ASSUME NEW t \in Tasks, ReadShift(t) PROVE CallInv'
  BY <1>18 DEF ReadShift
<1>19. ASSUME NEW t \in Tasks, WriteCopy(t) PROVE CallInv'
  BY <1>19 DEF WriteCopy
<1>20. ASSUME NEW t \in Tasks, WriteCommit(t) PROVE CallInv'
  BY <1>20 DEF WriteCommit
<1>21. ASSUME NEW t \in Tasks, call[t] \in {"read", "write"}, Out(t) PROVE CallInv'
  BY <1>21 DEF Out
<1>22. ASSUME NEW t \in Tasks, call[t] \in {"read", "write"}, Out2(t) PROVE CallInv'
  BY <1>22 DEF Out2
<1>23. ASSUME NEW t \in Tasks, Poll(t) PROVE CallInv'
  BY <1>23 DEF Poll
<1>24. ASSUME NEW t \in Tasks, PollWake(t) PROVE CallInv'
  BY <1>24 DEF PollWake
<1>25. ASSUME NEW t \in Tasks, PollTimeout(t) PROVE CallInv'
  BY <1>25 DEF PollTimeout
<1>26. ASSUME NEW t \in Tasks, PollReturn(t) PROVE CallInv'
  BY <1>26 DEF PollReturn
<1>27. ASSUME NEW t \in Tasks, Clear(t) PROVE CallInv'
  BY <1>27 DEF Clear
<1>28. CASE UNCHANGED vars
  BY <1>28 DEF vars
<1> QED
  BY StepCases, <1>1, <1>2, <1>3, <1>4, <1>5, <1>6, <1>7, <1>8, <1>9, <1>10, <1>11, <1>12, <1>13, <1>14, <1>15, <1>16, <1>17, <1>18, <1>19, <1>20, <1>21, <1>22, <1>23, <1>24, <1>25, <1>26, <1>27, <1>28

\* Calls put themselves on their own queue and stay there until out2.
LEMMA QueueStep ==
    ASSUME TypeOK, CallInv, QueueInv, [Next]_vars
    PROVE  QueueInv'
<1> USE GlobalFifoAssumption
    DEF TypeOK, CallInv, QueueInv, Queued, Queues, OwnQueue, Points, Critical, Goto, AcquireMutex, ReleaseMutex, fifo, task, sched
<1>1. ASSUME NEW t \in Tasks, Open(t) PROVE QueueInv'
  BY <1>1 DEF Open
<1>2. ASSUME NEW t \in Tasks, Release(t) PROVE QueueInv'
  BY <1>2 DEF Release
<1>3. ASSUME NEW t \in Tasks, Fasync(t) PROVE QueueInv'
  BY <1>3 DEF Fasync
<1>4. ASSUME NEW t \in Tasks, NEW n \in ReadCounts, CallRead(t, n) PROVE QueueInv'
  BY <1>4 DEF CallRead
<1>5. ASSUME NEW t \in Tasks, NEW data \in Payloads, CallWrite(t, data) PROVE QueueInv'
  BY <1>5 DEF CallWrite
<1>6. ASSUME NEW t \in Tasks, NEW events \in PollEvents, CallPoll(t, events) PROVE QueueInv'
  BY <1>6 DEF CallPoll
<1>7. ASSUME NEW t \in Tasks, CallClear(t) PROVE QueueInv'
  BY <1>7 DEF CallClear
<1>8. ASSUME NEW t \in Tasks, Signal(t) PROVE QueueInv'
  BY <1>8 DEF Signal
<1>9. ASSUME NEW t \in Tasks, Deliver(t) PROVE QueueInv'
  BY <1>9 DEF Deliver
<1>10. ASSUME NEW t \in Tasks, call[t] \in {"read", "write"}, Lock(t) PROVE QueueInv'
  BY <1>10 DEF Lock
<1>11. ASSUME NEW t \in Tasks, call[t] \in {"read", "write"}, Again(t) PROVE QueueInv'
  BY <1>11 DEF Again
<1>12. ASSUME NEW t \in Tasks, call[t] \in {"read", "write"}, Park(t) PROVE QueueInv'
  BY <1>12 DEF Park
<1>13. ASSUME NEW t \in Tasks, call[t] \in {"read", "write"}, Unlock(t) PROVE QueueInv'
  BY <1>13 DEF Unlock
<1>14. ASSUME NEW t \in Tasks, call[t] \in {"read", "write"}, Resume(t) PROVE QueueInv'
  BY <1>14 DEF Resume
<1>15. ASSUME NEW t \in Tasks, call[t] \in {"read", "write"}, Relock(t) PROVE QueueInv'
  BY <1>15 DEF Relock
<1>16. ASSUME NEW t \in Tasks, ReadCopy(t) PROVE QueueInv'
  BY <1>16 DEF ReadCopy
<1>17. ASSUME NEW t \in Tasks, call[t] \in {"read", "write"}, Fault(t) PROVE QueueInv'
  BY <1>17 DEF Fault
<1>18. ASSUME NEW t \in Tasks, ReadShift(t) PROVE QueueInv'
  BY <1>18 DEF ReadShift
<1>19. ASSUME NEW t \in Tasks, WriteCopy(t) PROVE QueueInv'
  BY <1>19 DEF WriteCopy
<1>20. ASSUME NEW t \in Tasks, WriteCommit(t) PROVE QueueInv'
  BY <1>20 DEF WriteCommit
<1>21. ASSUME NEW t \in Tasks, call[t] \in {"read", "write"}, Out(t) PROVE QueueInv'
  BY <1>21 DEF Out
<1>22. ASSUME NEW t \in Tasks, call[t] \in {"read", "write"}, Out2(t) PROVE QueueInv'
  BY <1>22 DEF Out2
<1>23. ASSUME NEW t \in Tasks, Poll(t) PROVE QueueInv'
  BY <1>23 DEF Poll
<1>24. ASSUME NEW t \in Tasks, PollWake(t) PROVE QueueInv'
  BY <1>24 DEF PollWake
<1>25. ASSUME NEW t \in Tasks, PollTimeout(t) PROVE QueueInv'
  BY <1>25 DEF PollTimeout
<1>26. ASSUME NEW t \in Tasks, PollReturn(t) PROVE QueueInv'
  BY <1>26 DEF PollReturn
<1>27. ASSUME NEW t \in Tasks, Clear(t) PROVE QueueInv'
  BY <1>27 DEF Clear
<1>28. CASE UNCHANGED vars
  BY <1>28 DEF vars
<1> QED
  BY StepCases, <1>1, <1>2, <1>3, <1>4, <1>5, <1>6, <1>7, <1>8, <1>9, <1>10, <1>11, <1>12, <1>13, <1>14, <1>15, <1>16, <1>17, <1>18, <1>19, <1>20, <1>21, <1>22, <1>23, <1>24, <1>25, <1>26, <1>27, <1>28

\* A task sleeps under its condition: whoever ends the condition wakes the
\* queue in the same step.
LEMMA SleepStep ==
    ASSUME TypeOK, CountInv, LockInv, CallInv, ClearInv, QueueInv, SleepInv, [Next]_vars
    PROVE  SleepInv'
<1> USE GlobalFifoAssumption
    DEF TypeOK, CountInv, CallInv, LockInv, QueueInv, SleepInv, Queued, Queues, OwnQueue, Points, Critical, Goto, AcquireMutex, ReleaseMutex, fifo, task, sched
<1>1. ASSUME NEW t \in Tasks, Open(t) PROVE SleepInv'
  BY <1>1 DEF Open
<1>2. ASSUME NEW t \in Tasks, Release(t) PROVE SleepInv'
  BY <1>2 DEF Release
<1>3. ASSUME NEW t \in Tasks, Fasync(t) PROVE SleepInv'
  BY <1>3 DEF Fasync
<1>4. ASSUME NEW t \in Tasks, NEW n \in ReadCounts, CallRead(t, n) PROVE SleepInv'
  BY <1>4 DEF CallRead
<1>5. ASSUME NEW t \in Tasks, NEW data \in Payloads, CallWrite(t, data) PROVE SleepInv'
  BY <1>5 DEF CallWrite
<1>6. ASSUME NEW t \in Tasks, NEW events \in PollEvents, CallPoll(t, events) PROVE SleepInv'
  BY <1>6 DEF CallPoll
<1>7. ASSUME NEW t \in Tasks, CallClear(t) PROVE SleepInv'
  BY <1>7 DEF CallClear
<1>8. ASSUME NEW t \in Tasks, Signal(t) PROVE SleepInv'
  BY <1>8 DEF Signal, MakeRunnable
<1>9. ASSUME NEW t \in Tasks, Deliver(t) PROVE SleepInv'
  BY <1>9 DEF Deliver
<1>10. ASSUME NEW t \in Tasks, call[t] \in {"read", "write"}, Lock(t) PROVE SleepInv'
  BY <1>10 DEF Lock
<1>11. ASSUME NEW t \in Tasks, call[t] \in {"read", "write"}, Again(t) PROVE SleepInv'
  BY <1>11 DEF Again
<1>12. ASSUME NEW t \in Tasks, call[t] \in {"read", "write"}, Park(t) PROVE SleepInv'
  BY <1>12 DEF Park, MustWait
<1>13. ASSUME NEW t \in Tasks, call[t] \in {"read", "write"}, Unlock(t) PROVE SleepInv'
  BY <1>13 DEF Unlock
<1>14. ASSUME NEW t \in Tasks, call[t] \in {"read", "write"}, Resume(t) PROVE SleepInv'
  BY <1>14 DEF Resume
<1>15. ASSUME NEW t \in Tasks, call[t] \in {"read", "write"}, Relock(t) PROVE SleepInv'
  BY <1>15 DEF Relock
<1>16. ASSUME NEW t \in Tasks, ReadCopy(t) PROVE SleepInv'
  BY <1>16 DEF ReadCopy
<1>17. ASSUME NEW t \in Tasks, call[t] \in {"read", "write"}, Fault(t) PROVE SleepInv'
  BY <1>17 DEF Fault
<1>18. ASSUME NEW t \in Tasks, ReadShift(t) PROVE SleepInv'
  BY <1>18 DEF ReadShift, WakeUp, Woken, PollersOf, MakeRunnable
<1>19. ASSUME NEW t \in Tasks, WriteCopy(t) PROVE SleepInv'
  BY <1>19 DEF WriteCopy
<1>20. ASSUME NEW t \in Tasks, WriteCommit(t) PROVE SleepInv'
  BY <1>20 DEF WriteCommit, Woken, PollersOf, MakeRunnable
<1>21. ASSUME NEW t \in Tasks, call[t] \in {"read", "write"}, Out(t) PROVE SleepInv'
  BY <1>21 DEF Out
<1>22. ASSUME NEW t \in Tasks, call[t] \in {"read", "write"}, Out2(t) PROVE SleepInv'
  BY <1>22 DEF Out2
<1>23. ASSUME NEW t \in Tasks, Poll(t) PROVE SleepInv'
  BY <1>23 DEF Poll
<1>24. ASSUME NEW t \in Tasks, PollWake(t) PROVE SleepInv'
  BY <1>24 DEF PollWake
<1>25. ASSUME NEW t \in Tasks, PollTimeout(t) PROVE SleepInv'
  BY <1>25 DEF PollTimeout
<1>26. ASSUME NEW t \in Tasks, PollReturn(t) PROVE SleepInv'
  BY <1>26 DEF PollReturn
<1>27. ASSUME NEW t \in Tasks, Clear(t) PROVE SleepInv'
  BY <1>27 DEF Clear, ClearInv, Clearers
<1>28. CASE UNCHANGED vars
  BY <1>28 DEF vars
<1> QED
  BY StepCases, <1>1, <1>2, <1>3, <1>4, <1>5, <1>6, <1>7, <1>8, <1>9, <1>10, <1>11, <1>12, <1>13, <1>14, <1>15, <1>16, <1>17, <1>18, <1>19, <1>20, <1>21, <1>22, <1>23, <1>24, <1>25, <1>26, <1>27, <1>28

\* The same for a poller that no queue has triggered.
LEMMA PollStep ==
    ASSUME TypeOK, CountInv, LockInv, CallInv, ClearInv, QueueInv, PollersNotStranded, [Next]_vars
    PROVE  PollersNotStranded'
<1> USE GlobalFifoAssumption
    DEF TypeOK, CountInv, LockInv, CallInv, QueueInv, PollersNotStranded, Queues, Events, Points, Critical, Goto, AcquireMutex, ReleaseMutex, fifo, task, sched
<1>1. ASSUME NEW t \in Tasks, Open(t) PROVE PollersNotStranded'
  BY <1>1 DEF Open
<1>2. ASSUME NEW t \in Tasks, Release(t) PROVE PollersNotStranded'
  BY <1>2 DEF Release
<1>3. ASSUME NEW t \in Tasks, Fasync(t) PROVE PollersNotStranded'
  BY <1>3 DEF Fasync
<1>4. ASSUME NEW t \in Tasks, NEW n \in ReadCounts, CallRead(t, n) PROVE PollersNotStranded'
  BY <1>4 DEF CallRead
<1>5. ASSUME NEW t \in Tasks, NEW data \in Payloads, CallWrite(t, data) PROVE PollersNotStranded'
  BY <1>5 DEF CallWrite
<1>6. ASSUME NEW t \in Tasks, NEW events \in PollEvents, CallPoll(t, events) PROVE PollersNotStranded'
  BY <1>6 DEF CallPoll
<1>7. ASSUME NEW t \in Tasks, CallClear(t) PROVE PollersNotStranded'
  BY <1>7 DEF CallClear
<1>8. ASSUME NEW t \in Tasks, Signal(t) PROVE PollersNotStranded'
  BY <1>8 DEF Signal, MakeRunnable
<1>9. ASSUME NEW t \in Tasks, Deliver(t) PROVE PollersNotStranded'
  BY <1>9 DEF Deliver
<1>10. ASSUME NEW t \in Tasks, call[t] \in {"read", "write"}, Lock(t) PROVE PollersNotStranded'
  BY <1>10 DEF Lock
<1>11. ASSUME NEW t \in Tasks, call[t] \in {"read", "write"}, Again(t) PROVE PollersNotStranded'
  BY <1>11 DEF Again
<1>12. ASSUME NEW t \in Tasks, call[t] \in {"read", "write"}, Park(t) PROVE PollersNotStranded'
  BY <1>12 DEF Park, MustWait
<1>13. ASSUME NEW t \in Tasks, call[t] \in {"read", "write"}, Unlock(t) PROVE PollersNotStranded'
  BY <1>13 DEF Unlock
<1>14. ASSUME NEW t \in Tasks, call[t] \in {"read", "write"}, Resume(t) PROVE PollersNotStranded'
  BY <1>14 DEF Resume
<1>15. ASSUME NEW t \in Tasks, call[t] \in {"read", "write"}, Relock(t) PROVE PollersNotStranded'
  BY <1>15 DEF Relock
<1>16. ASSUME NEW t \in Tasks, ReadCopy(t) PROVE PollersNotStranded'
  BY <1>16 DEF ReadCopy
<1>17. ASSUME NEW t \in Tasks, call[t] \in {"read", "write"}, Fault(t) PROVE PollersNotStranded'
  BY <1>17 DEF Fault
<1>18. ASSUME NEW t \in Tasks, ReadShift(t) PROVE PollersNotStranded'
  BY <1>18 DEF ReadShift, WakeUp, Woken, PollersOf, MakeRunnable
<1>19. ASSUME NEW t \in Tasks, WriteCopy(t) PROVE PollersNotStranded'
  BY <1>19 DEF WriteCopy
<1>20. ASSUME NEW t \in Tasks, WriteCommit(t) PROVE PollersNotStranded'
  BY <1>20 DEF WriteCommit, Woken, PollersOf, MakeRunnable
<1>21. ASSUME NEW t \in Tasks, call[t] \in {"read", "write"}, Out(t) PROVE PollersNotStranded'
  BY <1>21 DEF Out
<1>22. ASSUME NEW t \in Tasks, call[t] \in {"read", "write"}, Out2(t) PROVE PollersNotStranded'
  BY <1>22 DEF Out2
<1>23. ASSUME NEW t \in Tasks, Poll(t) PROVE PollersNotStranded'
  BY <1>23 DEF Poll, PollMask
<1>24. ASSUME NEW t \in Tasks, PollWake(t) PROVE PollersNotStranded'
  BY <1>24 DEF PollWake
<1>25. ASSUME NEW t \in Tasks, PollTimeout(t) PROVE PollersNotStranded'
  BY <1>25 DEF PollTimeout
<1>26. ASSUME NEW t \in Tasks, PollReturn(t) PROVE PollersNotStranded'
  BY <1>26 DEF PollReturn
<1>27. ASSUME NEW t \in Tasks, Clear(t) PROVE PollersNotStranded'
  BY <1>27 DEF Clear, ClearInv, Clearers
<1>28. CASE UNCHANGED vars
  BY <1>28 DEF vars
<1> QED
  BY StepCases, <1>1, <1>2, <1>3, <1>4, <1>5, <1>6, <1>7, <1>8, <1>9, <1>10, <1>11, <1>12, <1>13, <1>14, <1>15, <1>16, <1>17, <1>18, <1>19, <1>20, <1>21, <1>22, <1>23, <1>24, <1>25, <1>26, <1>27, <1>28

\* globalfifo_release leaves async_queue.
LEMMA AsyncStep ==
    ASSUME TypeOK, AsyncInv, [Next]_vars
    PROVE  AsyncInv'
<1> USE GlobalFifoAssumption
    DEF TypeOK, AsyncInv, Points, Critical, Goto, AcquireMutex, ReleaseMutex, fifo, task, sched
<1>1. ASSUME NEW t \in Tasks, Open(t) PROVE AsyncInv'
  BY <1>1 DEF Open
<1>2. ASSUME NEW t \in Tasks, Release(t) PROVE AsyncInv'
  BY <1>2 DEF Release
<1>3. ASSUME NEW t \in Tasks, Fasync(t) PROVE AsyncInv'
  BY <1>3 DEF Fasync
<1>4. ASSUME NEW t \in Tasks, NEW n \in ReadCounts, CallRead(t, n) PROVE AsyncInv'
  BY <1>4 DEF CallRead
<1>5. ASSUME NEW t \in Tasks, NEW data \in Payloads, CallWrite(t, data) PROVE AsyncInv'
  BY <1>5 DEF CallWrite
<1>6. ASSUME NEW t \in Tasks, NEW events \in PollEvents, CallPoll(t, events) PROVE AsyncInv'
  BY <1>6 DEF CallPoll
<1>7. ASSUME NEW t \in Tasks, CallClear(t) PROVE AsyncInv'
  BY <1>7 DEF CallClear
<1>8. ASSUME NEW t \in Tasks, Signal(t) PROVE AsyncInv'
  BY <1>8 DEF Signal
<1>9. ASSUME NEW t \in Tasks, Deliver(t) PROVE AsyncInv'
  BY <1>9 DEF Deliver
<1>10. ASSUME NEW t \in Tasks, call[t] \in {"read", "write"}, Lock(t) PROVE AsyncInv'
  BY <1>10 DEF Lock
<1>11. ASSUME NEW t \in Tasks, call[t] \in {"read", "write"}, Again(t) PROVE AsyncInv'
  BY <1>11 DEF Again
<1>12. ASSUME NEW t \in Tasks, call[t] \in {"read", "write"}, Park(t) PROVE AsyncInv'
  BY <1>12 DEF Park
<1>13. ASSUME NEW t \in Tasks, call[t] \in {"read", "write"}, Unlock(t) PROVE AsyncInv'
  BY <1>13 DEF Unlock
<1>14. ASSUME NEW t \in Tasks, call[t] \in {"read", "write"}, Resume(t) PROVE AsyncInv'
  BY <1>14 DEF Resume
<1>15. ASSUME NEW t \in Tasks, call[t] \in {"read", "write"}, Relock(t) PROVE AsyncInv'
  BY <1>15 DEF Relock
<1>16. ASSUME NEW t \in Tasks, ReadCopy(t) PROVE AsyncInv'
  BY <1>16 DEF ReadCopy
<1>17. ASSUME NEW t \in Tasks, call[t] \in {"read", "write"}, Fault(t) PROVE AsyncInv'
  BY <1>17 DEF Fault
<1>18. ASSUME NEW t \in Tasks, ReadShift(t) PROVE AsyncInv'
  BY <1>18 DEF ReadShift
<1>19. ASSUME NEW t \in Tasks, WriteCopy(t) PROVE AsyncInv'
  BY <1>19 DEF WriteCopy
<1>20. ASSUME NEW t \in Tasks, WriteCommit(t) PROVE AsyncInv'
  BY <1>20 DEF WriteCommit
<1>21. ASSUME NEW t \in Tasks, call[t] \in {"read", "write"}, Out(t) PROVE AsyncInv'
  BY <1>21 DEF Out
<1>22. ASSUME NEW t \in Tasks, call[t] \in {"read", "write"}, Out2(t) PROVE AsyncInv'
  BY <1>22 DEF Out2
<1>23. ASSUME NEW t \in Tasks, Poll(t) PROVE AsyncInv'
  BY <1>23 DEF Poll
<1>24. ASSUME NEW t \in Tasks, PollWake(t) PROVE AsyncInv'
  BY <1>24 DEF PollWake
<1>25. ASSUME NEW t \in Tasks, PollTimeout(t) PROVE AsyncInv'
  BY <1>25 DEF PollTimeout
<1>26. ASSUME NEW t \in Tasks, PollReturn(t) PROVE AsyncInv'
  BY <1>26 DEF PollReturn
<1>27. ASSUME NEW t \in Tasks, Clear(t) PROVE AsyncInv'
  BY <1>27 DEF Clear
<1>28. CASE UNCHANGED vars
  BY <1>28 DEF vars
<1> QED
  BY StepCases, <1>1, <1>2, <1>3, <1>4, <1>5, <1>6, <1>7, <1>8, <1>9, <1>10, <1>11, <1>12, <1>13, <1>14, <1>15, <1>16, <1>17, <1>18, <1>19, <1>20, <1>21, <1>22, <1>23, <1>24, <1>25, <1>26, <1>27, <1>28

\* Only a program that uses FIFO_CLEAR gets to the ioctl.
LEMMA ClearStep ==
    ASSUME TypeOK, ClearInv, [Next]_vars
    PROVE  ClearInv'
<1> USE GlobalFifoAssumption
    DEF TypeOK, ClearInv, Clearers, Points, Critical, Goto, AcquireMutex, ReleaseMutex, fifo, task, sched
<1>1. ASSUME NEW t \in Tasks, Open(t) PROVE ClearInv'
  BY <1>1 DEF Open
<1>2. ASSUME NEW t \in Tasks, Release(t) PROVE ClearInv'
  BY <1>2 DEF Release
<1>3. ASSUME NEW t \in Tasks, Fasync(t) PROVE ClearInv'
  BY <1>3 DEF Fasync
<1>4. ASSUME NEW t \in Tasks, NEW n \in ReadCounts, CallRead(t, n) PROVE ClearInv'
  BY <1>4 DEF CallRead
<1>5. ASSUME NEW t \in Tasks, NEW data \in Payloads, CallWrite(t, data) PROVE ClearInv'
  BY <1>5 DEF CallWrite
<1>6. ASSUME NEW t \in Tasks, NEW events \in PollEvents, CallPoll(t, events) PROVE ClearInv'
  BY <1>6 DEF CallPoll
<1>7. ASSUME NEW t \in Tasks, CallClear(t) PROVE ClearInv'
  BY <1>7 DEF CallClear
<1>8. ASSUME NEW t \in Tasks, Signal(t) PROVE ClearInv'
  BY <1>8 DEF Signal
<1>9. ASSUME NEW t \in Tasks, Deliver(t) PROVE ClearInv'
  BY <1>9 DEF Deliver
<1>10. ASSUME NEW t \in Tasks, call[t] \in {"read", "write"}, Lock(t) PROVE ClearInv'
  BY <1>10 DEF Lock
<1>11. ASSUME NEW t \in Tasks, call[t] \in {"read", "write"}, Again(t) PROVE ClearInv'
  BY <1>11 DEF Again
<1>12. ASSUME NEW t \in Tasks, call[t] \in {"read", "write"}, Park(t) PROVE ClearInv'
  BY <1>12 DEF Park
<1>13. ASSUME NEW t \in Tasks, call[t] \in {"read", "write"}, Unlock(t) PROVE ClearInv'
  BY <1>13 DEF Unlock
<1>14. ASSUME NEW t \in Tasks, call[t] \in {"read", "write"}, Resume(t) PROVE ClearInv'
  BY <1>14 DEF Resume
<1>15. ASSUME NEW t \in Tasks, call[t] \in {"read", "write"}, Relock(t) PROVE ClearInv'
  BY <1>15 DEF Relock
<1>16. ASSUME NEW t \in Tasks, ReadCopy(t) PROVE ClearInv'
  BY <1>16 DEF ReadCopy
<1>17. ASSUME NEW t \in Tasks, call[t] \in {"read", "write"}, Fault(t) PROVE ClearInv'
  BY <1>17 DEF Fault
<1>18. ASSUME NEW t \in Tasks, ReadShift(t) PROVE ClearInv'
  BY <1>18 DEF ReadShift
<1>19. ASSUME NEW t \in Tasks, WriteCopy(t) PROVE ClearInv'
  BY <1>19 DEF WriteCopy
<1>20. ASSUME NEW t \in Tasks, WriteCommit(t) PROVE ClearInv'
  BY <1>20 DEF WriteCommit
<1>21. ASSUME NEW t \in Tasks, call[t] \in {"read", "write"}, Out(t) PROVE ClearInv'
  BY <1>21 DEF Out
<1>22. ASSUME NEW t \in Tasks, call[t] \in {"read", "write"}, Out2(t) PROVE ClearInv'
  BY <1>22 DEF Out2
<1>23. ASSUME NEW t \in Tasks, Poll(t) PROVE ClearInv'
  BY <1>23 DEF Poll
<1>24. ASSUME NEW t \in Tasks, PollWake(t) PROVE ClearInv'
  BY <1>24 DEF PollWake
<1>25. ASSUME NEW t \in Tasks, PollTimeout(t) PROVE ClearInv'
  BY <1>25 DEF PollTimeout
<1>26. ASSUME NEW t \in Tasks, PollReturn(t) PROVE ClearInv'
  BY <1>26 DEF PollReturn
<1>27. ASSUME NEW t \in Tasks, Clear(t) PROVE ClearInv'
  BY <1>27 DEF Clear
<1>28. CASE UNCHANGED vars
  BY <1>28 DEF vars
<1> QED
  BY StepCases, <1>1, <1>2, <1>3, <1>4, <1>5, <1>6, <1>7, <1>8, <1>9, <1>10, <1>11, <1>12, <1>13, <1>14, <1>15, <1>16, <1>17, <1>18, <1>19, <1>20, <1>21, <1>22, <1>23, <1>24, <1>25, <1>26, <1>27, <1>28

-----------------------------------------------------------------------------
(* The invariant and what follows from it. *)

\* IInv holds at the start ...
LEMMA IInvInit == Init => IInv
<1>1. Init => TypeOK
  BY TypeInit
<1>2. Init => LockInv /\ CountInv /\ CallInv /\ QueueInv /\ ClearInv
  BY GlobalFifoAssumption
  DEF Init, LockInv, CountInv, CallInv, QueueInv, ClearInv, Queued, Queues, Critical
<1>3. Init => SleepInv /\ PollersNotStranded /\ AsyncInv
  BY DEF Init, SleepInv, PollersNotStranded, AsyncInv
<1> QED
  BY <1>1, <1>2, <1>3 DEF IInv

\* ... and every step of every handler preserves it.
LEMMA IInvStep == IInv /\ [Next]_vars => IInv'
<1> SUFFICES ASSUME IInv, [Next]_vars PROVE IInv'
  OBVIOUS
<1>1. TypeOK'
  BY TypeStep DEF IInv
<1>2. LockInv' /\ CallInv' /\ AsyncInv' /\ ClearInv'
  BY LockStep, CallStep, AsyncStep, ClearStep DEF IInv
<1>3. CountInv'
  BY <1>1, CountStep DEF IInv
<1>4. QueueInv'
  BY QueueStep DEF IInv
<1>5. SleepInv' /\ PollersNotStranded'
  BY SleepStep, PollStep DEF IInv
<1> QED
  BY <1>1, <1>2, <1>3, <1>4, <1>5 DEF IInv

\* The inductive invariant of the driver.
THEOREM IInvHolds == Spec => []IInv
  BY IInvInit, IInvStep, PTL DEF Spec

\* Every variable stays in its type: in particular current_len never leaves
\* 0 .. GLOBALFIFO_SIZE, although the clamp and the transfer are steps apart.
THEOREM TypeCorrect == Spec => []TypeOK
<1>1. IInv => TypeOK
  BY DEF IInv
<1> QED
  BY <1>1, IInvHolds, PTL

\* No wakeup is lost: globalfifo_read tests its condition and changes the
\* task's state under the mutex under which globalfifo_write changes
\* current_len and wakes the queue.
THEOREM NoLostWakeup == Spec => []ReadersNotStranded
<1>1. IInv => ReadersNotStranded
  BY DEF IInv, SleepInv, ReadersNotStranded, Asleep
<1> QED
  BY <1>1, IInvHolds, PTL

\* The same for globalfifo_write and the room that globalfifo_read makes; the
\* room that FIFO_CLEAR makes is what nobody is woken for.
THEOREM RoomNotMissed == Spec => []WritersNotStranded
<1>1. IInv => WritersNotStranded
  BY DEF IInv, SleepInv, WritersNotStranded, Asleep
<1> QED
  BY <1>1, IInvHolds, PTL

\* The same for poll: it registers on both queues before it looks.
THEOREM NoLostPoll == Spec => []PollersNotStranded
<1>1. IInv => PollersNotStranded
  BY DEF IInv
<1> QED
  BY <1>1, IInvHolds, PTL

\* Every way out of a call, the signal's included, passes remove_wait_queue,
\* and globalfifo_release leaves async_queue.
THEOREM QueuesClean == Spec => []NoDanglingEntries
<1>1. IInv => NoDanglingEntries
  BY DEF IInv, CallInv, QueueInv, AsyncInv, NoDanglingEntries, Queues, Queued, Critical
<1> QED
  BY <1>1, IInvHolds, PTL

\* The task is TASK_RUNNING wherever it may fault, block or return.
THEOREM SleepDiscipline == Spec => []SleepsOnlyInSchedule
<1>1. IInv => SleepsOnlyInSchedule
  BY DEF IInv, SleepInv, SleepsOnlyInSchedule
<1> QED
  BY <1>1, IInvHolds, PTL

-----------------------------------------------------------------------------
(* GlobalFifo implements BoundedFifo, if memcpy copies upwards. *)

\* Both parties to a transfer hold the same bytes until it is committed.
LEMMA CopyStep ==
    ASSUME TypeOK, CallInv, LockInv, CountInv, CopyInv, [Next]_vars
    PROVE  CopyInv'
<1> USE GlobalFifoAssumption
    DEF TypeOK, CallInv, LockInv, CountInv, CopyInv, Points, Critical, Goto, AcquireMutex, ReleaseMutex, fifo, task, sched
<1>1. ASSUME NEW t \in Tasks, Open(t) PROVE CopyInv'
  BY <1>1 DEF Open
<1>2. ASSUME NEW t \in Tasks, Release(t) PROVE CopyInv'
  BY <1>2 DEF Release
<1>3. ASSUME NEW t \in Tasks, Fasync(t) PROVE CopyInv'
  BY <1>3 DEF Fasync
<1>4. ASSUME NEW t \in Tasks, NEW n \in ReadCounts, CallRead(t, n) PROVE CopyInv'
  BY <1>4 DEF CallRead
<1>5. ASSUME NEW t \in Tasks, NEW data \in Payloads, CallWrite(t, data) PROVE CopyInv'
  BY <1>5 DEF CallWrite
<1>6. ASSUME NEW t \in Tasks, NEW events \in PollEvents, CallPoll(t, events) PROVE CopyInv'
  BY <1>6 DEF CallPoll
<1>7. ASSUME NEW t \in Tasks, CallClear(t) PROVE CopyInv'
  BY <1>7 DEF CallClear
<1>8. ASSUME NEW t \in Tasks, Signal(t) PROVE CopyInv'
  BY <1>8 DEF Signal
<1>9. ASSUME NEW t \in Tasks, Deliver(t) PROVE CopyInv'
  BY <1>9 DEF Deliver
<1>10. ASSUME NEW t \in Tasks, call[t] \in {"read", "write"}, Lock(t) PROVE CopyInv'
  BY <1>10 DEF Lock
<1>11. ASSUME NEW t \in Tasks, call[t] \in {"read", "write"}, Again(t) PROVE CopyInv'
  BY <1>11 DEF Again
<1>12. ASSUME NEW t \in Tasks, call[t] \in {"read", "write"}, Park(t) PROVE CopyInv'
  BY <1>12 DEF Park
<1>13. ASSUME NEW t \in Tasks, call[t] \in {"read", "write"}, Unlock(t) PROVE CopyInv'
  BY <1>13 DEF Unlock
<1>14. ASSUME NEW t \in Tasks, call[t] \in {"read", "write"}, Resume(t) PROVE CopyInv'
  BY <1>14 DEF Resume
<1>15. ASSUME NEW t \in Tasks, call[t] \in {"read", "write"}, Relock(t) PROVE CopyInv'
  BY <1>15 DEF Relock
<1>16. ASSUME NEW t \in Tasks, ReadCopy(t) PROVE CopyInv'
  <2> DEFINE n == Clamp(cnt[t], Available("read"))
             copy == [i \in 1 .. n |-> mem[i - 1]]
  <2>1. /\ pc[t] = "check" /\ call[t] = "read" /\ pc' = [pc EXCEPT ![t] = "xfer"]
        /\ UNCHANGED <<mem, current_len, call>>
        /\ cnt' = [cnt EXCEPT ![t] = n]
        /\ ubuf' = [ubuf EXCEPT ![t] = copy]
    BY <1>16 DEF ReadCopy
  <2> HIDE DEF n
  <2>2. ubuf'[t] = [i \in 1 .. cnt'[t] |-> mem'[i - 1]]
    BY <2>1
  <2>3. \A u \in Tasks \ {t} : pc[u] # "xfer"
    BY <2>1
  <2> SUFFICES ASSUME NEW u \in Tasks
               PROVE  /\ pc'[u] = "xfer" /\ call'[u] = "read" =>
                            ubuf'[u] = [i \in 1 .. cnt'[u] |-> mem'[i - 1]]
                      /\ pc'[u] = "xfer" /\ call'[u] = "write" =>
                            \A i \in 1 .. cnt'[u] :
                                mem'[current_len' + i - 1] = ubuf'[u][i]
                      /\ \/ call'[u] \notin {"read", "write"}
                         \/ call'[u] = "read" /\ pc'[u] \notin {"xfer", "out", "out2"}
                         => ubuf'[u] = <<>>
    BY DEF CopyInv
  <2>4. CASE u = t
    <3>1. pc'[u] = "xfer" /\ call'[u] = "read"
      BY <2>1, <2>4
    <3> QED
      BY <2>2, <2>4, <3>1
  <2>5. CASE u # t
    <3>1. pc[u] # "xfer" /\ pc'[u] = pc[u] /\ call'[u] = call[u] /\ ubuf'[u] = ubuf[u]
      BY <2>1, <2>3, <2>5
    <3> QED
      BY <3>1
  <2> QED
    BY <2>4, <2>5
<1>17. ASSUME NEW t \in Tasks, call[t] \in {"read", "write"}, Fault(t) PROVE CopyInv'
  BY <1>17 DEF Fault
<1>18. ASSUME NEW t \in Tasks, ReadShift(t) PROVE CopyInv'
  BY <1>18 DEF ReadShift
<1>19. ASSUME NEW t \in Tasks, WriteCopy(t) PROVE CopyInv'
  BY <1>19 DEF WriteCopy, Clamp, Available, CopiedIn
<1>20. ASSUME NEW t \in Tasks, WriteCommit(t) PROVE CopyInv'
  BY <1>20 DEF WriteCommit
<1>21. ASSUME NEW t \in Tasks, call[t] \in {"read", "write"}, Out(t) PROVE CopyInv'
  BY <1>21 DEF Out
<1>22. ASSUME NEW t \in Tasks, call[t] \in {"read", "write"}, Out2(t) PROVE CopyInv'
  BY <1>22 DEF Out2
<1>23. ASSUME NEW t \in Tasks, Poll(t) PROVE CopyInv'
  BY <1>23 DEF Poll
<1>24. ASSUME NEW t \in Tasks, PollWake(t) PROVE CopyInv'
  BY <1>24 DEF PollWake
<1>25. ASSUME NEW t \in Tasks, PollTimeout(t) PROVE CopyInv'
  BY <1>25 DEF PollTimeout
<1>26. ASSUME NEW t \in Tasks, PollReturn(t) PROVE CopyInv'
  BY <1>26 DEF PollReturn
<1>27. ASSUME NEW t \in Tasks, Clear(t) PROVE CopyInv'
  BY <1>27 DEF Clear
<1>28. CASE UNCHANGED vars
  BY <1>28 DEF vars
<1> QED
  BY StepCases, <1>1, <1>2, <1>3, <1>4, <1>5, <1>6, <1>7, <1>8, <1>9, <1>10, <1>11, <1>12, <1>13, <1>14, <1>15, <1>16, <1>17, <1>18, <1>19, <1>20, <1>21, <1>22, <1>23, <1>24, <1>25, <1>26, <1>27, <1>28

\* The first n elements of an array, as a sequence.
Prefix(m, n) == [i \in 1 .. n |-> m[i - 1]]

BytesBelow(m, len) == \A i \in 0 .. len - 1 : m[i] \in Byte

\* new holds what old holds n places further up.
Shifts(old, new, len, n) == \A i \in 0 .. len - n - 1 : new[i] = old[i + n]

\* The two ways in which a transfer changes a prefix of an array: a shift
\* removes its first n elements, bytes written behind it extend it.
LEMMA ShiftedPrefix ==
    ASSUME NEW len \in Nat, NEW n \in 0 .. len, NEW old, NEW new,
           BytesBelow(old, len), Shifts(old, new, len, n)
    PROVE  /\ Prefix(new, len - n) = SubSeq(Prefix(old, len), n + 1, len)
           /\ Prefix(old, n) = SubSeq(Prefix(old, len), 1, n)
<1> DEFINE content == [i \in 1 .. len |-> old[i - 1]]
           after == [i \in 1 .. len - n |-> new[i - 1]]
           taken == [i \in 1 .. n |-> old[i - 1]]
<1> USE DEF BytesBelow, Shifts
<1>1. content \in Seq(Byte) /\ Len(content) = len
  BY CopiedBytes
<1>2. after \in Seq(Byte) /\ Len(after) = len - n
  <2>1. len - n \in Nat /\ \A i \in 0 .. len - n - 1 : new[i] \in Byte
    OBVIOUS
  <2> QED
    BY <2>1, CopiedBytes
<1>3. taken \in Seq(Byte) /\ Len(taken) = n
  <2>1. n \in Nat /\ \A i \in 0 .. n - 1 : old[i] \in Byte
    OBVIOUS
  <2> QED
    BY <2>1, CopiedBytes
<1>4. /\ \A i \in 1 .. len : content[i] \in Byte
      /\ \A i \in 1 .. len - n : after[i] = content[n + i]
      /\ \A i \in 1 .. n : taken[i] = content[i]
  OBVIOUS
<1> HIDE DEF content, after, taken
<1>5. after = SubSeq(content, n + 1, len)
  <2>1. \A i \in n + 1 .. len : content[i] \in Byte
    BY <1>4
  <2>2. n + 1 \in Int /\ len \in Int
    OBVIOUS
  <2>3. /\ SubSeq(content, n + 1, len) \in Seq(Byte)
        /\ Len(SubSeq(content, n + 1, len)) =
                IF n + 1 <= len THEN len - (n + 1) + 1 ELSE 0
        /\ \A i \in 1 .. len - (n + 1) + 1 :
                SubSeq(content, n + 1, len)[i] = content[(n + 1) + i - 1]
    BY <2>1, <2>2, SubSeqProperties
  <2>4. /\ Len(SubSeq(content, n + 1, len)) = Len(after)
        /\ \A i \in 1 .. Len(after) : after[i] = SubSeq(content, n + 1, len)[i]
    BY <1>2, <1>4, <2>3
  <2> QED
    BY <1>2, <2>3, <2>4, SeqEqual
<1>6. taken = SubSeq(content, 1, n)
  <2>1. \A i \in 1 .. n : content[i] \in Byte
    BY <1>4
  <2>2. /\ SubSeq(content, 1, n) \in Seq(Byte)
        /\ Len(SubSeq(content, 1, n)) = IF 1 <= n THEN n - 1 + 1 ELSE 0
        /\ \A i \in 1 .. n - 1 + 1 : SubSeq(content, 1, n)[i] = content[1 + i - 1]
    BY <2>1, SubSeqProperties
  <2>3. /\ Len(SubSeq(content, 1, n)) = Len(taken)
        /\ \A i \in 1 .. Len(taken) : taken[i] = SubSeq(content, 1, n)[i]
    BY <1>3, <1>4, <2>2
  <2> QED
    BY <1>3, <2>2, <2>3, SeqEqual
<1> QED
  BY <1>5, <1>6 DEF content, after, taken, Prefix

\* Bytes written behind a prefix extend it.
LEMMA ExtendedPrefix ==
    ASSUME NEW len \in Nat, NEW n \in Nat, NEW m, NEW data \in Seq(Byte),
           n <= Len(data),
           \A i \in 0 .. len - 1 : m[i] \in Byte,
           \A i \in 1 .. n : m[len + i - 1] = data[i]
    PROVE  Prefix(m, len + n) = Prefix(m, len) \o SubSeq(data, 1, n)
<1> DEFINE content == [i \in 1 .. len |-> m[i - 1]]
           after == [i \in 1 .. len + n |-> m[i - 1]]
           fresh == SubSeq(data, 1, n)
<1>1. content \in Seq(Byte) /\ Len(content) = len
  BY CopiedBytes
<1>2. /\ fresh \in Seq(Byte) /\ Len(fresh) = n
      /\ \A i \in 1 .. n : fresh[i] = data[i] /\ data[i] \in Byte
  <2>1. \A i \in 1 .. n : data[i] \in Byte
    BY ElementOfSeq
  <2>2. /\ fresh \in Seq(Byte)
        /\ Len(fresh) = IF 1 <= n THEN n - 1 + 1 ELSE 0
        /\ \A i \in 1 .. n - 1 + 1 : fresh[i] = data[1 + i - 1]
    BY <2>1, SubSeqProperties
  <2> QED
    BY <2>1, <2>2
<1>3. after \in Seq(Byte) /\ Len(after) = len + n
  <2>1. \A i \in 0 .. len + n - 1 : m[i] \in Byte
    <3> TAKE i \in 0 .. len + n - 1
    <3>1. CASE i < len
      BY <3>1
    <3>2. CASE i >= len
      <4>1. i - len + 1 \in 1 .. n /\ len + (i - len + 1) - 1 = i
        BY <3>2
      <4> QED
        BY <1>2, <4>1
    <3> QED
      BY <3>1, <3>2
  <2> DEFINE k == len + n
  <2>2. k \in Nat /\ \A i \in 0 .. k - 1 : m[i] \in Byte
    BY <2>1
  <2> HIDE DEF k
  <2>3. [i \in 1 .. k |-> m[i - 1]] \in Seq(Byte) /\ Len([i \in 1 .. k |-> m[i - 1]]) = k
    BY <2>2, CopiedBytes
  <2> QED
    BY <2>3 DEF k
<1>4. /\ \A i \in 1 .. len : after[i] = content[i]
      /\ \A i \in len + 1 .. len + n : after[i] = m[i - 1]
  OBVIOUS
<1>5. \A i \in len + 1 .. len + n : m[i - 1] = fresh[i - len]
  <2> TAKE i \in len + 1 .. len + n
  <2>1. i - len \in 1 .. n /\ len + (i - len) - 1 = i - 1
    OBVIOUS
  <2> QED
    BY <1>2, <2>1
<1> HIDE DEF content, after, fresh
<1>6. /\ content \o fresh \in Seq(Byte)
      /\ Len(content \o fresh) = len + n
      /\ \A i \in 1 .. len + n : (content \o fresh)[i] =
            IF i <= len THEN content[i] ELSE fresh[i - len]
  BY <1>1, <1>2, ConcatProperties
<1>7. \A i \in 1 .. Len(after) : after[i] = (content \o fresh)[i]
  <2> SUFFICES ASSUME NEW i \in 1 .. len + n
               PROVE  after[i] = (content \o fresh)[i]
    BY <1>3
  <2>1. CASE i <= len
    BY <1>4, <1>6, <2>1
  <2>2. CASE i > len
    <3>1. i \in len + 1 .. len + n
      BY <2>2
    <3>2. after[i] = fresh[i - len]
      BY <1>4, <1>5, <3>1
    <3> QED
      BY <1>6, <2>2, <3>2
  <2>3. i <= len \/ i > len
    OBVIOUS
  <2> QED
    BY <2>1, <2>2, <2>3
<1>8. after = content \o fresh
  BY <1>3, <1>6, <1>7, SeqEqual
<1> QED
  BY <1>8 DEF content, after, fresh, Prefix

\* What the two transfers do to the abstract queue.
LEMMA Transfers ==
    ASSUME TypeOK, CountInv, CopyInv, NEW t \in Tasks
    PROVE  /\ ReadShift(t) /\ CopyOrders \subseteq {"ascending"} =>
                /\ Content' = SubSeq(Content, cnt[t] + 1, Len(Content))
                /\ ubuf[t] = SubSeq(Content, 1, cnt[t])
           /\ WriteCommit(t) =>
                Content' = Content \o SubSeq(ubuf[t], 1, cnt[t])
           /\ Content \in Seq(Byte) /\ Len(Content) = current_len
<1>1. \A i \in 0 .. current_len - 1 : mem[i] \in Byte
  BY GlobalFifoAssumption DEF TypeOK
<1>2. Content \in Seq(Byte) /\ Len(Content) = current_len
  BY <1>1, CopiedBytes DEF TypeOK, Content
<1>3. ASSUME ReadShift(t), CopyOrders \subseteq {"ascending"}
      PROVE  /\ Content' = SubSeq(Content, cnt[t] + 1, Len(Content))
             /\ ubuf[t] = SubSeq(Content, 1, cnt[t])
  <2>1. /\ current_len \in Nat
        /\ cnt[t] \in 0 .. current_len
        /\ current_len' = current_len - cnt[t]
        /\ ubuf[t] = [i \in 1 .. cnt[t] |-> mem[i - 1]]
    BY <1>3, GlobalFifoAssumption DEF TypeOK, CountInv, CopyInv, ReadShift
  <2>2. \A i \in 0 .. current_len - cnt[t] - 1 : mem'[i] = mem[i + cnt[t]]
    <3>1. PICK order \in CopyOrders :
            mem' = [i \in DOMAIN mem |-> AfterMemcpy(cnt[t], current_len, order, i)]
      BY <1>3 DEF ReadShift
    <3>2. order = "ascending"
      BY <1>3
    <3>3. SUFFICES ASSUME NEW i \in 0 .. current_len - cnt[t] - 1
                   PROVE  mem'[i] = mem[i + cnt[t]]
      OBVIOUS
    <3>4. i \in DOMAIN mem /\ i < current_len - cnt[t]
      BY <2>1, GlobalFifoAssumption DEF TypeOK
    <3>5. CASE cnt[t] = 0
      BY <3>1, <3>2, <3>4, <3>5 DEF AfterMemcpy
    <3>6. CASE cnt[t] # 0
      BY <2>1, <3>1, <3>2, <3>4, <3>6 DEF AfterMemcpy
    <3> QED
      BY <3>5, <3>6
  <2>3. /\ Prefix(mem', current_len - cnt[t])
                = SubSeq(Prefix(mem, current_len), cnt[t] + 1, current_len)
        /\ Prefix(mem, cnt[t]) = SubSeq(Prefix(mem, current_len), 1, cnt[t])
    <3>1. BytesBelow(mem, current_len) /\ Shifts(mem, mem', current_len, cnt[t])
      BY <1>1, <2>2 DEF BytesBelow, Shifts
    <3> QED
      BY <2>1, <3>1, ShiftedPrefix
  <2>4. /\ Content = Prefix(mem, current_len)
        /\ Content' = Prefix(mem', current_len')
        /\ ubuf[t] = Prefix(mem, cnt[t])
    BY <2>1 DEF Content, Prefix
  <2> QED
    BY <1>2, <2>1, <2>3, <2>4
<1>4. ASSUME WriteCommit(t)
      PROVE  Content' = Content \o SubSeq(ubuf[t], 1, cnt[t])
  <2>1. /\ current_len \in Nat /\ cnt[t] \in Nat
        /\ cnt[t] <= Len(ubuf[t]) /\ ubuf[t] \in Seq(Byte)
        /\ current_len' = current_len + cnt[t]
        /\ mem' = mem
        /\ \A i \in 1 .. cnt[t] : mem[current_len + i - 1] = ubuf[t][i]
    BY <1>4, GlobalFifoAssumption DEF TypeOK, CountInv, CopyInv, WriteCommit
  <2>2. Prefix(mem, current_len + cnt[t])
            = Prefix(mem, current_len) \o SubSeq(ubuf[t], 1, cnt[t])
    BY <1>1, <2>1, ExtendedPrefix
  <2>3. /\ Content = Prefix(mem, current_len)
        /\ Content' = Prefix(mem', current_len')
    BY DEF Content, Prefix
  <2> QED
    BY <2>1, <2>2, <2>3
<1> QED
  BY <1>2, <1>3, <1>4

\* The empty FIFO is the empty queue.
LEMMA RefinementInit == Init => Abstract!Init
<1> SUFFICES ASSUME Init PROVE Abstract!Init
  OBVIOUS
<1>1. Content = <<>>
  BY DEF Init, Content
<1>2. UserBuffer = [t \in Tasks |-> <<>>]
  BY DEF Init, UserBuffer
<1> QED
  BY <1>1, <1>2 DEF Init, Abstract!Init

\* The same bytes below current_len are the same abstract queue.
\* A step that keeps the bytes below current_len keeps the queue.
LEMMA SameContent ==
    ASSUME UNCHANGED current_len, \A i \in 0 .. current_len - 1 : mem'[i] = mem[i],
           TypeOK
    PROVE  UNCHANGED Content
<1>1. \A i \in 1 .. current_len : mem'[i - 1] = mem[i - 1]
  BY GlobalFifoAssumption DEF TypeOK
<1> QED
  BY <1>1 DEF Content

\* Copying into the free part of mem does not touch what a reader can see.
\* copy_from_user fills the free part of mem: the queue does not change yet.
LEMMA CopiedInUnseen ==
    ASSUME TypeOK, UNCHANGED current_len,
           NEW data, NEW n \in Nat, mem' = CopiedIn(data, n)
    PROVE  UNCHANGED Content
<1>1. \A i \in 0 .. current_len - 1 : mem'[i] = mem[i]
  BY GlobalFifoAssumption DEF TypeOK, CopiedIn
<1> QED
  BY <1>1, SameContent

\* A step of t changes nobody else's buffer.
\* The buffers of the tasks that do not move stay as they are.
LEMMA BufferOf ==
    ASSUME NEW t \in Tasks,
           \A u \in Tasks \ {t} :
                pc'[u] = pc[u] /\ call'[u] = call[u] /\ ubuf'[u] = ubuf[u]
    PROVE  UserBuffer' = [UserBuffer EXCEPT ![t] = UserBuffer'[t]]
<1>1. \A u \in Tasks \ {t} : UserBuffer'[u] = UserBuffer[u]
  BY DEF UserBuffer
<1>2. /\ UserBuffer' = [u \in Tasks |-> UserBuffer'[u]]
      /\ UserBuffer = [u \in Tasks |-> UserBuffer[u]]
  BY DEF UserBuffer
<1> HIDE DEF UserBuffer
<1> QED
  BY <1>1, <1>2

\* Every step of the driver is a step of the queue or a stutter.
LEMMA RefinementStep ==
    ASSUME TypeOK, TypeOK', CallInv, LockInv, CountInv, CopyInv,
           CopyOrders \subseteq {"ascending"}, [Next]_vars
    PROVE  [Abstract!Next]_(Abstract!vars)
<1> DEFINE Stutter == UNCHANGED <<Content, UserBuffer, ret>>
<1> USE GlobalFifoAssumption
    DEF TypeOK, CallInv, CopyInv, Points, Critical, Goto, AcquireMutex, ReleaseMutex, fifo, task, sched
<1>1. ASSUME NEW t \in Tasks, Open(t) PROVE Stutter
  BY <1>1 DEF Open, Content, UserBuffer
<1>2. ASSUME NEW t \in Tasks, Release(t) PROVE Stutter
  BY <1>2 DEF Release, Content, UserBuffer
<1>3. ASSUME NEW t \in Tasks, Fasync(t) PROVE Stutter
  BY <1>3 DEF Fasync, Content, UserBuffer
<1>4. ASSUME NEW t \in Tasks, NEW n \in ReadCounts, CallRead(t, n) PROVE Stutter
  BY <1>4 DEF CallRead, Content, UserBuffer
<1>5. ASSUME NEW t \in Tasks, NEW data \in Payloads, CallWrite(t, data) PROVE Abstract!Offer(t)
  <2>1. UNCHANGED <<Content, ret>>
    BY <1>5 DEF CallWrite, Content
  <2>2. ubuf[t] = <<>> /\ data \in Seq(Byte)
    BY <1>5 DEF CallWrite
  <2>3. UserBuffer[t] = <<>> /\ UserBuffer'[t] = data
        /\ UserBuffer' = [UserBuffer EXCEPT ![t] = UserBuffer'[t]]
    <3>1. /\ pc[t] = "user" /\ pc' = [pc EXCEPT ![t] = "lock"]
          /\ call' = [call EXCEPT ![t] = "write"]
          /\ ubuf' = [ubuf EXCEPT ![t] = data]
      BY <1>5 DEF CallWrite
    <3>2. UserBuffer[t] = <<>>
      BY <2>2, <3>1 DEF UserBuffer
    <3>3. \A u \in Tasks \ {t} :
            pc'[u] = pc[u] /\ call'[u] = call[u] /\ ubuf'[u] = ubuf[u]
      BY <3>1
    <3>4. UserBuffer'[t] = data
      BY <3>1 DEF UserBuffer
    <3> QED
      BY <3>2, <3>3, <3>4, BufferOf
  <2>4. UserBuffer'[t] \in Seq(Byte)
    BY <2>2, <2>3
  <2> HIDE DEF UserBuffer
  <2> QED
    BY <2>1, <2>3, <2>4 DEF Abstract!Offer
<1>6. ASSUME NEW t \in Tasks, NEW events \in PollEvents, CallPoll(t, events) PROVE Stutter
  BY <1>6 DEF CallPoll, Content, UserBuffer
<1>7. ASSUME NEW t \in Tasks, CallClear(t) PROVE Stutter
  BY <1>7 DEF CallClear, Content, UserBuffer
<1>8. ASSUME NEW t \in Tasks, Signal(t) PROVE Stutter
  BY <1>8 DEF Signal, Content, UserBuffer
<1>9. ASSUME NEW t \in Tasks, Deliver(t) PROVE Stutter
  BY <1>9 DEF Deliver, Content, UserBuffer
<1>10. ASSUME NEW t \in Tasks, call[t] \in {"read", "write"}, Lock(t) PROVE Stutter
  BY <1>10 DEF Lock, Content, UserBuffer
<1>11. ASSUME NEW t \in Tasks, call[t] \in {"read", "write"}, Again(t) PROVE Abstract!Fail(t)
  <2>1. UNCHANGED <<Content, UserBuffer>>
    BY <1>11 DEF Again, Content, UserBuffer
  <2>2. ret' = [ret EXCEPT ![t] = Abstract!EAGAIN]
    BY <1>11 DEF Again, EAGAIN, Abstract!EAGAIN
  <2>3. Content = <<>> \/ Len(Content) = GLOBALFIFO_SIZE
    <3>1. current_len = 0 \/ current_len = GLOBALFIFO_SIZE
      BY <1>11 DEF Again, MustWait
    <3>2. Len(Content) = current_len
      BY Transfers
    <3>3. current_len = 0 => Content = <<>>
      BY DEF Content
    <3> QED
      BY <3>1, <3>2, <3>3
  <2> QED
    BY <2>1, <2>2, <2>3 DEF Abstract!Fail
<1>12. ASSUME NEW t \in Tasks, call[t] \in {"read", "write"}, Park(t) PROVE Stutter
  BY <1>12 DEF Park, Content, UserBuffer
<1>13. ASSUME NEW t \in Tasks, call[t] \in {"read", "write"}, Unlock(t) PROVE Stutter
  BY <1>13 DEF Unlock, Content, UserBuffer
<1>14. ASSUME NEW t \in Tasks, call[t] \in {"read", "write"}, Resume(t) PROVE Abstract!Fail(t) \/ Stutter
  <2>1. UNCHANGED <<Content, UserBuffer>>
    BY <1>14 DEF Resume, Content, UserBuffer
  <2>2. CASE t \in sigpending
    <3>1. ret' = [ret EXCEPT ![t] = Abstract!ERESTARTSYS]
      BY <1>14, <2>2 DEF Resume, ERESTARTSYS, Abstract!ERESTARTSYS
    <3>2. Abstract!ERESTARTSYS # Abstract!EAGAIN
      BY DEF Abstract!ERESTARTSYS, Abstract!EAGAIN
    <3> QED
      BY <2>1, <3>1, <3>2 DEF Abstract!Fail
  <2>3. CASE t \notin sigpending
    BY <1>14, <2>1, <2>3 DEF Resume
  <2> QED
    BY <2>2, <2>3
<1>15. ASSUME NEW t \in Tasks, call[t] \in {"read", "write"}, Relock(t) PROVE Stutter
  BY <1>15 DEF Relock, Content, UserBuffer
<1>16. ASSUME NEW t \in Tasks, ReadCopy(t) PROVE Stutter
  <2>1. UNCHANGED <<Content, ret>>
    BY <1>16 DEF ReadCopy, Content
  <2>2. UserBuffer' = UserBuffer
    BY <1>16 DEF ReadCopy, UserBuffer
  <2> QED
    BY <2>1, <2>2
<1>17. ASSUME NEW t \in Tasks, call[t] \in {"read", "write"}, Fault(t) PROVE Abstract!Fail(t)
  <2>1. UNCHANGED Content
    <3>1. CASE call[t] = "write"
      <4> DEFINE n == Clamp(cnt[t], Available(call[t]))
                 data(k) == [i \in 1 .. n |-> IF i <= k THEN ubuf[t][i] ELSE Zero]
      <4>1. n \in Nat
        BY DEF Clamp, Available
      <4>2. PICK k \in 0 .. n - 1 : mem' = CopiedIn(data(k), n)
        BY <1>17, <3>1 DEF Fault
      <4>3. UNCHANGED current_len
        BY <1>17 DEF Fault
      <4> HIDE DEF n, data
      <4> QED
        BY <4>1, <4>2, <4>3, CopiedInUnseen
    <3>2. CASE call[t] = "read"
      BY <1>17, <3>2 DEF Fault, Content
    <3> QED
      BY <1>17, <3>1, <3>2
  <2>2. UNCHANGED UserBuffer
    BY <1>17 DEF Fault, UserBuffer
  <2>3. ret' = [ret EXCEPT ![t] = Abstract!EFAULT]
    BY <1>17 DEF Fault, EFAULT, Abstract!EFAULT
  <2>4. Abstract!EFAULT # Abstract!EAGAIN
    BY DEF Abstract!EFAULT, Abstract!EAGAIN
  <2> QED
    BY <2>1, <2>2, <2>3, <2>4 DEF Abstract!Fail
<1>18. ASSUME NEW t \in Tasks, ReadShift(t) PROVE Abstract!Take(t)
  <2>1. /\ Content' = SubSeq(Content, cnt[t] + 1, Len(Content))
        /\ ubuf[t] = SubSeq(Content, 1, cnt[t])
        /\ Len(Content) = current_len
    BY <1>18, Transfers
  <2>2. cnt[t] \in 0 .. current_len
    BY <1>18 DEF ReadShift, CountInv
  <2>3. UserBuffer[t] = <<>> /\ UserBuffer' = [UserBuffer EXCEPT ![t] = ubuf[t]]
    <3>1. /\ pc[t] = "xfer" /\ call[t] = "read" /\ pc' = [pc EXCEPT ![t] = "out"]
          /\ UNCHANGED <<call, ubuf>>
      BY <1>18 DEF ReadShift
    <3>2. UserBuffer[t] = <<>>
      BY <3>1 DEF UserBuffer
    <3>3. \A u \in Tasks \ {t} :
            pc'[u] = pc[u] /\ call'[u] = call[u] /\ ubuf'[u] = ubuf[u]
      BY <3>1
    <3>4. UserBuffer'[t] = ubuf[t]
      BY <3>1 DEF UserBuffer
    <3> QED
      BY <3>2, <3>3, <3>4, BufferOf
  <2>4. Content # <<>>
    BY <1>18, <2>1 DEF ReadShift, CountInv
  <2>5. ret' = [ret EXCEPT ![t] = cnt[t]]
    BY <1>18 DEF ReadShift
  <2> QED
    BY <2>1, <2>2, <2>3, <2>4, <2>5 DEF Abstract!Take
<1>19. ASSUME NEW t \in Tasks, WriteCopy(t) PROVE Stutter
  <2> DEFINE n == Clamp(cnt[t], Available("write"))
  <2>1. n \in Nat
    BY DEF Clamp, Available
  <2>2. mem' = CopiedIn(ubuf[t], n) /\ UNCHANGED <<current_len, ret>>
    BY <1>19 DEF WriteCopy
  <2> HIDE DEF n
  <2>3. UNCHANGED Content
    BY <2>1, <2>2, CopiedInUnseen
  <2>4. UNCHANGED UserBuffer
    BY <1>19 DEF WriteCopy, UserBuffer
  <2> QED
    BY <2>2, <2>3, <2>4
<1>20. ASSUME NEW t \in Tasks, WriteCommit(t) PROVE Abstract!Put(t)
  <2>1. /\ Content' = Content \o SubSeq(ubuf[t], 1, cnt[t])
        /\ Len(Content) = current_len
    BY <1>20, Transfers
  <2>2. /\ cnt[t] \in Nat /\ cnt[t] <= Len(ubuf[t])
        /\ cnt[t] <= GLOBALFIFO_SIZE - current_len
        /\ Len(ubuf[t]) \in Nat
    BY <1>20 DEF WriteCommit, CountInv
  <2>3. UserBuffer[t] = ubuf[t] /\ UNCHANGED UserBuffer
    BY <1>20 DEF WriteCommit, UserBuffer
  <2>4. current_len < GLOBALFIFO_SIZE
    BY <1>20 DEF WriteCommit, CountInv
  <2>5. ret' = [ret EXCEPT ![t] = cnt[t]]
    BY <1>20 DEF WriteCommit
  <2>6. cnt[t] \in 0 .. Len(UserBuffer[t]) /\ Len(Content) + cnt[t] <= GLOBALFIFO_SIZE
    BY <2>1, <2>2, <2>3
  <2> QED
    BY <2>1, <2>3, <2>4, <2>5, <2>6 DEF Abstract!Put
<1>21. ASSUME NEW t \in Tasks, call[t] \in {"read", "write"}, Out(t) PROVE Stutter
  BY <1>21 DEF Out, Content, UserBuffer
<1>22. ASSUME NEW t \in Tasks, call[t] \in {"read", "write"}, Out2(t) PROVE Abstract!Return(t)
  <2>1. UNCHANGED Content /\ ret' = [ret EXCEPT ![t] = 0]
    BY <1>22 DEF Out2, Content
  <2>2. UserBuffer' = [UserBuffer EXCEPT ![t] = <<>>]
    BY <1>22 DEF Out2, UserBuffer
  <2> QED
    BY <2>1, <2>2 DEF Abstract!Return
<1>23. ASSUME NEW t \in Tasks, Poll(t) PROVE Stutter
  BY <1>23 DEF Poll, Content, UserBuffer
<1>24. ASSUME NEW t \in Tasks, PollWake(t) PROVE Stutter
  BY <1>24 DEF PollWake, Content, UserBuffer
<1>25. ASSUME NEW t \in Tasks, PollTimeout(t) PROVE Stutter
  BY <1>25 DEF PollTimeout, Content, UserBuffer
<1>26. ASSUME NEW t \in Tasks, PollReturn(t) PROVE Stutter
  BY <1>26 DEF PollReturn, Content, UserBuffer
<1>27. ASSUME NEW t \in Tasks, Clear(t) PROVE Abstract!Clear
  <2>1. Content' = <<>> /\ UNCHANGED <<UserBuffer, ret>>
    BY <1>27 DEF Clear, Content, UserBuffer
  <2> QED
    BY <2>1 DEF Abstract!Clear
<1>28. ASSUME UNCHANGED vars PROVE Stutter
  <2>1. UNCHANGED <<mem, current_len, pc, call, ubuf, ret>>
    BY <1>28 DEF vars
  <2>2. Content' = Content /\ ret' = ret
    BY <2>1 DEF Content
  <2>3. UserBuffer' = UserBuffer
    BY <2>1 DEF UserBuffer
  <2> QED
    BY <2>2, <2>3
<1> HIDE DEF Stutter, TypeOK, CallInv, CopyInv, Points, Critical, Goto, AcquireMutex,
         ReleaseMutex, fifo, task, sched
<1>29. \/ Stutter
      \/ Abstract!Clear
      \/ \E t \in Tasks : \/ Abstract!Offer(t) \/ Abstract!Put(t) \/ Abstract!Take(t)
                         \/ Abstract!Fail(t) \/ Abstract!Return(t)
  BY StepCases, <1>1, <1>2, <1>3, <1>4, <1>5, <1>6, <1>7, <1>8, <1>9, <1>10, <1>11, <1>12, <1>13, <1>14, <1>15, <1>16, <1>17, <1>18, <1>19, <1>20, <1>21, <1>22, <1>23, <1>24, <1>25, <1>26, <1>27, <1>28
<1> QED
  BY <1>29 DEF Stutter, Abstract!vars, Abstract!Next

\* Reads and writes of /dev/globalfifo are atomic operations on a bounded
\* queue, for every number of tasks and every FIFO size.  It needs a memcpy
\* that copies its overlapping areas upwards.
THEOREM Refinement ==
    ASSUME CopyOrders \subseteq {"ascending"}
    PROVE  Spec => Linearizable
<1>1. Init => CopyInv
  BY DEF Init, CopyInv
<1>2. IInv /\ CopyInv /\ [Next]_vars => CopyInv'
  BY CopyStep DEF IInv
<1>3. Spec => []CopyInv
  BY <1>1, <1>2, IInvHolds, PTL DEF Spec
<1>4. IInv /\ IInv' /\ CopyInv /\ [Next]_vars => [Abstract!Next]_(Abstract!vars)
  BY RefinementStep DEF IInv
<1> QED
  BY <1>3, <1>4, IInvHolds, RefinementInit, PTL DEF Spec, Linearizable, Abstract!Spec
=============================================================================
