------------------------ MODULE GlobalmemFile_proofs ------------------------
(***************************************************************************)
(* Proofs about GlobalmemFile for every set of tasks and open files, every *)
(* size of the memory and every size that is read or written, with the     *)
(* mutex of globalmem and without one, as in multi_globalmem.              *)
(***************************************************************************)
EXTENDS GlobalmemFile, SequenceTheorems, TLAPS

\* A buffer that holds the same byte n times.
LEMMA FilledBuffer ==
    ASSUME NEW n \in Nat, NEW b \in Byte
    PROVE  /\ [i \in 1 .. n |-> b] \in Seq(Byte)
           /\ Len([i \in 1 .. n |-> b]) = n
<1>1. [i \in 1 .. n |-> b] \in [1 .. n -> Byte]
  OBVIOUS
<1>2. [i \in 1 .. n |-> b] \in Seq(Byte)
  BY <1>1, SeqDef
<1> QED
  BY <1>1, <1>2, LenProperties

\* An offset cut to an unsigned int is not negative.
LEMMA Truncated == \A offset \in Offsets : offset % UIntSize \in Nat
<1>1. \A i \in Int, n \in Nat \ {0} : i % n \in Nat
  OBVIOUS
<1> QED
  BY <1>1, GlobalmemFileAssumption

-----------------------------------------------------------------------------
(* Every step is a step of one task; this spares the proofs below the way  *)
(* through Start and GoOn.                                                 *)

\* Next, task by task.
LEMMA StepCases ==
    ASSUME Next
    PROVE  \E t \in Tasks :
        \/ \E f \in Uses[t] : \E size \in Sizes : Begin(t, "read", f, size, <<>>)
        \/ \E f \in Uses[t] : \E size \in Sizes : \E b \in Byte :
               Begin(t, "write", f, size, [i \in 1 .. size |-> b])
        \/ Lock(t) \/ NoLock(t) \/ Copy(t) \/ Unlock(t) \/ Fault(t) \/ Return(t)
        \/ Clear(t) \/ ClearByte(t)
        \/ \E f \in Uses[t] : \E offset \in Offsets : SeekSet(t, f, offset)
        \/ \E f \in Uses[t] : \E offset \in Offsets : SeekCur(t, f, offset)
        \/ SeekStore(t)
  BY DEF Next, Start, GoOn, Read, Write

-----------------------------------------------------------------------------
(* The inductive invariant, a named part at a time.                        *)

\* The mutex of globalmem is held exactly while bytes are copied.
LockInv == driver = "globalmem" => \A t \in Tasks : mutex = t <=> pc[t] = "copy"

\* The call that a task is in fits the place where it is.
CallInv ==
    \A t \in Tasks :
        /\ pc[t] \in {"idle", "lock", "return"} => done[t] = 0
        /\ pc[t] \in {"lock", "copy", "return", "store"} => call[t].file \in Uses[t]
        /\ pc[t] \in {"lock", "copy"} => call[t].name \in {"read", "write"}
        /\ pc[t] = "return" => call[t].p \in Nat

\* The copy fits the memory and the caller's buffer, and has got no further
\* than it should.
CopyInv ==
    \A t \in Tasks : pc[t] \in {"lock", "copy"} =>
        /\ call[t].p \in Index
        /\ call[t].p + call[t].count <= GLOBALMEM_SIZE
        /\ done[t] \in 0 .. call[t].count
        /\ call[t].name = "read" => Len(buf[t]) = done[t]
        /\ call[t].name = "write" => call[t].count <= Len(buf[t])

\* A file that is not shared.
Unshared(f) == \A t, u \in Tasks : f \in Uses[t] /\ f \in Uses[u] => t = u

\* Its position stays within the memory, and nobody changes it behind the
\* back of the task that has it.
PositionInv ==
    \A f \in Files : Unshared(f) =>
        /\ f_pos[f] \in 0 .. GLOBALMEM_SIZE
        /\ \A t \in Tasks : call[t].file = f =>
            /\ pc[t] \in {"lock", "copy", "return"} =>
                   call[t].p + call[t].count \in 0 .. GLOBALMEM_SIZE
            /\ pc[t] = "store" => done[t] = f_pos[f] /\ InRange(f_pos[f] + call[t].p)

IInv == TypeOK /\ LockInv /\ CallInv /\ CopyInv /\ CopiesAtomic /\ PositionInv

-----------------------------------------------------------------------------
\* It holds in the only initial state.
LEMMA IInvInit == Init => IInv
<1> SUFFICES ASSUME Init PROVE IInv
  OBVIOUS
<1> USE GlobalmemFileAssumption DEF Init, Index, NoCall
<1>1. TypeOK
  <2>1. <<>> \in Seq(Byte)
    OBVIOUS
  <2>2. NoCall \in Call
    BY <2>1 DEF Call, CallNames
  <2> QED
    BY <2>2 DEF TypeOK, Labels
<1>2. LockInv /\ CallInv /\ CopyInv /\ CopiesAtomic
  BY DEF LockInv, CallInv, CopyInv, CopiesAtomic
<1>3. PositionInv
  BY DEF PositionInv
<1> QED
  BY <1>1, <1>2, <1>3 DEF IInv

-----------------------------------------------------------------------------
(* The steps. *)

\* What a read or write starts with, whatever its size.
LEMMA BeginStep ==
    ASSUME IInv, NEW t \in Tasks, NEW f \in Uses[t], NEW size \in Nat,
           NEW name \in {"read", "write"}, NEW data \in Seq(Byte),
           name = "read" => Len(data) = 0, name = "write" => Len(data) = size,
           Begin(t, name, f, size, data)
    PROVE  IInv'
<1> USE GlobalmemFileAssumption DEF IInv, TypeOK, Begin, Goto, Make, Fill
<1>f. f \in Files
  OBVIOUS
<1> DEFINE p == f_pos[f]
<1>p. p \in Nat
  OBVIOUS
<1>1. CASE p >= GLOBALMEM_SIZE
  <2> DEFINE c == [name |-> name, file |-> f, p |-> p, count |-> 0]
  <2>1. /\ call' = [call EXCEPT ![t] = c] /\ pc' = [pc EXCEPT ![t] = "return"]
        /\ buf' = [buf EXCEPT ![t] = <<>>] /\ <<>> \in Seq(Byte)
    BY <1>1
  <2>2. c \in Call
    BY <1>f, <1>p DEF Call, CallNames
  <2>3. TypeOK'
    BY <2>1, <2>2 DEF Labels, Index
  <2>4. LockInv' /\ CopiesAtomic'
    BY <2>1 DEF LockInv, CopiesAtomic
  <2>5. CallInv'
    BY <2>1, <1>p DEF CallInv
  <2>6. CopyInv'
    BY <2>1 DEF CopyInv
  <2>7. PositionInv'
    BY <2>1, <1>p, <1>f, <1>1 DEF PositionInv, Unshared, InRange
  <2> QED
    BY <2>3, <2>4, <2>5, <2>6, <2>7
<1>2. CASE ~(p >= GLOBALMEM_SIZE)
  <2> DEFINE n == Clamp(p, size)
  <2> DEFINE c == [name |-> name, file |-> f, p |-> p, count |-> n]
  <2>1. /\ call' = [call EXCEPT ![t] = c] /\ pc' = [pc EXCEPT ![t] = "lock"]
        /\ buf' = [buf EXCEPT ![t] = data]
    BY <1>2
  <2>n. n \in Nat /\ n <= size /\ p + n <= GLOBALMEM_SIZE /\ p \in Index
    BY <1>2, <1>p DEF Clamp, Index
  <2>2. c \in Call
    BY <1>f, <1>p, <2>n DEF Call, CallNames
  <2> HIDE DEF n
  <2>3. TypeOK'
    BY <2>1, <2>2 DEF Labels, Index
  <2>4. LockInv' /\ CopiesAtomic'
    BY <2>1 DEF LockInv, CopiesAtomic
  <2>5. CallInv'
    BY <2>1 DEF CallInv
  <2>6. CopyInv'
    BY <2>1, <2>n DEF CopyInv, CallInv
  <2>7. PositionInv'
    BY <2>1, <1>p, <1>f, <2>n DEF PositionInv, Unshared, InRange
  <2> QED
    BY <2>3, <2>4, <2>5, <2>6, <2>7
<1> QED
  BY <1>1, <1>2

\* A byte more is copied, by the task that holds the mutex.
LEMMA CopyStep ==
    ASSUME IInv, NEW t \in Tasks, Copy(t)
    PROVE  IInv'
<1> USE GlobalmemFileAssumption DEF IInv, TypeOK, Copy, Did, Fill
<1> DEFINE at == call[t].p + done[t]
<1>c. call[t].p \in Int /\ call[t].count \in Nat
  BY DEF Call
<1>at. at \in Index
  BY <1>c DEF CopyInv, Index
<1>1. CASE call[t].name = "read"
  <2> DEFINE data == Append(buf[t], mem[at])
  <2>1. buf' = [buf EXCEPT ![t] = data] /\ mem' = mem /\ call' = call
    BY <1>1
  <2>2. /\ data \in Seq(Byte) /\ Len(data) = Len(buf[t]) + 1
        /\ data[Len(buf[t]) + 1] = mem[at]
        /\ \A i \in 1 .. Len(buf[t]) : data[i] = buf[t][i]
    BY <1>at, AppendProperties
  <2> HIDE DEF data
  <2>3. TypeOK'
    BY <2>1, <2>2
  <2>4. LockInv' /\ CallInv'
    BY <2>1 DEF LockInv, CallInv
  <2>5. CopyInv'
    BY <2>1, <2>2, <1>1, <1>c DEF CopyInv
  <2>6. CopiesAtomic'
    BY <2>1, <2>2, <1>1, <1>c DEF CopyInv, CopiesAtomic
  <2>7. PositionInv'
    BY <2>1 DEF PositionInv, Unshared, InRange
  <2> QED
    BY <2>3, <2>4, <2>5, <2>6, <2>7
<1>2. CASE call[t].name = "write"
  <2>1. call' = call /\ buf' = buf /\ mem' = [mem EXCEPT ![at] = buf[t][done[t] + 1]]
    BY <1>2
  <2>2. buf[t][done[t] + 1] \in Byte
    BY <1>2, <1>c, ElementOfSeq DEF CopyInv
  <2>3. TypeOK'
    BY <2>1, <2>2, <1>at
  <2>4. LockInv' /\ CallInv'
    BY <2>1 DEF LockInv, CallInv
  <2>5. CopyInv'
    BY <2>1, <1>2, <1>c DEF CopyInv
  <2>6. CopiesAtomic'
    BY <2>1, <1>2, <1>at, <1>c DEF CopyInv, CopiesAtomic, LockInv
  <2>7. PositionInv'
    BY <2>1 DEF PositionInv, Unshared, InRange
  <2> QED
    BY <2>3, <2>4, <2>5, <2>6, <2>7
<1> QED
  BY <1>1, <1>2 DEF CallInv

\* A call is over.
LEMMA Ended ==
    ASSUME TypeOK, NEW t \in Tasks, End(t)
    PROVE  /\ call' = [call EXCEPT ![t] = NoCall] /\ NoCall \in Call
           /\ buf' = [buf EXCEPT ![t] = <<>>] /\ <<>> \in Seq(Byte)
           /\ pc' = [pc EXCEPT ![t] = "idle"] /\ done' = [done EXCEPT ![t] = 0]
  BY DEF End, Goto, Make, Fill, Did, NoCall, Call, CallNames

\* Taking and dropping the mutex, with or without a fault.
LEMMA MutexStep ==
    ASSUME IInv, NEW t \in Tasks, Lock(t) \/ NoLock(t) \/ Unlock(t) \/ Fault(t)
    PROVE  IInv'
<1> USE GlobalmemFileAssumption DEF IInv, TypeOK, Labels
<1>1. CASE Lock(t)
  <2> USE <1>1 DEF Lock, Goto
  <2>1. TypeOK'
    OBVIOUS
  <2>2. LockInv' /\ CallInv' /\ CopyInv'
    BY DEF LockInv, CallInv, CopyInv
  <2>3. CopiesAtomic'
    BY DEF CopiesAtomic, CallInv
  <2>4. PositionInv'
    BY DEF PositionInv, Unshared, InRange
  <2> QED
    BY <2>1, <2>2, <2>3, <2>4
<1>2. CASE Unlock(t)
  <2> USE <1>2 DEF Unlock, Goto, Fill, Did
  <2>1. buf' = [buf EXCEPT ![t] = <<>>] /\ <<>> \in Seq(Byte)
    OBVIOUS
  <2>2. TypeOK'
    BY <2>1
  <2>3. LockInv' /\ CopyInv'
    BY <2>1 DEF LockInv, CopyInv
  <2>4. CallInv'
    BY DEF CallInv, CopyInv, Index
  <2>5. CopiesAtomic'
    BY <2>1 DEF CopiesAtomic
  <2>6. PositionInv'
    BY DEF PositionInv, Unshared, InRange
  <2> QED
    BY <2>2, <2>3, <2>4, <2>5, <2>6
<1>3. CASE Fault(t)
  <2> USE <1>3 DEF Fault
  <2>1. /\ call' = [call EXCEPT ![t] = NoCall] /\ NoCall \in Call
        /\ buf' = [buf EXCEPT ![t] = <<>>] /\ <<>> \in Seq(Byte)
        /\ pc' = [pc EXCEPT ![t] = "idle"] /\ done' = [done EXCEPT ![t] = 0]
    BY Ended
  <2>2. TypeOK'
    BY <2>1
  <2>3. LockInv' /\ CallInv' /\ CopyInv'
    BY <2>1 DEF LockInv, CallInv, CopyInv
  <2>4. CopiesAtomic'
    BY <2>1 DEF CopiesAtomic
  <2>5. PositionInv'
    BY <2>1 DEF PositionInv, Unshared, InRange
  <2> QED
    BY <2>2, <2>3, <2>4, <2>5
<1>4. CASE NoLock(t)
  <2> USE <1>4 DEF NoLock, Goto
  <2>1. TypeOK'
    OBVIOUS
  <2>2. LockInv' /\ CallInv' /\ CopyInv'
    BY DEF LockInv, CallInv, CopyInv
  <2>3. CopiesAtomic'
    BY DEF CopiesAtomic
  <2>4. PositionInv'
    BY DEF PositionInv, Unshared, InRange
  <2> QED
    BY <2>1, <2>2, <2>3, <2>4
<1> QED
  BY <1>1, <1>2, <1>3, <1>4

\* A task that is in no call any more has changed the position of its file.
LEMMA PositionStep ==
    ASSUME IInv, NEW t \in Tasks, NEW f \in Uses[t], NEW pos \in Int,
           f_pos' = [f_pos EXCEPT ![f] = pos],
           Unshared(f) => pos \in 0 .. GLOBALMEM_SIZE,
           pc' = [pc EXCEPT ![t] = "idle"],
           \A u \in Tasks \ {t} : call'[u] = call[u] /\ done'[u] = done[u]
    PROVE  PositionInv'
<1> USE GlobalmemFileAssumption DEF IInv, TypeOK, Labels
<1>f. f \in Files
  OBVIOUS
<1> SUFFICES ASSUME NEW g \in Files, Unshared(g)
             PROVE  /\ f_pos'[g] \in 0 .. GLOBALMEM_SIZE
                    /\ \A u \in Tasks : call'[u].file = g =>
                        /\ pc'[u] \in {"lock", "copy", "return"} =>
                               call'[u].p + call'[u].count \in 0 .. GLOBALMEM_SIZE
                        /\ pc'[u] = "store" =>
                               done'[u] = f_pos'[g] /\ InRange(f_pos'[g] + call'[u].p)
  BY DEF PositionInv, Unshared, InRange
<1>1. f_pos'[g] \in 0 .. GLOBALMEM_SIZE
  BY <1>f DEF PositionInv
<1>2. ASSUME NEW u \in Tasks, call'[u].file = g,
             pc'[u] \in {"lock", "copy", "return", "store"}
      PROVE  /\ u # t /\ pc'[u] = pc[u] /\ call'[u] = call[u] /\ done'[u] = done[u]
             /\ g \in Uses[u] /\ g # f
  BY <1>2 DEF CallInv, Unshared
<1>3. ASSUME NEW u \in Tasks, call'[u].file = g,
             pc'[u] \in {"lock", "copy", "return", "store"}
      PROVE  /\ pc'[u] \in {"lock", "copy", "return"} =>
                    call'[u].p + call'[u].count \in 0 .. GLOBALMEM_SIZE
             /\ pc'[u] = "store" =>
                    done'[u] = f_pos'[g] /\ InRange(f_pos'[g] + call'[u].p)
  <2>1. f_pos'[g] = f_pos[g]
    BY <1>2, <1>3
  <2> QED
    BY <1>2, <1>3, <2>1 DEF PositionInv
<1> QED
  BY <1>1, <1>3

\* A read or write returns and its position is stored.
LEMMA ReturnStep ==
    ASSUME IInv, NEW t \in Tasks, Return(t)
    PROVE  IInv'
<1> USE GlobalmemFileAssumption DEF IInv, TypeOK, Labels, Return
<1>1. /\ call' = [call EXCEPT ![t] = NoCall] /\ NoCall \in Call
      /\ buf' = [buf EXCEPT ![t] = <<>>] /\ <<>> \in Seq(Byte)
      /\ pc' = [pc EXCEPT ![t] = "idle"] /\ done' = [done EXCEPT ![t] = 0]
  BY Ended
<1> DEFINE f == call[t].file
<1>2. f \in Uses[t] /\ f \in Files /\ call[t].p + call[t].count \in Int
  BY DEF CallInv, Call
<1>3. TypeOK'
  BY <1>1, <1>2
<1>4. LockInv' /\ CallInv' /\ CopyInv'
  BY <1>1 DEF LockInv, CallInv, CopyInv
<1>5. CopiesAtomic'
  BY <1>1 DEF CopiesAtomic
<1>6. PositionInv'
  <2>1. Unshared(f) => call[t].p + call[t].count \in 0 .. GLOBALMEM_SIZE
    BY <1>2 DEF PositionInv
  <2> QED
    BY <1>1, <1>2, <2>1, PositionStep
<1> QED
  BY <1>3, <1>4, <1>5, <1>6

\* MEM_CLEAR starts, or clears a byte.
LEMMA ClearStep ==
    ASSUME IInv, NEW t \in Tasks, Clear(t) \/ ClearByte(t)
    PROVE  IInv'
<1> USE GlobalmemFileAssumption DEF IInv, TypeOK, Labels
<1>1. CASE Clear(t)
  <2> USE <1>1 DEF Clear, Goto
  <2>1. TypeOK'
    BY DEF CallInv, Index
  <2>2. LockInv' /\ CallInv' /\ CopyInv'
    BY DEF LockInv, CallInv, CopyInv
  <2>3. CopiesAtomic'
    BY DEF CopiesAtomic
  <2>4. PositionInv'
    BY DEF PositionInv, Unshared, InRange
  <2> QED
    BY <2>1, <2>2, <2>3, <2>4
<1>2. CASE ClearByte(t)
  <2> USE <1>2 DEF ClearByte
  <2>1. CASE done[t] < GLOBALMEM_SIZE - 1
    <3>1. /\ done' = [done EXCEPT ![t] = done[t] + 1] /\ pc' = pc
          /\ call' = call /\ buf' = buf
          /\ f_pos' = f_pos /\ mutex' = mutex
      BY <2>1 DEF Did
    <3>2. TypeOK'
      BY <2>1, <3>1 DEF Index
    <3>3. LockInv' /\ CallInv' /\ CopyInv'
      BY <3>1 DEF LockInv, CallInv, CopyInv
    <3>4. CopiesAtomic'
      BY <3>1 DEF CopiesAtomic
    <3>5. PositionInv'
      BY <3>1 DEF PositionInv, Unshared, InRange
    <3> QED
      BY <3>2, <3>3, <3>4, <3>5
  <2>2. CASE ~(done[t] < GLOBALMEM_SIZE - 1)
    <3>1. /\ call' = [call EXCEPT ![t] = NoCall] /\ NoCall \in Call
          /\ buf' = [buf EXCEPT ![t] = <<>>] /\ <<>> \in Seq(Byte)
          /\ pc' = [pc EXCEPT ![t] = "idle"] /\ done' = [done EXCEPT ![t] = 0]
      BY <2>2, Ended
    <3>2. TypeOK'
      BY <3>1
    <3>3. LockInv' /\ CallInv' /\ CopyInv'
      BY <3>1 DEF LockInv, CallInv, CopyInv
    <3>4. CopiesAtomic'
      BY <3>1 DEF CopiesAtomic
    <3>5. PositionInv'
      BY <3>1 DEF PositionInv, Unshared, InRange
    <3> QED
      BY <3>2, <3>3, <3>4, <3>5
  <2> QED
    BY <2>1, <2>2
<1> QED
  BY <1>1, <1>2

\* SEEK_SET, and the first half of SEEK_CUR.
LEMMA SeekStep ==
    ASSUME IInv, NEW t \in Tasks, NEW f \in Uses[t], NEW offset \in Offsets,
           SeekSet(t, f, offset) \/ SeekCur(t, f, offset)
    PROVE  IInv'
<1> USE GlobalmemFileAssumption DEF IInv, TypeOK, Labels
<1>f. f \in Files /\ offset \in Int
  OBVIOUS
<1>1. CASE SeekSet(t, f, offset)
  <2> DEFINE pos == offset % UIntSize
  <2>1. f_pos' = [f_pos EXCEPT ![f] = pos] /\ pos \in 0 .. GLOBALMEM_SIZE
    BY <1>1, Truncated DEF SeekSet
  <2>2. /\ mem' = mem /\ mutex' = mutex /\ pc' = pc /\ call' = call /\ buf' = buf
        /\ done' = done /\ overlap' = overlap /\ driver' = driver /\ pc[t] = "idle"
    BY <1>1 DEF SeekSet
  <2> HIDE DEF pos
  <2>3. TypeOK'
    BY <2>1, <2>2
  <2>4. LockInv' /\ CallInv' /\ CopyInv' /\ CopiesAtomic'
    BY <2>2 DEF LockInv, CallInv, CopyInv, CopiesAtomic
  <2>5. PositionInv'
    BY <2>1, <2>2, <1>f DEF PositionInv, Unshared, InRange, CallInv
  <2> QED
    BY <2>3, <2>4, <2>5
<1>2. CASE SeekCur(t, f, offset)
  <2> USE <1>2 DEF SeekCur, Goto, Make, Did
  <2> DEFINE c == [name |-> "seek", file |-> f, p |-> offset, count |-> 0]
  <2>1. c \in Call
    BY <1>f DEF Call, CallNames
  <2>2. TypeOK'
    BY <2>1
  <2>3. LockInv' /\ CopiesAtomic'
    BY DEF LockInv, CopiesAtomic
  <2>4. CallInv' /\ CopyInv'
    BY DEF CallInv, CopyInv
  <2>5. PositionInv'
    BY <1>f DEF PositionInv, Unshared, InRange
  <2> QED
    BY <2>2, <2>3, <2>4, <2>5
<1> QED
  BY <1>1, <1>2

\* The second half of SEEK_CUR.
LEMMA StoreStep ==
    ASSUME IInv, NEW t \in Tasks, SeekStore(t)
    PROVE  IInv'
<1> USE GlobalmemFileAssumption DEF IInv, TypeOK, Labels, SeekStore
<1> DEFINE file == call[t].file
<1>1. /\ call' = [call EXCEPT ![t] = NoCall] /\ NoCall \in Call
      /\ buf' = [buf EXCEPT ![t] = <<>>] /\ <<>> \in Seq(Byte)
      /\ pc' = [pc EXCEPT ![t] = "idle"] /\ done' = [done EXCEPT ![t] = 0]
  BY Ended
<1>2. file \in Uses[t] /\ file \in Files /\ call[t].p \in Int
  BY DEF CallInv, Call
<1>3. PICK base \in {done[t], f_pos[file]} :
          f_pos' = [f_pos EXCEPT ![file] = base + call[t].p]
  OBVIOUS
<1>4. TypeOK'
  BY <1>1, <1>2, <1>3
<1>5. LockInv' /\ CallInv' /\ CopyInv'
  BY <1>1 DEF LockInv, CallInv, CopyInv
<1>6. CopiesAtomic'
  BY <1>1 DEF CopiesAtomic
<1>7. PositionInv'
  <2>1. base + call[t].p \in Int
    BY <1>2, <1>3
  <2>2. Unshared(file) => base + call[t].p \in 0 .. GLOBALMEM_SIZE
    BY <1>2, <1>3 DEF PositionInv, InRange
  <2> QED
    BY <1>1, <1>2, <1>3, <2>1, <2>2, PositionStep
<1> QED
  BY <1>4, <1>5, <1>6, <1>7

-----------------------------------------------------------------------------
(* The theorems.                                                           *)

\* Every step, and a stutter, keeps the invariant.
LEMMA IInvStep == IInv /\ [Next]_vars => IInv'
<1> SUFFICES ASSUME IInv, [Next]_vars PROVE IInv'
  OBVIOUS
<1>1. CASE Next
  <2>1. PICK t \in Tasks :
        \/ \E f \in Uses[t] : \E size \in Sizes : Begin(t, "read", f, size, <<>>)
        \/ \E f \in Uses[t] : \E size \in Sizes : \E b \in Byte :
               Begin(t, "write", f, size, [i \in 1 .. size |-> b])
        \/ Lock(t) \/ NoLock(t) \/ Copy(t) \/ Unlock(t) \/ Fault(t) \/ Return(t)
        \/ Clear(t) \/ ClearByte(t)
        \/ \E f \in Uses[t] : \E offset \in Offsets : SeekSet(t, f, offset)
        \/ \E f \in Uses[t] : \E offset \in Offsets : SeekCur(t, f, offset)
        \/ SeekStore(t)
    BY <1>1, StepCases
  <2>2. ASSUME NEW f \in Uses[t], NEW size \in Sizes, Begin(t, "read", f, size, <<>>)
        PROVE  IInv'
    <3>1. size \in Nat /\ <<>> \in Seq(Byte) /\ Len(<<>>) = 0
      BY GlobalmemFileAssumption
    <3> QED
      BY <2>2, <3>1, BeginStep
  <2>3. ASSUME NEW f \in Uses[t], NEW size \in Sizes, NEW b \in Byte,
               Begin(t, "write", f, size, [i \in 1 .. size |-> b])
        PROVE  IInv'
    <3> DEFINE data == [i \in 1 .. size |-> b]
    <3>1. size \in Nat /\ data \in Seq(Byte) /\ Len(data) = size
      BY GlobalmemFileAssumption, FilledBuffer
    <3> HIDE DEF data
    <3>2. Begin(t, "write", f, size, data)
      BY <2>3 DEF data
    <3> QED
      BY <3>1, <3>2, BeginStep
  <2> QED
    BY <2>1, <2>2, <2>3, MutexStep, CopyStep, ReturnStep, ClearStep, SeekStep, StoreStep
<1>2. CASE UNCHANGED vars
  BY <1>2 DEF vars, IInv, TypeOK, LockInv, CallInv, CopyInv, CopiesAtomic, PositionInv,
     InRange
<1> QED
  BY <1>1, <1>2

\* The inductive invariant holds of every behaviour.
THEOREM IInvHolds == Spec => []IInv
  BY IInvInit, IInvStep, PTL DEF Spec

\* Every variable stays in its type.
THEOREM TypeCorrect == Spec => []TypeOK
<1>1. IInv => TypeOK
  BY DEF IInv
<1> QED
  BY <1>1, IInvHolds, PTL

\* No read or write leaves the memory or outruns the clamp, whatever the
\* position has become since the kernel copied it.
THEOREM InBounds == Spec => []CopiesInBounds
<1>1. IInv => CopiesInBounds
  BY DEF IInv, CopyInv, CopiesInBounds
<1> QED
  BY <1>1, IInvHolds, PTL

\* Reads and writes are atomic but for MEM_CLEAR, which takes no mutex.
THEOREM Atomic == Spec => []CopiesAtomic
<1>1. IInv => CopiesAtomic
  BY DEF IInv
<1> QED
  BY <1>1, IInvHolds, PTL

\* The position of a file that one task has stays within the memory.
THEOREM PositionKept == Spec => []PositionInRange
<1>1. IInv => PositionInRange
  BY DEF IInv, PositionInv, Unshared, PositionInRange
<1> QED
  BY <1>1, IInvHolds, PTL
=============================================================================
