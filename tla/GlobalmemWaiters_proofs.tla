----------------------- MODULE GlobalmemWaiters_proofs -----------------------
(***************************************************************************)
(* Proofs about GlobalmemWaiters for every set of tasks and every number   *)
(* of reads: the part of the two notifications that is safe.               *)
(***************************************************************************)
EXTENDS GlobalmemWaiters, FiniteSetTheorems, TLAPS

\* The tasks that have counted their read and may still signal it.
Signalling == {a \in Apps : app[a] \in {"done", "complete"}}

\* The report that wait_function2 is about to make.
Reporting == IF w2 \in {"test", "count"} THEN 1 ELSE 0

\* The signal that globalmem_exit gives itself.
OfExit == IF exit \in {"rest", "gone"} THEN 1 ELSE 0

\* Types that need nothing but themselves: TypeOK without its two bounds.
Types ==
    /\ exit \in {"loaded", "flag", "wake", "flag2", "done", "complete", "rest", "gone"}
    /\ app \in [Apps -> {"closed", "open", "done", "complete"}]
    /\ wait_queue_flag \in {0, 1, 2}
    /\ w1 \in {"prepare", "test", "schedule", "woken", "exited"}
    /\ asleep \in BOOLEAN
    /\ completion_flag \in {0, 1, 2}
    /\ done \in Nat
    /\ w2 \in {"wait", "test", "count", "clear", "exited"}
    /\ reads \in 0 .. MaxReads
    /\ completion_count \in Nat

\* Once globalmem_exit has set it, wait_function never takes the flag back.
FlagInv ==
    exit \in {"wake", "flag2", "done", "complete", "rest", "gone"} => wait_queue_flag = 2

\* Every signal comes from a read of its own, or from globalmem_exit; the
\* reads that have not signalled yet are taken off the reports already.
SignalInv ==
    /\ IsFiniteSet(Signalling)
    /\ completion_count + done + Reporting + Cardinality(Signalling) <= reads + OfExit

IInv == Types /\ FlagInv /\ WaitThreadNotStuck /\ SignalInv
-----------------------------------------------------------------------------
(* Who is in Signalling behind a step. *)

\* A step of no reader leaves the readers that signal.
LEMMA SignalStays ==
    ASSUME UNCHANGED app
    PROVE  Signalling' = Signalling
  BY DEF Signalling

\* A task that moves takes nobody with it.
LEMMA SignalMoves ==
    ASSUME Types, NEW a \in Apps,
           NEW label \in {"closed", "open", "done", "complete"}, At(a, label)
    PROVE  Signalling' = IF label \in {"done", "complete"}
                         THEN Signalling \cup {a} ELSE Signalling \ {a}
  BY DEF Types, At, Signalling
-----------------------------------------------------------------------------
\* The variables start in their types.
LEMMA InitTypes == Init => Types
<1>1. Init => asleep \in BOOLEAN
  BY Zenon DEF Init
<1> QED
  BY <1>1, GlobalmemWaitersAssumption DEF Init, Types

\* Every step keeps the types.
LEMMA NextTypes == Types /\ [Next]_vars => Types'
<1> SUFFICES ASSUME Types, [Next]_vars PROVE Types'
  OBVIOUS
<1> USE GlobalmemWaitersAssumption
<1>1. ASSUME NEW a \in Apps, Open(a) \/ Release(a) \/ ReadFlag(a) PROVE Types'
  BY <1>1 DEF Types, Open, Release, ReadFlag, At, waitqueue, completion
<1>2. ASSUME NEW a \in Apps, Read(a) PROVE Types'
  BY <1>2 DEF Types, Read, ReadDone, ReadComplete, At, waitqueue, completion
<1>3. CASE Waiter1
  BY <1>3 DEF Types, Waiter1, W1Prepare, W1Test, W1Schedule, W1Woken, completion
<1>4. CASE Waiter2
  BY <1>4 DEF Types, Waiter2, W2Wait, W2Test, W2Count, W2Clear, waitqueue
<1>5. CASE Rmmod
  BY <1>5 DEF Types, Rmmod, waitqueue, completion
<1>6. CASE Exit
  <2>1. asleep' \in BOOLEAN
    BY <1>6, Zenon DEF Types, Exit, SetWaitFlag, WakeUp, SetCompletionFlag,
       TestDone, Complete, Unload, waitqueue
  <2> QED
    BY <1>6, <2>1 DEF Types, Exit, SetWaitFlag, WakeUp, SetCompletionFlag,
       TestDone, Complete, Unload, waitqueue, completion
<1>7. CASE UNCHANGED vars
  BY <1>7 DEF Types, vars
<1> QED
  BY <1>1, <1>2, <1>3, <1>4, <1>5, <1>6, <1>7 DEF Next
-----------------------------------------------------------------------------
(* wait_function: the flag stays, and the thread tests it behind           *)
(* prepare_to_wait, so it goes to sleep only before it is set.             *)

\* Every step keeps the flag and lets wait_function not fall asleep behind it.
LEMMA NextFlag ==
    ASSUME Types, FlagInv, WaitThreadNotStuck, [Next]_vars
    PROVE  FlagInv' /\ WaitThreadNotStuck'
<1> USE DEF FlagInv, WaitThreadNotStuck, Stuck1
<1>1. ASSUME NEW a \in Apps, Open(a) \/ Release(a) \/ ReadFlag(a)
      PROVE  FlagInv' /\ WaitThreadNotStuck'
  BY <1>1 DEF Open, Release, ReadFlag, waitqueue
<1>2. ASSUME NEW a \in Apps, Read(a) PROVE FlagInv' /\ WaitThreadNotStuck'
  BY <1>2 DEF Read, ReadDone, ReadComplete, waitqueue
<1>3. CASE W1Prepare
  BY <1>3 DEF W1Prepare
<1>4. CASE W1Test
  BY <1>4 DEF W1Test
<1>5. CASE W1Schedule
  BY <1>5 DEF W1Schedule
<1>6. CASE W1Woken
  BY <1>6 DEF W1Woken
<1>7. CASE Waiter2
  BY <1>7 DEF Waiter2, W2Wait, W2Test, W2Count, W2Clear, waitqueue
<1>8. CASE Rmmod
  BY <1>8 DEF Rmmod, waitqueue
<1>9. CASE SetWaitFlag
  BY <1>9 DEF SetWaitFlag
<1>10. CASE WakeUp
  BY <1>10 DEF WakeUp
<1>11. CASE SetCompletionFlag \/ TestDone \/ Complete \/ Unload
  BY <1>11 DEF SetCompletionFlag, TestDone, Complete, Unload, waitqueue, Types
<1>12. CASE UNCHANGED vars
  BY <1>12 DEF vars
<1> QED
  BY <1>1, <1>2, <1>3, <1>4, <1>5, <1>6, <1>7, <1>8, <1>9, <1>10, <1>11, <1>12
  DEF Next, Waiter1, Exit
-----------------------------------------------------------------------------
(* wait_function2: a step moves what is owed from the reads to the signals *)
(* to the reports and adds nothing to it.                                  *)

\* Every step keeps the balance of reads, signals and reports.
LEMMA NextSignal ==
    ASSUME Types, SignalInv, [Next]_vars
    PROVE  SignalInv'
<1> DEFINE n == Cardinality(Signalling)
<1>0. n \in Nat
  BY FS_CardinalityType DEF SignalInv
<1> HIDE DEF n
<1>fix. UNCHANGED app => IsFiniteSet(Signalling') /\ Cardinality(Signalling') = n
  BY SignalStays DEF n, SignalInv
<1>1. ASSUME NEW a \in Apps, Open(a) \/ Release(a) PROVE SignalInv'
  <2>1. Signalling' = Signalling \ {a} /\ a \notin Signalling
    BY <1>1, SignalMoves DEF Open, Release, Signalling
  <2>2. Signalling' = Signalling
    BY <2>1
  <2> QED
    BY <1>1, <2>2 DEF Open, Release, SignalInv, Reporting, OfExit, completion
<1>2. ASSUME NEW a \in Apps, ReadFlag(a) PROVE SignalInv'
  <2>1. Signalling' = Signalling \cup {a} /\ a \notin Signalling
    BY <1>2, SignalMoves DEF ReadFlag, Signalling
  <2>2. IsFiniteSet(Signalling') /\ Cardinality(Signalling') = n + 1
    BY <2>1, FS_AddElement DEF SignalInv, n
  <2> QED
    BY <1>2, <1>0, <2>2 DEF ReadFlag, SignalInv, Types, Reporting, OfExit, waitqueue, n
<1>3. ASSUME NEW a \in Apps, ReadDone(a) PROVE SignalInv'
  <2>1. \/ Signalling' = Signalling \cup {a}
        \/ Signalling' = Signalling \ {a}
    BY <1>3, SignalMoves DEF ReadDone
  <2>2. a \in Signalling
    BY <1>3 DEF ReadDone, Signalling
  <2>3. IsFiniteSet(Signalling') /\ Cardinality(Signalling') \in {n, n - 1}
    BY <2>1, <2>2, FS_AddElement, FS_RemoveElement DEF SignalInv, n
  <2> QED
    BY <1>3, <1>0, <2>3 DEF ReadDone, SignalInv, Types, Reporting, OfExit, completion, n
<1>4. ASSUME NEW a \in Apps, ReadComplete(a) PROVE SignalInv'
  <2>1. Signalling' = Signalling \ {a} /\ a \in Signalling
    BY <1>4, SignalMoves DEF ReadComplete, Signalling
  <2>2. IsFiniteSet(Signalling') /\ Cardinality(Signalling') = n - 1
    BY <2>1, FS_RemoveElement DEF SignalInv, n
  <2> QED
    BY <1>4, <1>0, <2>2 DEF ReadComplete, SignalInv, Types, Reporting, OfExit, waitqueue, n
<1>5. CASE Waiter1
  BY <1>5, <1>fix, <1>0 DEF Waiter1, W1Prepare, W1Test, W1Schedule, W1Woken,
     SignalInv, Reporting, OfExit, completion, n
<1>6. CASE Waiter2
  BY <1>6, <1>fix, <1>0 DEF Waiter2, W2Wait, W2Test, W2Count, W2Clear,
     SignalInv, Types, Reporting, OfExit, waitqueue, n
<1>7. CASE Rmmod \/ SetWaitFlag \/ WakeUp \/ SetCompletionFlag
  BY <1>7, <1>fix, <1>0 DEF Rmmod, SetWaitFlag, WakeUp, SetCompletionFlag,
     SignalInv, Reporting, OfExit, waitqueue, completion, n
<1>8. CASE TestDone \/ Complete \/ Unload
  BY <1>8, <1>fix, <1>0 DEF TestDone, Complete, Unload,
     SignalInv, Types, Reporting, OfExit, waitqueue, completion, n
<1>9. CASE UNCHANGED vars
  BY <1>9, <1>fix, <1>0 DEF vars, SignalInv, Reporting, OfExit, n
<1> QED
  BY <1>1, <1>2, <1>3, <1>4, <1>5, <1>6, <1>7, <1>8, <1>9 DEF Next, Read, Exit
-----------------------------------------------------------------------------
\* The initial state satisfies the inductive invariant.
LEMMA InitIInv == Init => IInv
<1> SUFFICES ASSUME Init PROVE IInv
  OBVIOUS
<1>1. Types
  BY InitTypes
<1>2. FlagInv /\ WaitThreadNotStuck
  BY DEF Init, FlagInv, WaitThreadNotStuck, Stuck1
<1>3. Signalling = {}
  BY DEF Init, Signalling
<1>4. SignalInv
  BY <1>3, FS_EmptySet DEF Init, SignalInv, Reporting, OfExit
<1> QED
  BY <1>1, <1>2, <1>4 DEF IInv

\* Every step keeps the inductive invariant.
LEMMA NextIInv == IInv /\ [Next]_vars => IInv'
  BY NextTypes, NextFlag, NextSignal DEF IInv

\* The inductive invariant is one.
LEMMA Inductive == Spec => []IInv
  BY InitIInv, NextIInv, PTL DEF Spec

\* What is owed to the reads bounds the counters.
LEMMA Bounds == IInv => TypeOK /\ ReportsAreReads
<1> SUFFICES ASSUME IInv PROVE TypeOK /\ ReportsAreReads
  OBVIOUS
<1>1. Cardinality(Signalling) \in Nat
  BY FS_CardinalityType DEF IInv, SignalInv
<1>2. completion_count + done + Reporting <= reads + OfExit
  BY <1>1 DEF IInv, SignalInv, Types, Reporting, OfExit
<1>3. TypeOK
  BY <1>2 DEF IInv, Types, TypeOK, Reporting, OfExit
<1>4. ReportsAreReads
  BY <1>2 DEF IInv, Types, ReportsAreReads, Reporting, OfExit
<1> QED
  BY <1>3, <1>4
-----------------------------------------------------------------------------
\* Every variable keeps its type, and the completion's counter is bounded by
\* the reads and the one signal of globalmem_exit.
THEOREM TypeCorrect == Spec => []TypeOK
  BY Inductive, Bounds, PTL

\* Behind wake_up_interruptible in globalmem_exit wait_function does not
\* sleep on, whatever the threads and the readers were doing.
THEOREM WakeupNotLost == Spec => []WaitThreadNotStuck
<1>1. IInv => WaitThreadNotStuck
  BY DEF IInv
<1> QED
  BY <1>1, Inductive, PTL

\* However many readers look at completion_done and call complete,
\* wait_function2 never reports a read that did not happen.
THEOREM NoReportTooMany == Spec => []ReportsAreReads
  BY Inductive, Bounds, PTL
=============================================================================
