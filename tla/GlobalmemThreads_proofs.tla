------------------------ MODULE GlobalmemThreads_proofs ------------------------
(***************************************************************************)
(* Proofs about GlobalmemThreads for every number of rounds: what the      *)
(* locks guarantee, what a lock that was initialised while it was held     *)
(* (torn) still does, and what one stale store can lose.                   *)
(***************************************************************************)
EXTENDS GlobalmemThreads, TLAPS

Inside(t) == pc[t] \in {"load", "store", "leave"}
Out(t) == pc[t] \in {"loop", "exited"}

\* Types that need nothing but themselves: TypeOK with no bound on the counters.
Types ==
    /\ variable \in Nat /\ variable2 \in Nat /\ seq \in Nat /\ added \in Nat
    /\ owner \in [OwnedLocks -> Threads \cup {NoThread}]
    /\ readers \in Int
    /\ writing \in BOOLEAN
    /\ initialised \in 0 .. 3
    /\ stopping \subseteq Threads
    /\ sec \in [Threads -> 1 .. 5]
    /\ pc \in [Threads -> {"loop", "enter", "load", "store", "leave", "retry", "dead", "exited"}]
    /\ reg \in [Threads -> Nat]
    /\ missed \in [Threads -> Nat]
    /\ torn \subseteq {"mutex", "spin", "rwlock"}
    /\ round \in [Threads -> 0 .. MaxRounds]

\* Where in a section a thread can be.
PlaceInv ==
    /\ \A t \in Threads : Out(t) \/ pc[t] = "dead" => sec[t] = 1
    /\ pc["thread"] \in {"load", "store"} => sec["thread"] \in {1, 2}
    /\ pc["thread"] = "leave" => sec["thread"] \in {1, 2, 3}
    /\ pc["thread"] = "retry" => sec["thread"] = 5
    /\ Inside("thread2") => sec["thread2"] \in {1, 2, 3, 5}
    /\ pc["thread2"] # "retry"

\* What a thread has loaded or stored is no more than has been added by then.
OvercountInv ==
    /\ variable <= added
    /\ \A t \in Threads : pc[t] = "store" => reg[t] <= added

\* How often thread_function and thread_function2 have added, by their place.
Added1 ==
    IF Out("thread") THEN 2 * round["thread"]
    ELSE 2 * (round["thread"] - 1)
         + (IF sec["thread"] = 1 THEN 0 ELSE IF sec["thread"] = 2 THEN 1 ELSE 2)
         + (IF pc["thread"] = "leave" /\ sec["thread"] # 3 THEN 1 ELSE 0)

Added2 ==
    IF Out("thread2") THEN 4 * round["thread2"]
    ELSE 4 * (round["thread2"] - 1)
         + (IF sec["thread2"] < 4 THEN sec["thread2"] - 1 ELSE 3)
         + (IF pc["thread2"] = "leave" THEN 1 ELSE 0)

\* How often the sequence has been made odd or even again.
Sequence ==
    IF Out("thread2") THEN 2 * round["thread2"]
    ELSE 2 * (round["thread2"] - 1) + (IF sec["thread2"] = 5 /\ Inside("thread2") THEN 1 ELSE 0)

CountInv ==
    /\ added = Added1 + Added2
    /\ seq = Sequence
    /\ AtomicExact

\* A lock is held by nobody but the thread in its section, and if it is not
\* torn, by that thread.
OwnerInv ==
    \A t \in Threads : \A l \in OwnedLocks :
        /\ owner[l] = t => Inside(t) /\ Section(t) = l
        /\ l \notin torn /\ Inside(t) /\ Section(t) = l => owner[l] = t

Reading == pc["thread"] = "leave" /\ sec["thread"] = 3
Writing == Inside("thread2") /\ sec["thread2"] = 3

RwlockInv ==
    /\ writing => Writing
    /\ "rwlock" \notin torn =>
           /\ readers = IF Reading THEN 1 ELSE 0
           /\ Writing => writing
           /\ ~(Reading /\ Writing)

\* A seqlock reader keeps an even sequence only.
SeqInv == pc["thread"] = "retry" => reg["thread"] % 2 = 0

\* How often thread2 can have added since thread was in its section, by the
\* place thread2 has got to, and the other way round.
Since1 ==
    IF sec["thread"] = 1
    THEN (IF sec["thread2"] = 1 THEN 3 ELSE IF sec["thread2"] = 2 THEN 0
          ELSE IF sec["thread2"] = 3 THEN 1 ELSE 2)
         + (IF pc["thread2"] = "leave" THEN 1 ELSE 0)
    ELSE (IF sec["thread2"] = 1 THEN 2 ELSE IF sec["thread2"] = 2 THEN 3
          ELSE IF sec["thread2"] = 3 THEN 0 ELSE 1)
         + (IF pc["thread2"] = "leave" THEN 1 ELSE 0)

Leaving == IF pc["thread"] = "leave" /\ sec["thread"] \in {1, 2} THEN 1 ELSE 0

Since2 ==
    IF sec["thread2"] = 1 THEN (IF sec["thread"] = 2 THEN 0 ELSE 1) + Leaving
    ELSE IF sec["thread2"] = 2 THEN (IF sec["thread"] = 2 THEN 1 ELSE 0) + Leaving
    ELSE IF sec["thread2"] = 3
         THEN (IF sec["thread"] = 3 THEN 2 ELSE IF sec["thread"] = 2 THEN 1 ELSE 0) + Leaving
    ELSE (IF sec["thread"] = 1 THEN 0 ELSE IF sec["thread"] = 2 THEN 1 ELSE 2) + Leaving

\* Under a lock that is not torn a thread misses no more than that.
MissedInv ==
    /\ pc["thread"] = "store" /\ LockOf("thread") \notin torn => missed["thread"] <= Since1
    /\ pc["thread2"] = "store" /\ LockOf("thread2") \notin torn => missed["thread2"] <= Since2
    /\ \A t \in Threads : pc[t] # "store" => missed[t] = 0

IInv == Types /\ PlaceInv /\ OvercountInv /\ CountInv
LocksInv == OwnerInv /\ RwlockInv /\ SeqInv
-----------------------------------------------------------------------------
\* The sections by their number.
LEMMA Sections ==
    ASSUME Types
    PROVE  /\ sec["thread"] = 1 => Section("thread") = "mutex"
           /\ sec["thread"] = 2 => Section("thread") = "spin"
           /\ sec["thread"] = 3 => Section("thread") = "read"
           /\ sec["thread"] = 4 => Section("thread") = "atomic"
           /\ sec["thread"] = 5 => Section("thread") = "seqread"
           /\ sec["thread2"] = 1 => Section("thread2") = "mutex"
           /\ sec["thread2"] = 2 => Section("thread2") = "spin"
           /\ sec["thread2"] = 3 => Section("thread2") = "write"
           /\ sec["thread2"] = 4 => Section("thread2") = "atomic"
           /\ sec["thread2"] = 5 => Section("thread2") = "seqwrite"
           /\ sec["thread"] \in 1 .. 5 /\ sec["thread2"] \in 1 .. 5
  BY DEF Section, Program, Types, Threads

\* Every step keeps the types.
LEMMA NextTypes == Types /\ [Next]_vars => Types'
<1> SUFFICES ASSUME Types, [Next]_vars PROVE Types'
  OBVIOUS
<1> USE GlobalmemThreadsAssumption DEF Types, locks, ghosts, Goto
<1>1. CASE InitLock
  <2> DEFINE l == InitOrder[initialised + 1]
  <2>1. l \in {"mutex", "spin", "rwlock"} /\ initialised + 1 \in 1 .. 3
    BY <1>1 DEF InitLock, InitOrder
  <2>2. writing' \in BOOLEAN
    BY <1>1, Zenon DEF InitLock
  <2>3. readers' = (IF l = "rwlock" THEN 0 ELSE readers)
        /\ torn' = IF InUse(l) THEN torn \cup {l} ELSE torn
    BY <1>1, Zenon DEF InitLock
  <2>4. torn' \subseteq {"mutex", "spin", "rwlock"}
    BY <2>1, <2>3
  <2>5. readers' \in Int
    BY <2>3
  <2> QED
    BY <1>1, <2>1, <2>2, <2>4, <2>5 DEF InitLock
<1>2. ASSUME NEW t \in Threads, Stop(t) \/ Oops(t) PROVE Types'
  BY <1>2 DEF Stop, Oops
<1>3. ASSUME NEW t \in Threads, Loop(t) PROVE Types'
  BY <1>3 DEF Loop
<1>4. ASSUME NEW t \in Threads, Enter(t) PROVE Types'
  <2>1. writing' \in BOOLEAN
    BY <1>4, Zenon DEF Enter, EnterOwned, EnterRead, EnterWrite, EnterSeqWrite, SeqBegin
  <2>2. UNCHANGED ghosts
    BY <1>4 DEF Enter, EnterOwned, EnterRead, EnterWrite, EnterSeqWrite, SeqBegin
  <2>3. CASE EnterOwned(t)
    BY <2>1, <2>2, <2>3 DEF EnterOwned
  <2>4. CASE EnterRead(t) \/ EnterWrite(t) \/ EnterSeqWrite(t)
    BY <2>1, <2>2, <2>4 DEF EnterRead, EnterWrite, EnterSeqWrite
  <2>5. CASE SeqBegin(t)
    BY <2>1, <2>2, <2>5 DEF SeqBegin
  <2> QED
    BY <1>4, <2>3, <2>4, <2>5 DEF Enter
<1>5. ASSUME NEW t \in Threads, SeqRetry(t) \/ AtomicInc(t) PROVE Types'
  <2>1. reg' \in [Threads -> Nat]
    BY <1>5 DEF SeqRetry, AtomicInc
  <2>2. /\ sec' \in [Threads -> 1 .. 5]
        /\ pc' \in [Threads -> {"loop", "enter", "load", "store", "leave", "retry", "dead", "exited"}]
    BY <1>5 DEF SeqRetry, AtomicInc, NextSection
  <2>3. CASE SeqRetry(t)
    BY <2>1, <2>2, <2>3 DEF SeqRetry
  <2>4. CASE AtomicInc(t)
    BY <2>1, <2>2, <2>4 DEF AtomicInc
  <2> QED
    BY <1>5, <2>3, <2>4
<1>6. ASSUME NEW t \in Threads, Load(t) \/ Store(t) PROVE Types'
  <2>1. missed' \in [Threads -> Nat] /\ reg' \in [Threads -> Nat]
    BY <1>6 DEF Load, Store
  <2>2. variable' \in Nat /\ added' \in Nat
    BY <1>6 DEF Load, Store
  <2>3. pc' \in [Threads -> {"loop", "enter", "load", "store", "leave", "retry", "dead", "exited"}]
    BY <1>6 DEF Load, Store
  <2>4. CASE Load(t)
    BY <2>1, <2>2, <2>3, <2>4 DEF Load
  <2>5. CASE Store(t)
    BY <2>1, <2>2, <2>3, <2>5 DEF Store
  <2> QED
    BY <1>6, <2>4, <2>5
<1>7. ASSUME NEW t \in Threads, Leave(t) PROVE Types'
  <2>1. writing' \in BOOLEAN
    BY <1>7, Zenon DEF Leave
  <2> QED
    BY <1>7, <2>1 DEF Leave, NextSection
<1>8. CASE UNCHANGED vars
  BY <1>8 DEF vars
<1> QED
  BY <1>1, <1>2, <1>3, <1>4, <1>5, <1>6, <1>7, <1>8 DEF Next, Thread
-----------------------------------------------------------------------------
\* Every step takes a thread to a place its section has.
LEMMA NextPlace == Types /\ PlaceInv /\ [Next]_vars => PlaceInv'
<1> SUFFICES ASSUME Types, PlaceInv, [Next]_vars PROVE PlaceInv'
  OBVIOUS
<1> USE Sections DEF PlaceInv, Out, Inside, Threads, Goto, locks, ghosts, OwnedLocks
<1>1. CASE InitLock
  BY <1>1 DEF InitLock
<1>2. ASSUME NEW t \in Threads, Stop(t) \/ Oops(t) PROVE PlaceInv'
  BY <1>2 DEF Stop, Oops, Types
<1>3. ASSUME NEW t \in Threads, Loop(t) PROVE PlaceInv'
  BY <1>3 DEF Loop, Types
<1>4. ASSUME NEW t \in Threads, Enter(t) PROVE PlaceInv'
  BY <1>4 DEF Enter, EnterOwned, EnterRead, EnterWrite, EnterSeqWrite, SeqBegin, Types
<1>5. ASSUME NEW t \in Threads, SeqRetry(t) \/ AtomicInc(t) PROVE PlaceInv'
  BY <1>5 DEF SeqRetry, AtomicInc, NextSection, Types
<1>6. ASSUME NEW t \in Threads, Load(t) \/ Store(t) PROVE PlaceInv'
  BY <1>6 DEF Load, Store, Types
<1>7. ASSUME NEW t \in Threads, Leave(t) PROVE PlaceInv'
  BY <1>7 DEF Leave, NextSection, Types
<1>8. CASE UNCHANGED vars
  BY <1>8 DEF vars
<1> QED
  BY <1>1, <1>2, <1>3, <1>4, <1>5, <1>6, <1>7, <1>8 DEF Next, Thread
-----------------------------------------------------------------------------
\* Every step keeps what is loaded and stored below what has been added.
LEMMA NextOvercount == Types /\ OvercountInv /\ [Next]_vars => OvercountInv'
<1> SUFFICES ASSUME Types, OvercountInv, [Next]_vars PROVE OvercountInv'
  OBVIOUS
<1> USE DEF OvercountInv, Goto, locks, ghosts
<1>1. CASE InitLock
  BY <1>1 DEF InitLock
<1>2. ASSUME NEW t \in Threads, Stop(t) \/ Oops(t) PROVE OvercountInv'
  BY <1>2 DEF Stop, Oops, Types
<1>3. ASSUME NEW t \in Threads, Loop(t) PROVE OvercountInv'
  BY <1>3 DEF Loop, Types
<1>4. ASSUME NEW t \in Threads, Enter(t) PROVE OvercountInv'
  BY <1>4 DEF Enter, EnterOwned, EnterRead, EnterWrite, EnterSeqWrite, SeqBegin, Types
<1>5. ASSUME NEW t \in Threads, SeqRetry(t) \/ AtomicInc(t) PROVE OvercountInv'
  BY <1>5 DEF SeqRetry, AtomicInc, NextSection, Types
<1>6. ASSUME NEW t \in Threads, Load(t) \/ Store(t) PROVE OvercountInv'
  BY <1>6 DEF Load, Store, Types
<1>7. ASSUME NEW t \in Threads, Leave(t) PROVE OvercountInv'
  BY <1>7 DEF Leave, NextSection, Types
<1>8. CASE UNCHANGED vars
  BY <1>8 DEF vars
<1> QED
  BY <1>1, <1>2, <1>3, <1>4, <1>5, <1>6, <1>7, <1>8 DEF Next, Thread
-----------------------------------------------------------------------------
\* Every step counts where its thread has got to.
LEMMA NextCount == Types /\ PlaceInv /\ CountInv /\ [Next]_vars => CountInv'
<1> SUFFICES ASSUME Types, PlaceInv, CountInv, [Next]_vars PROVE CountInv'
  OBVIOUS
<1> USE Sections DEF CountInv, Added1, Added2, Sequence, AtomicExact, Passed,
        PlaceInv, Out, Inside, Threads, Goto, locks, ghosts, OwnedLocks
<1>1. CASE InitLock
  BY <1>1 DEF InitLock
<1>2. ASSUME NEW t \in Threads, Stop(t) \/ Oops(t) PROVE CountInv'
  BY <1>2 DEF Stop, Oops, Types
<1>3. ASSUME NEW t \in Threads, Loop(t) PROVE CountInv'
  BY <1>3 DEF Loop, Types
<1>4. ASSUME NEW t \in Threads, Enter(t) PROVE CountInv'
  BY <1>4 DEF Enter, EnterOwned, EnterRead, EnterWrite, EnterSeqWrite, SeqBegin, Types
<1>5. ASSUME NEW t \in Threads, SeqRetry(t) PROVE CountInv'
  BY <1>5 DEF SeqRetry, NextSection, Types
<1>6. ASSUME NEW t \in Threads, AtomicInc(t) PROVE CountInv'
  BY <1>6 DEF AtomicInc, NextSection, Types
<1>7. ASSUME NEW t \in Threads, Load(t) \/ Store(t) PROVE CountInv'
  BY <1>7 DEF Load, Store, Types
<1>8. ASSUME NEW t \in Threads, Leave(t) PROVE CountInv'
  BY <1>8 DEF Leave, NextSection, Types
<1>9. CASE UNCHANGED vars
  BY <1>9 DEF vars
<1> QED
  BY <1>1, <1>2, <1>3, <1>4, <1>5, <1>6, <1>7, <1>8, <1>9 DEF Next, Thread
-----------------------------------------------------------------------------
(* The locks. *)

\* A step of t leaves the other thread in its section.
LEMMA OtherStays ==
    ASSUME Types, NEW t \in Threads, NEW s \in Threads \ {t}, NEW label, NEW n,
           pc' = [pc EXCEPT ![t] = label],
           UNCHANGED sec \/ sec' = [sec EXCEPT ![t] = n]
    PROVE  (Inside(s)' <=> Inside(s)) /\ Section(s)' = Section(s)
  BY DEF Inside, Section, Types

\* A step that takes and leaves no lock, inside or outside of a section.
LEMMA OwnerStays ==
    ASSUME Types, OwnerInv, NEW t \in Threads, NEW label, NEW n,
           pc' = [pc EXCEPT ![t] = label],
           UNCHANGED sec \/ sec' = [sec EXCEPT ![t] = n], UNCHANGED <<owner, torn>>,
           \A l \in OwnedLocks :
               (Inside(t) /\ Section(t) = l) <=> (Inside(t)' /\ Section(t)' = l)
    PROVE  OwnerInv'
<1> SUFFICES ASSUME NEW s \in Threads, NEW l \in OwnedLocks
             PROVE  (/\ owner[l] = s => Inside(s) /\ Section(s) = l
                     /\ l \notin torn /\ Inside(s) /\ Section(s) = l => owner[l] = s)'
  BY DEF OwnerInv
<1>1. CASE s = t
  BY <1>1 DEF OwnerInv
<1>2. CASE s # t
  <2>1. (Inside(s)' <=> Inside(s)) /\ Section(s)' = Section(s)
    BY <1>2 DEF Inside, Section, Types
  <2> QED
    BY <2>1 DEF OwnerInv
<1> QED
  BY <1>1, <1>2

\* Only the thread that is in a section owns its lock.
LEMMA NextOwner ==
    ASSUME Types, PlaceInv, OwnerInv, [Next]_vars
    PROVE  OwnerInv'
<1> USE DEF locks, ghosts
<1>1. CASE InitLock
  <2> DEFINE i == InitOrder[initialised + 1]
  <2> SUFFICES ASSUME NEW s \in Threads, NEW l \in OwnedLocks
               PROVE  (/\ owner[l] = s => Inside(s) /\ Section(s) = l
                       /\ l \notin torn /\ Inside(s) /\ Section(s) = l => owner[l] = s)'
    BY DEF OwnerInv
  <2>1. (Inside(s)' <=> Inside(s)) /\ Section(s)' = Section(s)
    BY <1>1 DEF InitLock, Inside, Section
  <2>2. /\ owner'[l] = (IF l = i THEN NoThread ELSE owner[l])
        /\ torn' = IF InUse(i) THEN torn \cup {i} ELSE torn
    BY <1>1 DEF InitLock
  <2>3. l = i /\ ~InUse(i) => owner[l] = NoThread
    BY DEF InUse, OwnedLocks
  <2> QED
    BY <2>1, <2>2, <2>3, GlobalmemThreadsAssumption DEF OwnerInv
<1>2. ASSUME NEW t \in Threads, Stop(t) PROVE OwnerInv'
  BY <1>2 DEF Stop, OwnerInv, Inside, Section
<1>3. ASSUME NEW t \in Threads, Loop(t) \/ Oops(t) PROVE OwnerInv'
  <2>1. PICK label \in {"enter", "exited", "dead"} : Goto(t, label)
    BY <1>3 DEF Loop, Oops
  <2>2. ~Inside(t) /\ ~Inside(t)'
    BY <1>3, <2>1 DEF Loop, Oops, Goto, Inside, Types
  <2> QED
    BY <1>3, <2>1, <2>2, OwnerStays DEF Loop, Oops, Goto
<1>4. ASSUME NEW t \in Threads, EnterOwned(t) PROVE OwnerInv'
  <2>1. Inside(t)' /\ Section(t)' = Section(t) /\ ~Inside(t) /\ torn' = torn
    BY <1>4 DEF EnterOwned, Goto, Inside, Section, Types
  <2> SUFFICES ASSUME NEW s \in Threads, NEW l \in OwnedLocks
               PROVE  (/\ owner[l] = s => Inside(s) /\ Section(s) = l
                       /\ l \notin torn /\ Inside(s) /\ Section(s) = l => owner[l] = s)'
    BY DEF OwnerInv
  <2>2. owner'[l] = IF l = Section(t) THEN t ELSE owner[l]
    BY <1>4 DEF EnterOwned, Types
  <2>3. CASE s = t
    BY <2>1, <2>2, <2>3 DEF OwnerInv
  <2>4. CASE s # t
    <3>1. (Inside(s)' <=> Inside(s)) /\ Section(s)' = Section(s)
      BY <1>4, <2>4, OtherStays DEF EnterOwned, Goto
    <3>2. owner[Section(t)] # s
      BY <1>4, GlobalmemThreadsAssumption DEF EnterOwned
    <3> QED
      BY <2>1, <2>2, <2>4, <3>1, <3>2 DEF OwnerInv
  <2> QED
    BY <2>3, <2>4
<1>5. ASSUME NEW t \in Threads, EnterRead(t) \/ EnterWrite(t) \/ EnterSeqWrite(t) \/ SeqBegin(t)
      PROVE  OwnerInv'
  <2>1. PICK label : Goto(t, label)
    BY <1>5 DEF EnterRead, EnterWrite, EnterSeqWrite, SeqBegin
  <2>2. Section(t) \notin OwnedLocks /\ Section(t)' = Section(t)
    BY <1>5 DEF EnterRead, EnterWrite, EnterSeqWrite, SeqBegin, OwnedLocks, Section
  <2> QED
    BY <1>5, <2>1, <2>2, OwnerStays
    DEF EnterRead, EnterWrite, EnterSeqWrite, SeqBegin, Goto
<1>6. ASSUME NEW t \in Threads, SeqRetry(t) \/ AtomicInc(t) PROVE OwnerInv'
  <2>1. PICK label \in {"loop", "enter"} : Goto(t, label)
    BY <1>6 DEF SeqRetry, AtomicInc, NextSection
  <2>2. ~Inside(t) /\ ~Inside(t)'
    BY <1>6, <2>1 DEF SeqRetry, AtomicInc, Goto, Inside, Types
  <2> QED
    BY <1>6, <2>1, <2>2, OwnerStays DEF SeqRetry, AtomicInc, NextSection, Goto
<1>7. ASSUME NEW t \in Threads, Load(t) \/ Store(t) PROVE OwnerInv'
  <2>1. PICK label \in {"store", "leave"} : Goto(t, label)
    BY <1>7 DEF Load, Store
  <2>2. Inside(t) /\ Inside(t)' /\ Section(t)' = Section(t)
    BY <1>7, <2>1 DEF Load, Store, Goto, Inside, Section, Types
  <2> QED
    BY <1>7, <2>1, <2>2, OwnerStays DEF Load, Store, Goto
<1>8. ASSUME NEW t \in Threads, Leave(t) PROVE OwnerInv'
  <2>1. PICK label \in {"loop", "enter"} : \E n :
            Goto(t, label) /\ sec' = [sec EXCEPT ![t] = n]
    BY <1>8 DEF Leave, NextSection
  <2>2. Inside(t) /\ ~Inside(t)'
    BY <1>8, <2>1 DEF Leave, Goto, Inside, Types
  <2> SUFFICES ASSUME NEW s \in Threads, NEW l \in OwnedLocks
               PROVE  (/\ owner[l] = s => Inside(s) /\ Section(s) = l
                       /\ l \notin torn /\ Inside(s) /\ Section(s) = l => owner[l] = s)'
    BY DEF OwnerInv
  <2>3. owner'[l] = (IF l = Section(t) THEN NoThread ELSE owner[l]) /\ torn' = torn
    BY <1>8 DEF Leave
  <2>4. CASE s = t
    BY <2>2, <2>3, <2>4, GlobalmemThreadsAssumption DEF OwnerInv
  <2>5. CASE s # t
    <3>1. (Inside(s)' <=> Inside(s)) /\ Section(s)' = Section(s)
      BY <2>1, <2>5, OtherStays DEF Goto
    <3> QED
      BY <2>2, <2>3, <2>5, <3>1, GlobalmemThreadsAssumption DEF OwnerInv
  <2> QED
    BY <2>4, <2>5
<1>9. CASE UNCHANGED vars
  BY <1>9 DEF vars, OwnerInv, Inside, Section
<1> QED
  BY <1>1, <1>2, <1>3, <1>4, <1>5, <1>6, <1>7, <1>8, <1>9 DEF Next, Thread, Enter

\* The rwlock is held only in its two sections, and unless it is torn, in one
\* of them at a time.
LEMMA NextRwlock ==
    ASSUME Types, PlaceInv, RwlockInv, [Next]_vars
    PROVE  RwlockInv'
<1> USE Sections
    DEF RwlockInv, Reading, Writing, PlaceInv, Inside, Threads, Goto, locks, ghosts, OwnedLocks
<1>1. CASE InitLock
  <2> DEFINE i == InitOrder[initialised + 1]
  <2>1. /\ readers' = (IF i = "rwlock" THEN 0 ELSE readers)
        /\ torn' = IF InUse(i) THEN torn \cup {i} ELSE torn
        /\ UNCHANGED <<sec, pc>>
    BY <1>1, Zenon DEF InitLock
  <2>2. writing' <=> (writing /\ i # "rwlock")
    BY <1>1, Zenon DEF InitLock
  <2>3. i = "rwlock" /\ ~InUse(i) => readers = 0 /\ ~writing
    BY DEF InUse
  <2> QED
    BY <2>1, <2>2, <2>3
<1>2. ASSUME NEW t \in Threads, Stop(t) \/ Loop(t) \/ Oops(t) PROVE RwlockInv'
  BY <1>2 DEF Stop, Loop, Oops, Types
<1>3. ASSUME NEW t \in Threads, Enter(t) PROVE RwlockInv'
  BY <1>3 DEF Enter, EnterOwned, EnterRead, EnterWrite, EnterSeqWrite, SeqBegin, Types
<1>4. ASSUME NEW t \in Threads, SeqRetry(t) \/ AtomicInc(t) PROVE RwlockInv'
  BY <1>4 DEF SeqRetry, AtomicInc, NextSection, Types
<1>5. ASSUME NEW t \in Threads, Load(t) \/ Store(t) PROVE RwlockInv'
  BY <1>5 DEF Load, Store, Types
<1>6. ASSUME NEW t \in Threads, Leave(t) PROVE RwlockInv'
  <2>1. writing' <=> writing /\ Section(t) # "write"
    BY <1>6, Zenon DEF Leave
  <2>2. CASE Section(t) = "read" /\ readers' = readers - 1
    BY <1>6, <2>1, <2>2 DEF Leave, NextSection, Types
  <2>3. CASE Section(t) # "read" /\ readers' = readers
    BY <1>6, <2>1, <2>3 DEF Leave, NextSection, Types
  <2>4. CASE Section(t) = "write" /\ readers' = 0
    BY <1>6, <2>1, <2>4 DEF Leave, NextSection, Types
  <2> QED
    BY <1>6, <2>2, <2>3, <2>4 DEF Leave
<1>7. CASE UNCHANGED vars
  BY <1>7 DEF vars
<1> QED
  BY <1>1, <1>2, <1>3, <1>4, <1>5, <1>6, <1>7 DEF Next, Thread

\* A seqlock reader that is about to look whether it must retry has begun at
\* an even sequence.
LEMMA NextSeq ==
    ASSUME Types, PlaceInv, SeqInv, [Next]_vars
    PROVE  SeqInv'
<1> USE Sections DEF SeqInv, PlaceInv, Threads, Goto, locks, ghosts, OwnedLocks
<1>1. CASE InitLock
  BY <1>1 DEF InitLock
<1>2. ASSUME NEW t \in Threads, Stop(t) \/ Loop(t) \/ Oops(t) PROVE SeqInv'
  BY <1>2 DEF Stop, Loop, Oops, Types
<1>3. ASSUME NEW t \in Threads, Enter(t) PROVE SeqInv'
  BY <1>3 DEF Enter, EnterOwned, EnterRead, EnterWrite, EnterSeqWrite, SeqBegin, Types
<1>4. ASSUME NEW t \in Threads, SeqRetry(t) \/ AtomicInc(t) PROVE SeqInv'
  BY <1>4 DEF SeqRetry, AtomicInc, NextSection, Types
<1>5. ASSUME NEW t \in Threads, Load(t) \/ Store(t) \/ Leave(t) PROVE SeqInv'
  BY <1>5 DEF Load, Store, Leave, NextSection, Types, Inside
<1>6. CASE UNCHANGED vars
  BY <1>6 DEF vars
<1> QED
  BY <1>1, <1>2, <1>3, <1>4, <1>5, <1>6 DEF Next, Thread
-----------------------------------------------------------------------------
(* What a store can miss. *)

\* Two threads are in one section only if its lock is torn.
LEMMA Apart ==
    ASSUME Types, PlaceInv, CountInv, OwnerInv, RwlockInv, SeqInv
    PROVE  /\ sec["thread"] = 1 /\ sec["thread2"] = 1 /\ "mutex" \notin torn
                => ~(Inside("thread") /\ Inside("thread2"))
           /\ sec["thread"] = 2 /\ sec["thread2"] = 2 /\ "spin" \notin torn
                => ~(Inside("thread") /\ Inside("thread2"))
           /\ sec["thread"] = 3 /\ sec["thread2"] = 3 /\ "rwlock" \notin torn
                => ~(Inside("thread") /\ Inside("thread2"))
           /\ Inside("thread2") /\ sec["thread2"] = 5 => seq % 2 = 1
<1>1. /\ "mutex" \notin torn => ~(/\ Inside("thread") /\ Section("thread") = "mutex"
                                  /\ Inside("thread2") /\ Section("thread2") = "mutex")
      /\ "spin" \notin torn => ~(/\ Inside("thread") /\ Section("thread") = "spin"
                                 /\ Inside("thread2") /\ Section("thread2") = "spin")
  BY DEF OwnerInv, OwnedLocks, Threads
<1>2. Inside("thread") /\ sec["thread"] = 3 => Reading
  BY DEF PlaceInv, Inside, Reading
<1>3. Inside("thread2") /\ sec["thread2"] = 5 => seq % 2 = 1
  BY DEF CountInv, Sequence, Out, Inside, Types, Threads
<1> QED
  BY <1>1, <1>2, <1>3, Sections DEF RwlockInv, Writing

\* Every step keeps what a thread misses below what the other one has added
\* since it was in the thread's section: it does not pass the section.
LEMMA NextMissed ==
    ASSUME Types, PlaceInv, CountInv, OwnerInv, RwlockInv, SeqInv, MissedInv, [Next]_vars
    PROVE  MissedInv'
<1> USE Sections, Apart
    DEF MissedInv, Since1, Since2, Leaving, LockOf, PlaceInv, Inside, Out, Threads, Goto,
        locks, ghosts, OwnedLocks
<1>0. /\ "thread" \in Threads /\ "thread2" \in Threads
      /\ \A t \in Threads : missed[t] \in Nat
  BY DEF Types
<1>1. CASE InitLock
  <2>1. torn \subseteq torn' /\ UNCHANGED <<sec, pc, missed>>
    BY <1>1 DEF InitLock
  <2>2. Section("thread")' = Section("thread") /\ Section("thread2")' = Section("thread2")
    BY <2>1 DEF Section
  <2> QED
    BY <2>1, <2>2
<1>2. ASSUME NEW t \in Threads, Stop(t) \/ Loop(t) \/ Oops(t) PROVE MissedInv'
  <2>1. UNCHANGED <<sec, missed, torn>> /\ (UNCHANGED pc \/ \E k \in {"enter", "exited", "dead"} :
            pc[t] \in {"loop", "enter"} /\ pc' = [pc EXCEPT ![t] = k])
    BY <1>2 DEF Stop, Loop, Oops
  <2>2. Section("thread")' = Section("thread") /\ Section("thread2")' = Section("thread2")
    BY <2>1 DEF Section
  <2> QED
    BY <1>0, <2>1, <2>2 DEF Types
<1>3. ASSUME NEW t \in Threads, Enter(t) PROVE MissedInv'
  <2>1. UNCHANGED <<sec, missed, torn>> /\ (\E k \in {"load", "leave", "retry"} :
            pc[t] = "enter" /\ pc' = [pc EXCEPT ![t] = k] /\ (k = "leave" => Section(t) = "read"))
    BY <1>3 DEF Enter, EnterOwned, EnterRead, EnterWrite, EnterSeqWrite, SeqBegin
  <2>2. Section("thread")' = Section("thread") /\ Section("thread2")' = Section("thread2")
    BY <2>1 DEF Section
  <2> QED
    BY <1>0, <2>1, <2>2 DEF Types
<1>4. ASSUME NEW t \in Threads, SeqRetry(t) PROVE MissedInv'
  <2>1. t = "thread" /\ sec[t] = 5
    BY <1>4 DEF SeqRetry
  <2>2. Inside("thread2") /\ sec["thread2"] = 5 => seq # reg[t]
    BY <1>4, <2>1 DEF SeqRetry, SeqInv
  <2> QED
    BY <1>0, <1>4, <2>1, <2>2 DEF SeqRetry, NextSection, Section, Types
<1>5. ASSUME NEW t \in Threads, AtomicInc(t) PROVE MissedInv'
  <2>1. sec[t] = 4
    BY <1>5 DEF AtomicInc
  <2> QED
    BY <1>0, <1>5, <2>1 DEF AtomicInc, NextSection, Section, Types
<1>6. ASSUME NEW t \in Threads, Load(t) PROVE MissedInv'
  <2>1. UNCHANGED <<sec, missed, torn>> /\ pc[t] = "load" /\ pc' = [pc EXCEPT ![t] = "store"]
    BY <1>6 DEF Load
  <2>2. Section("thread")' = Section("thread") /\ Section("thread2")' = Section("thread2")
    BY <2>1 DEF Section
  <2> QED
    BY <1>0, <2>1, <2>2 DEF Types
<1>7. ASSUME NEW t \in Threads, Store(t) PROVE MissedInv'
  <2>1. UNCHANGED <<sec, torn>> /\ pc[t] = "store" /\ pc' = [pc EXCEPT ![t] = "leave"]
    BY <1>7 DEF Store
  <2>2. missed' = [s \in Threads |->
            IF s = t THEN 0 ELSE IF pc[s] = "store" THEN missed[s] + 1 ELSE missed[s]]
    BY <1>7 DEF Store
  <2>3. Section("thread")' = Section("thread") /\ Section("thread2")' = Section("thread2")
    BY <2>1 DEF Section
  <2>4. CASE t = "thread"
    BY <1>0, <2>1, <2>2, <2>3, <2>4 DEF Types
  <2>5. CASE t = "thread2"
    BY <1>0, <2>1, <2>2, <2>3, <2>5 DEF Types
  <2> QED
    BY <2>4, <2>5
<1>8. ASSUME NEW t \in Threads, Leave(t) PROVE MissedInv'
  <2>1. UNCHANGED <<missed, torn>> /\ pc[t] = "leave" /\ NextSection(t)
    BY <1>8 DEF Leave
  <2>2. CASE t = "thread"
    <3>1. sec["thread"] \in {1, 2, 3} /\ sec'["thread"] = sec["thread"] + 1
          /\ sec'["thread2"] = sec["thread2"]
      BY <2>1, <2>2 DEF NextSection, Types
    <3>2. pc'["thread"] = "enter" /\ pc'["thread2"] = pc["thread2"]
      BY <2>1, <2>2 DEF NextSection, Types
    <3>3. Section("thread2")' = Section("thread2")
      BY <3>1 DEF Section
    <3>4. UNCHANGED missed /\ UNCHANGED torn
      BY <2>1
    <3>5. ASSUME pc["thread2"] = "store", LockOf("thread2") \notin torn
          PROVE  Since2 <= Since2'
      <4>1. Inside("thread2") /\ Inside("thread") /\ pc["thread"] = "leave" /\ sec["thread2"] \in {1, 2, 3, 5}
        BY <1>0, <2>1, <2>2, <3>5
      <4> QED
        BY <3>1, <3>2, <3>5, <4>1
    <3>6. Since2 \in Int /\ Since2' \in Int
      BY <3>1
    <3>7. pc["thread2"] = "store" /\ LockOf("thread2") \notin torn => missed["thread2"] <= Since2'
      BY <1>0, <3>5, <3>6
    <3> QED
      BY <3>2, <3>3, <3>4, <3>7, <2>1, <1>0, <2>2
  <2>3. CASE t = "thread2"
    <3>1. sec["thread2"] \in {1, 2, 3, 5} /\ sec'["thread"] = sec["thread"]
          /\ sec'["thread2"] = IF sec["thread2"] = 5 THEN 1 ELSE sec["thread2"] + 1
      BY <2>1, <2>3 DEF NextSection, Types
    <3>2. pc'["thread2"] \in {"enter", "loop"} /\ pc'["thread"] = pc["thread"]
      BY <2>1, <2>3 DEF NextSection, Types
    <3>3. Section("thread")' = Section("thread")
      BY <3>1 DEF Section
    <3>4. UNCHANGED missed /\ UNCHANGED torn
      BY <2>1
    <3>5. ASSUME pc["thread"] = "store", LockOf("thread") \notin torn
          PROVE  Since1 <= Since1'
      <4>1. Inside("thread") /\ Inside("thread2") /\ pc["thread2"] = "leave" /\ sec["thread"] \in {1, 2}
        BY <1>0, <2>1, <2>3, <3>5
      <4> QED
        BY <3>1, <3>2, <3>5, <4>1
    <3>6. Since1 \in Int /\ Since1' \in Int
      BY <3>1
    <3>7. pc["thread"] = "store" /\ LockOf("thread") \notin torn => missed["thread"] <= Since1'
      BY <1>0, <3>5, <3>6
    <3> QED
      BY <3>2, <3>3, <3>4, <3>7, <2>1, <1>0, <2>3
  <2> QED
    BY <2>2, <2>3 DEF Threads
<1>9. CASE UNCHANGED vars
  BY <1>9 DEF vars, Section
<1> QED
  BY <1>1, <1>2, <1>3, <1>4, <1>5, <1>6, <1>7, <1>8, <1>9 DEF Next, Thread
-----------------------------------------------------------------------------
\* The inductive invariant is one.
LEMMA Inductive == Spec => []IInv
<1>1. Init => IInv
  <2> SUFFICES ASSUME Init PROVE IInv
    OBVIOUS
  <2>1. writing \in BOOLEAN
    BY Zenon DEF Init
  <2>2. Types
    BY <2>1, GlobalmemThreadsAssumption DEF Init, Types
  <2> QED
    BY <2>2 DEF Init, IInv, PlaceInv, Out, Inside, OvercountInv,
       CountInv, Added1, Added2, Sequence, AtomicExact, Passed, Threads
<1>2. IInv /\ [Next]_vars => IInv'
  BY NextTypes, NextPlace, NextOvercount, NextCount DEF IInv
<1> QED
  BY <1>1, <1>2, PTL DEF Spec


\* What is known of the locks is inductive with it, whenever the threads start.
LEMMA LocksInductive == Spec => [](LocksInv /\ MissedInv)
<1>1. Init => LocksInv /\ MissedInv
  <2> SUFFICES ASSUME Init PROVE LocksInv /\ MissedInv
    OBVIOUS
  <2>1. writing <=> FALSE
    BY Zenon DEF Init
  <2> QED
    BY <2>1, GlobalmemThreadsAssumption DEF Init, LocksInv, OwnerInv, RwlockInv, SeqInv,
       Reading, Writing, MissedInv, Inside, Threads, OwnedLocks
<1>2. IInv /\ LocksInv /\ MissedInv /\ [Next]_vars => (LocksInv /\ MissedInv)'
  BY NextOwner, NextRwlock, NextSeq, NextMissed DEF IInv, LocksInv
<1> QED
  BY <1>1, <1>2, Inductive, PTL DEF Spec
-----------------------------------------------------------------------------
\* Every variable keeps its type, and the counters their bounds by the rounds.
THEOREM TypeCorrect == Spec => []TypeOK
<1>1. IInv => TypeOK
  <2> SUFFICES ASSUME IInv PROVE TypeOK
    OBVIOUS
  <2> USE GlobalmemThreadsAssumption DEF IInv, Types, Threads
  <2>1. Added1 <= 2 * MaxRounds
    BY Sections DEF Added1, Out, PlaceInv
  <2>2. Added2 <= 4 * MaxRounds
    BY Sections DEF Added2, Out, PlaceInv, Inside
  <2>3. Added1 \in Int /\ Added2 \in Int
    BY DEF Added1, Added2
  <2>4. variable \in 0 .. 6 * MaxRounds
    BY <2>1, <2>2, <2>3 DEF CountInv, OvercountInv
  <2>5. variable2 \in 0 .. 2 * MaxRounds
    BY DEF CountInv, AtomicExact, Passed
  <2>6. seq \in 0 .. 2 * MaxRounds
    BY DEF CountInv, Sequence
  <2> QED
    BY <2>4, <2>5, <2>6 DEF TypeOK
<1> QED
  BY <1>1, Inductive, PTL

\* The atomic_t loses no increment, with the locks or without them.
THEOREM AtomicCounts == Spec => []AtomicExact
<1>1. IInv => AtomicExact
  BY DEF IInv, CountInv
<1> QED
  BY <1>1, Inductive, PTL

\* Two threads that are about to store what they have loaded hold two
\* different locks, or else the lock was initialised while it was held, though
\* nothing makes the threads wait for the initialisation.
THEOREM OneLockExcludes == Spec => []LossNeedsTwoLocks
<1>1. IInv /\ LocksInv => LossNeedsTwoLocks
  <2> SUFFICES ASSUME IInv, LocksInv, pc["thread"] = "store", pc["thread2"] = "store",
                      Section("thread") = Section("thread2"), Section("thread") \notin torn
               PROVE  FALSE
    BY DEF LossNeedsTwoLocks
  <2>1. Section("thread") \in OwnedLocks
    BY Sections DEF IInv, PlaceInv, OwnedLocks
  <2> QED
    BY <2>1 DEF LocksInv, OwnerInv, Inside, Threads
<1> QED
  BY <1>1, Inductive, LocksInductive, PTL

\* One stale store loses at most what the other thread adds in one round, for
\* it comes to a stop at the lock the storing thread is under.
THEOREM LossBounded == Spec => []LossIsBounded
<1>1. IInv /\ LocksInv /\ MissedInv => LossIsBounded
  <2> SUFFICES ASSUME IInv, LocksInv, MissedInv, NEW t \in Threads,
                      pc[t] = "store", LockOf(t) \notin torn
               PROVE  missed[t] <= MostMissed(t)
    BY DEF LossIsBounded
  <2> USE Sections, Apart DEF IInv, LocksInv, PlaceInv, Inside, LockOf
  <2>0. missed[t] \in Nat
    BY DEF Types
  <2>1. CASE t = "thread"
    <3>1. missed["thread"] <= Since1
      BY <2>1 DEF MissedInv
    <3>2. Since1 <= 3
      BY <2>1 DEF Since1
    <3>3. Since1 \in Int
      BY DEF Since1
    <3> QED
      BY <2>0, <2>1, <3>1, <3>2, <3>3 DEF MostMissed
  <2>2. CASE t = "thread2"
    <3>1. missed["thread2"] <= Since2
      BY <2>2 DEF MissedInv
    <3>2. sec["thread2"] \in {1, 2, 3, 5}
      BY <2>2
    <3>3. Since2 <= IF sec["thread2"] \in {1, 2} THEN 1 ELSE 2
      BY <2>2, <3>2 DEF Since2, Leaving
    <3>4. MostMissed(t) = IF sec["thread2"] \in {1, 2} THEN 1 ELSE 2
      BY <2>2, <3>2 DEF MostMissed, OwnedLocks
    <3>5. Since2 \in Int
      BY DEF Since2, Leaving
    <3> QED
      BY <2>0, <2>2, <3>1, <3>3, <3>4, <3>5
  <2> QED
    BY <2>1, <2>2 DEF Threads
<1> QED
  BY <1>1, Inductive, LocksInductive, PTL

\* A thread that sleeps holds no lock and leaves no sequence odd, whenever the
\* threads start; only the rwlock can lose its count, to its initialisation.
THEOREM SleepsWithoutLocks == Spec => []LocksFreeBetweenRounds
<1>1. IInv /\ LocksInv => LocksFreeBetweenRounds
  <2> SUFFICES ASSUME IInv, LocksInv, \A t \in Threads : Out(t)
               PROVE  /\ \A l \in OwnedLocks : owner[l] = NoThread
                      /\ ~writing /\ seq % 2 = 0
                      /\ readers = 0 \/ "rwlock" \in torn
    BY DEF LocksFreeBetweenRounds, Out
  <2>1. \A l \in OwnedLocks : owner[l] = NoThread
    BY DEF IInv, Types, LocksInv, OwnerInv, Inside, Out
  <2>2. ~writing /\ (readers = 0 \/ "rwlock" \in torn)
    BY DEF LocksInv, RwlockInv, Reading, Writing, Inside, Out, Threads
  <2>3. round["thread2"] \in Nat /\ seq = 2 * round["thread2"]
    BY DEF IInv, CountInv, Sequence, Types, Threads
  <2>4. seq % 2 = 0
    BY <2>3
  <2> QED
    BY <2>1, <2>2, <2>4
<1> QED
  BY <1>1, Inductive, LocksInductive, PTL
=============================================================================
