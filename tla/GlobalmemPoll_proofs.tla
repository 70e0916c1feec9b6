------------------------- MODULE GlobalmemPoll_proofs -------------------------
(***************************************************************************)
(* Proofs about GlobalmemPoll for every number of pollers, epollers, users *)
(* of the attribute and events: no wakeup is lost between the tests of     *)
(* globalmem_poll and the sleep.                                           *)
(***************************************************************************)
EXTENDS GlobalmemPoll, TLAPS

\* The events that t has looked at since it was woken last, or asked first.
Tested(t) ==
    CASE pc[t] \in {"out", "clear out"} -> {"POLLIN"}
      [] pc[t] \in {"asked", "sleep"}   -> Events
      [] OTHER                          -> {}

\* An event that t has looked at too early comes with a wakeup for t.
WakeupInv ==
    \A t \in Tasks : Tested(t) \cap flag # {} =>
        t \in woken \/ \E u \in Users : user[u] = "wake"

IInv == TypeOK /\ WakeupInv
-----------------------------------------------------------------------------
\* A counter below its bound may be incremented.
LEMMA OneMore == \A n \in 0 .. MaxEvents : n < MaxEvents => n + 1 \in 0 .. MaxEvents
  BY GlobalmemPollAssumption

\* Every step keeps the types.
LEMMA NextType == TypeOK /\ [Next]_vars => TypeOK'
<1> SUFFICES ASSUME TypeOK, [Next]_vars PROVE TypeOK'
  OBVIOUS
<1> USE GlobalmemPollAssumption DEF TypeOK
<1>1. ASSUME NEW u \in Users, NEW e \in Events, SetFlag(u, e) PROVE TypeOK'
  <2>1. flag' \subseteq Events /\ pending' \subseteq Events /\ swallowed' \subseteq pending'
    BY <1>1 DEF SetFlag
  <2>2. user' \in [Users -> {"idle", "wake"}]
    BY <1>1 DEF SetFlag
  <2>3. events \in 0 .. MaxEvents /\ events < MaxEvents /\ events' = events + 1
    BY <1>1 DEF SetFlag
  <2>4. events' \in 0 .. MaxEvents
    BY <2>3, OneMore
  <2> QED
    BY <1>1, <2>1, <2>2, <2>4 DEF SetFlag
<1>2. ASSUME NEW u \in Users, WakeUp(u) PROVE TypeOK'
  BY <1>2 DEF WakeUp, Registered, ghosts
<1>3. ASSUME NEW t \in Tasks, Ask(t) \/ Test(t) PROVE TypeOK'
  BY <1>3 DEF Ask, Test, Goto, ghosts
<1>4. ASSUME NEW t \in Tasks, Take(t) PROVE TypeOK'
  <2>1. flag' \subseteq Events
    BY <1>4 DEF Take, Reset
  <2>2. mask' \in [Tasks -> SUBSET Events]
    <3>1. PICK e \in Events : mask' = [mask EXCEPT ![t] = mask[t] \cup {e}]
      BY <1>4 DEF Take, Reset, Events
    <3>2. mask[t] \cup {e} \in SUBSET Events
      BY <3>1
    <3> QED
      BY <3>1, <3>2
  <2>3. pc' \in [Tasks -> {"start", "in", "clear in", "out", "clear out", "asked", "sleep"}]
    BY <1>4 DEF Take, Goto
  <2>4. \A s \in Tasks : pc'[s] \in {"start", "in", "sleep"} => mask'[s] = {}
    BY <1>4 DEF Take, Reset, Goto
  <2> QED
    BY <1>4, <2>1, <2>2, <2>3, <2>4 DEF Take, ghosts
<1>5. ASSUME NEW t \in Tasks, FallAsleep(t) PROVE TypeOK'
  BY <1>5 DEF FallAsleep, Goto, ghosts
<1>6. ASSUME NEW t \in Tasks, Report(t) PROVE TypeOK'
  <2>1. /\ woken' \subseteq Tasks
        /\ pc' \in [Tasks -> {"start", "in", "clear in", "out", "clear out", "asked", "sleep"}]
    BY <1>6 DEF Report, Goto
  <2>2. mask' \in [Tasks -> SUBSET Events]
    BY <1>6 DEF Report
  <2>3. \A s \in Tasks : pc'[s] \in {"start", "in", "sleep"} => mask'[s] = {}
    BY <1>6 DEF Report, Goto
  <2>4. pending' \subseteq Events /\ swallowed' \subseteq pending'
    BY <1>6 DEF Report
  <2> QED
    BY <1>6, <2>1, <2>2, <2>3, <2>4 DEF Report
<1>7. ASSUME NEW t \in Tasks, Swallow(t) PROVE TypeOK'
  BY <1>7 DEF Swallow, Goto
<1>8. ASSUME NEW t \in Tasks, Wake(t) \/ Timeout(t) PROVE TypeOK'
  BY <1>8 DEF Wake, Timeout, Goto, ghosts
<1>9. CASE UNCHANGED vars
  BY <1>9 DEF vars
<1> QED
  BY <1>1, <1>2, <1>3, <1>4, <1>5, <1>6, <1>7, <1>8, <1>9 DEF Next, Poll
-----------------------------------------------------------------------------
(* A step of t sets no flag and wakes nobody up for another task; so it is *)
(* enough to look at t itself.                                             *)

\* Such a step keeps WakeupInv if t may go where it goes.
LEMMA OwnStep ==
    ASSUME TypeOK, WakeupInv, NEW t \in Tasks, NEW label,
           Goto(t, label), UNCHANGED user, flag' \subseteq flag,
           woken \ {t} \subseteq woken',
           Tested(t)' \cap flag' # {} =>
               t \in woken' \/ \E u \in Users : user[u] = "wake"
    PROVE  WakeupInv'
<1> SUFFICES ASSUME NEW s \in Tasks, (Tested(s) \cap flag # {})'
             PROVE  s \in woken' \/ \E u \in Users : user'[u] = "wake"
  BY DEF WakeupInv
<1>1. CASE s = t
  BY <1>1
<1>2. CASE s # t
  <2>1. Tested(s)' = Tested(s)
    BY <1>2 DEF Tested, Goto, TypeOK
  <2> QED
    BY <1>2, <2>1 DEF WakeupInv
<1> QED
  BY <1>1, <1>2

\* Every step keeps WakeupInv.
LEMMA NextWakeup ==
    ASSUME TypeOK, WakeupInv, [Next]_vars
    PROVE  WakeupInv'
<1>1. ASSUME NEW u \in Users, NEW e \in Events, SetFlag(u, e) PROVE WakeupInv'
  <2>1. user'[u] = "wake"
    BY <1>1 DEF SetFlag, TypeOK
  <2> QED
    BY <2>1 DEF WakeupInv
<1>2. ASSUME NEW u \in Users, WakeUp(u) PROVE WakeupInv'
  \* Who has looked at an event is on the wait queue.
  <2>1. \A t \in Tasks : Tested(t)' # {} => t \in Registered
    BY <1>2 DEF WakeUp, Tested, Registered
  <2> QED
    BY <1>2, <2>1 DEF WakeUp, WakeupInv
<1>3. ASSUME NEW t \in Tasks, Ask(t) \/ Wake(t) \/ Timeout(t) PROVE WakeupInv'
  <2>1. PICK label \in {"start", "in"} : Goto(t, label)
    BY <1>3 DEF Ask, Wake, Timeout
  <2>2. Tested(t)' = {}
    BY <2>1 DEF Tested, Goto, TypeOK
  <2> QED
    BY <1>3, <2>1, <2>2, OwnStep DEF Ask, Wake, Timeout
<1>4. ASSUME NEW t \in Tasks, Test(t), pc[t] = "in" PROVE WakeupInv'
  <2>1. CASE "POLLIN" \in flag
    <3>1. Tested(t)' = {}
      BY <1>4, <2>1 DEF Test, Goto, Tested, TypeOK
    <3> QED
      BY <1>4, <2>1, <3>1, OwnStep DEF Test
  <2>2. CASE "POLLIN" \notin flag
    <3>1. Tested(t)' = {"POLLIN"}
      BY <1>4, <2>2 DEF Test, Goto, Tested, TypeOK
    <3> QED
      BY <1>4, <2>2, <3>1, OwnStep DEF Test
  <2> QED
    BY <2>1, <2>2
<1>5. ASSUME NEW t \in Tasks, Test(t), pc[t] = "out" PROVE WakeupInv'
  <2>1. Tested(t) = {"POLLIN"}
    BY <1>5 DEF Tested
  <2>2. Tested(t)' \cap flag \subseteq Tested(t) \cap flag
    BY <1>5, <2>1 DEF Test, Goto, Tested, TypeOK, Events
  <2>3. Tested(t)' \cap flag # {} => t \in woken \/ \E u \in Users : user[u] = "wake"
    BY <2>2 DEF WakeupInv
  <2>4. PICK label : Goto(t, label)
    BY <1>5 DEF Test
  <2> QED
    BY <1>5, <2>3, <2>4, OwnStep DEF Test
<1>6. ASSUME NEW t \in Tasks, Take(t) PROVE WakeupInv'
  <2>1. CASE pc[t] = "clear in"
    <3>1. Tested(t)' = {"POLLIN"} /\ Goto(t, "out")
      BY <1>6, <2>1 DEF Take, Goto, Tested, TypeOK
    <3> QED
      BY <1>6, <2>1, <3>1, OwnStep DEF Take, Reset
  <2>2. CASE pc[t] = "clear out"
    <3>1. Tested(t) = {"POLLIN"} /\ Tested(t)' = Events /\ Goto(t, "asked")
      BY <1>6, <2>2 DEF Take, Goto, Tested, TypeOK
    <3>2. Tested(t)' \cap flag' \subseteq Tested(t) \cap flag
      BY <1>6, <2>2, <3>1 DEF Take, Reset, Events
    <3> QED
      BY <1>6, <2>2, <3>1, <3>2, OwnStep DEF Take, Reset, WakeupInv
  <2> QED
    BY <1>6, <2>1, <2>2 DEF Take
<1>7. ASSUME NEW t \in Tasks, FallAsleep(t) PROVE WakeupInv'
  <2>1. Tested(t)' = Tested(t) /\ Goto(t, "sleep")
    BY <1>7 DEF FallAsleep, Goto, Tested, TypeOK
  <2> QED
    BY <1>7, <2>1, OwnStep DEF FallAsleep, WakeupInv
<1>8. ASSUME NEW t \in Tasks, Report(t) \/ Swallow(t) PROVE WakeupInv'
  <2>1. CASE Goto(t, "start") /\ woken' = woken \ {t}
    <3>1. Tested(t)' = {}
      BY <2>1 DEF Goto, Tested, TypeOK
    <3> QED
      BY <1>8, <2>1, <3>1, OwnStep DEF Report, Swallow
  <2>2. CASE Goto(t, "sleep") /\ woken' = woken \cup {t}
    BY <1>8, <2>2, OwnStep DEF Report, Swallow
  <2> QED
    BY <1>8, <2>1, <2>2 DEF Report, Swallow
<1>9. CASE UNCHANGED vars
  BY <1>9 DEF vars, WakeupInv, Tested
<1>10. ASSUME NEW t \in Tasks, Test(t) PROVE WakeupInv'
  BY <1>10, <1>4, <1>5 DEF Test
<1> QED
  BY <1>1, <1>2, <1>3, <1>6, <1>7, <1>8, <1>9, <1>10 DEF Next, Poll
-----------------------------------------------------------------------------
\* The inductive invariant is one.
LEMMA Inductive == Spec => []IInv
<1>1. Init => IInv
  BY GlobalmemPollAssumption DEF Init, IInv, TypeOK, WakeupInv
<1>2. IInv /\ [Next]_vars => IInv'
  BY NextType, NextWakeup DEF IInv
<1> QED
  BY <1>1, <1>2, PTL DEF Spec

\* Every variable keeps its type; mask is 0 whenever globalmem_poll begins.
THEOREM TypeCorrect == Spec => []TypeOK
<1>1. IInv => TypeOK
  BY DEF IInv
<1> QED
  BY <1>1, Inductive, PTL

\* However the flags and the wakeups of the sysfs attribute fall between the
\* tests of however many pollers, none of them sleeps on while an event waits.
THEOREM NobodyStranded == Spec => []PollersNotStranded
<1>1. IInv => PollersNotStranded
  <2> SUFFICES ASSUME IInv, \A u \in Users : user[u] = "idle", flag # {},
                      NEW t \in Tasks, pc[t] = "sleep"
               PROVE  t \in woken
    BY DEF PollersNotStranded
  <2>1. Tested(t) = Events /\ flag \subseteq Events
    BY DEF Tested, IInv, TypeOK
  <2> QED
    BY <2>1 DEF IInv, WakeupInv
<1> QED
  BY <1>1, Inductive, PTL
=============================================================================
