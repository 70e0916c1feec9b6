---------------------------- MODULE GlobalmemPoll ----------------------------
(***************************************************************************)
(* src/globalmem/globalmem.c: the two events that the device's poll        *)
(* reports.  A write to the sysfs attribute sets can_read, a read of it    *)
(* can_write, and both wake the wait queue; globalmem_poll reports a flag  *)
(* and resets it.  main_app.cpp waits for them with poll or select, or     *)
(* with epoll, again and again.                                            *)
(*                                                                         *)
(* poll(2), select(2) and epoll(7) are the kernel's and modelled as far as *)
(* they call globalmem_poll: poll and select register on the wait queue    *)
(* and ask once, and again after every wakeup and at the timeout; epoll    *)
(* asks when the file is added, and for every file that was woken since.   *)
(***************************************************************************)
EXTENDS Integers, FiniteSets

CONSTANTS
    Pollers,    \* the tasks that call poll or select
    Epollers,   \* the tasks that use epoll
    Users,      \* the tasks that read and write the sysfs attribute
    MaxEvents   \* bound: how often they do

Tasks == Pollers \cup Epollers

ASSUME GlobalmemPollAssumption ==
    /\ Pollers \cap Epollers = {}
    /\ MaxEvents \in Nat

Events == {"POLLIN", "POLLOUT"}

VARIABLES
    flag,       \* the events whose flag, can_read or can_write, is true
    user,       \* where sysfs_store and sysfs_show are
    events,     \* how many of these calls there have been
    pc,         \* where a poller is
    mask,       \* what its globalmem_poll has found
    woken,      \* the pollers that the wait queue has woken
    added,      \* the epollers behind epoll_ctl
    pending,    \* the events that no application has been told of
    swallowed   \* those of them that epoll_ctl has taken

vars == <<flag, user, events, pc, mask, woken, added, pending, swallowed>>

ghosts == <<pending, swallowed>>

TypeOK ==
    /\ flag \subseteq Events
    /\ user \in [Users -> {"idle", "wake"}]
    /\ events \in 0 .. MaxEvents
    /\ pc \in [Tasks -> {"start", "in", "clear in", "out", "clear out", "asked", "sleep"}]
    /\ mask \in [Tasks -> SUBSET Events]
    /\ \A t \in Tasks : pc[t] \in {"start", "in", "sleep"} => mask[t] = {}
    /\ woken \subseteq Tasks /\ added \subseteq Epollers
    /\ pending \subseteq Events /\ swallowed \subseteq pending

Init ==
    /\ flag = {}
    /\ user = [u \in Users |-> "idle"]
    /\ events = 0
    /\ pc = [t \in Tasks |-> "start"]
    /\ mask = [t \in Tasks |-> {}]
    /\ woken = {} /\ added = {}
    /\ pending = {} /\ swallowed = {}

Goto(t, label) == pc' = [pc EXCEPT ![t] = label]
-----------------------------------------------------------------------------
(* The sysfs attribute. *)

\* Mutant: poll_wait behind the tests.
Registered_Late == {t \in Tasks : pc[t] \in {"asked", "sleep"} \/ t \in added}

\* Who is on wait_queue_globalmem_data.
Registered == {t \in Tasks : pc[t] # "start"}

\* sysfs_store sets can_read, sysfs_show can_write.
SetFlag(u, e) ==
    /\ user[u] = "idle"
    /\ events < MaxEvents
    /\ events' = events + 1
    /\ flag' = flag \cup {e}
    /\ user' = [user EXCEPT ![u] = "wake"]
    /\ pending' = pending \cup {e}
    /\ swallowed' = swallowed \ {e}
    /\ UNCHANGED <<pc, mask, woken, added>>

WakeUp(u) ==
    /\ user[u] = "wake"
    /\ woken' = woken \cup Registered
    /\ user' = [user EXCEPT ![u] = "idle"]
    /\ UNCHANGED <<flag, events, pc, mask, added, ghosts>>
-----------------------------------------------------------------------------
(* globalmem_poll. *)

\* poll_wait; for an epoller this is epoll_ctl.
Ask(t) ==
    /\ pc[t] = "start"
    /\ Goto(t, "in")
    /\ UNCHANGED <<flag, user, events, mask, woken, added, ghosts>>

Test(t) ==
    /\ \/ pc[t] = "in"  /\ Goto(t, IF "POLLIN" \in flag THEN "clear in" ELSE "out")
       \/ pc[t] = "out" /\ Goto(t, IF "POLLOUT" \in flag THEN "clear out" ELSE "asked")
    /\ UNCHANGED <<flag, user, events, mask, woken, added, ghosts>>

Reset(t, e) ==
    /\ flag' = flag \ {e}
    /\ mask' = [mask EXCEPT ![t] = @ \cup {e}]

\* Mutant: can_read is reset and POLLIN not reported.
Take_NoMask(t) ==
    /\ \/ pc[t] = "clear in" /\ flag' = flag \ {"POLLIN"} /\ UNCHANGED mask /\ Goto(t, "out")
       \/ pc[t] = "clear out" /\ Reset(t, "POLLOUT") /\ Goto(t, "asked")
    /\ UNCHANGED <<user, events, woken, added, ghosts>>

\* The flag is reset whoever else may have reset it since the test.
Take(t) ==
    /\ \/ pc[t] = "clear in" /\ Reset(t, "POLLIN") /\ Goto(t, "out")
       \/ pc[t] = "clear out" /\ Reset(t, "POLLOUT") /\ Goto(t, "asked")
    /\ UNCHANGED <<user, events, woken, added, ghosts>>
-----------------------------------------------------------------------------
(* Behind globalmem_poll. *)

\* Nothing to report.
FallAsleep(t) ==
    /\ pc[t] = "asked"
    /\ mask[t] = {}
    /\ Goto(t, "sleep")
    /\ added' = added \cup ({t} \cap Epollers)
    /\ UNCHANGED <<flag, user, events, mask, woken, ghosts>>

\* poll, select or epoll_wait returns.  poll and select leave the wait queue;
\* epoll asks for the same file again at the next epoll_wait.
Report(t) ==
    /\ pc[t] = "asked"
    /\ mask[t] # {}
    /\ t \in Pollers \cup added
    /\ pending' = pending \ mask[t]
    /\ swallowed' = swallowed \ mask[t]
    /\ mask' = [mask EXCEPT ![t] = {}]
    /\ IF t \in Pollers THEN Goto(t, "start") /\ woken' = woken \ {t}
                         ELSE Goto(t, "sleep") /\ woken' = woken \cup {t}
    /\ UNCHANGED <<flag, user, events, added>>

\* epoll_ctl found events, puts the file on the ready list and forgets the
\* mask: epoll_wait asks again, when the flags are reset already.
Swallow(t) ==
    /\ pc[t] = "asked"
    /\ mask[t] # {}
    /\ t \in Epollers \ added
    /\ swallowed' = swallowed \cup ((mask[t] \cap pending) \ flag)
    /\ mask' = [mask EXCEPT ![t] = {}]
    /\ added' = added \cup {t}
    /\ woken' = woken \cup {t}
    /\ Goto(t, "sleep")
    /\ UNCHANGED <<flag, user, events, pending>>

Wake(t) ==
    /\ pc[t] = "sleep"
    /\ t \in woken
    /\ woken' = woken \ {t}
    /\ Goto(t, "in")
    /\ UNCHANGED <<flag, user, events, mask, added, ghosts>>

\* After five seconds poll and select ask once more and return; the
\* application calls again, which is to ask once more, too.
Timeout(t) ==
    /\ pc[t] = "sleep"
    /\ t \in Pollers
    /\ woken' = woken \ {t}
    /\ Goto(t, "start")
    /\ UNCHANGED <<flag, user, events, mask, added, ghosts>>
-----------------------------------------------------------------------------
Poll(t) ==
    Ask(t) \/ Test(t) \/ Take(t) \/ FallAsleep(t) \/ Report(t) \/ Swallow(t) \/ Wake(t)

Next ==
    \/ \E u \in Users : WakeUp(u) \/ \E e \in Events : SetFlag(u, e)
    \/ \E t \in Tasks : Poll(t) \/ Timeout(t)

Spec == Init /\ [][Next]_vars

\* main_app polls again and again; a sysfs call goes on.  Nothing makes anyone
\* use the attribute, and no timeout is needed.
Fairness ==
    /\ \A t \in Tasks : WF_vars(Poll(t))
    /\ \A u \in Users : WF_vars(WakeUp(u))

FairSpec == Spec /\ Fairness
-----------------------------------------------------------------------------
(* Properties. *)

\* globalmem.c:390 and 408, "Wake up poll wait queue": nobody sleeps on while
\* there is an event, unless the wakeup is still to come.
PollersNotStranded ==
    (\A u \in Users : user[u] = "idle") /\ flag # {}
        => \A t \in Tasks : pc[t] = "sleep" => t \in woken

\* Every event is reported to an application, although pollers take it from
\* one another - but for one that comes before epoll_ctl.
EventsReported ==
    \A e \in Events : e \in pending ~> e \notin pending \/ e \in swallowed
=============================================================================
