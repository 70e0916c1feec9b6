------------------------------- MODULE Second -------------------------------
(***************************************************************************)
(* src/second/second.c: one timer for the device, which each open arms,    *)
(* each release deletes, and its own handler arms again: by tasks that     *)
(* open the device at the same time, and against the unloading of the      *)
(* module.  The counter that the handler increments is not modelled.       *)
(***************************************************************************)
EXTENDS Integers

CONSTANT SecondTasks    \* the tasks that open /dev/second

VARIABLES
    users,      \* those that have it open
    s_timer,    \* it is on the kernel's list
    callback,   \* where second_timer_handler is: out, rearm, inc
    second,     \* the module: loaded, exit, gone
    robbed,     \* the last release was that of one user of several
    raced,      \* the last release met the handler
    freed,      \* the timer was freed while it was pending or its handler ran
    corrupt     \* the timer was set up while it was on the kernel's list

secondvars == <<users, s_timer, callback, second, robbed, raced, freed, corrupt>>

SecondTypeOK ==
    /\ users \subseteq SecondTasks
    /\ s_timer \in BOOLEAN
    /\ callback \in {"out", "rearm", "inc"}
    /\ second \in {"loaded", "exit", "gone"}
    /\ robbed \in BOOLEAN /\ raced \in BOOLEAN
    /\ freed \in BOOLEAN /\ corrupt \in BOOLEAN

SecondInit ==
    /\ users = {} /\ s_timer = FALSE /\ callback = "out" /\ second = "loaded"
    /\ robbed = FALSE /\ raced = FALSE
    /\ freed = FALSE /\ corrupt = FALSE

\* timer_setup and mod_timer.  The timer may be pending, for another user or from
\* a release that met the handler: then its links are overwritten and it is
\* added to a second list.  What the kernel makes of the first is not modelled:
\* the model records it and goes on.
SecondOpen(t) ==
    /\ second = "loaded" /\ t \notin users
    /\ users' = users \cup {t}
    /\ s_timer' = TRUE
    /\ robbed' = FALSE
    /\ corrupt' = (corrupt \/ s_timer)
    /\ UNCHANGED <<callback, second, raced, freed>>

\* Mutant: the timer is deleted by the last user only, before it has gone.
SecondRelease_Last(t) ==
    /\ t \in users
    /\ users' = users \ {t}
    /\ s_timer' = IF users = {} THEN FALSE ELSE s_timer
    /\ robbed' = (users # {t})
    /\ raced' = (callback # "out")
    /\ UNCHANGED <<callback, second, freed, corrupt>>

\* del_timer: it does not wait for the handler, nor ask for other users.
SecondRelease(t) ==
    /\ t \in users
    /\ users' = users \ {t}
    /\ s_timer' = FALSE
    /\ robbed' = (users # {t})
    /\ raced' = (callback # "out")
    /\ UNCHANGED <<callback, second, freed, corrupt>>

SecondFire ==
    /\ s_timer /\ callback = "out"
    /\ s_timer' = FALSE
    /\ callback' = "rearm"
    /\ UNCHANGED <<users, second, robbed, raced, freed, corrupt>>

\* second_timer_handler: mod_timer ...
SecondRearm ==
    /\ callback = "rearm"
    /\ s_timer' = TRUE
    /\ callback' = "inc"
    /\ UNCHANGED <<users, second, robbed, raced, freed, corrupt>>

\* ... and the rest.
SecondInc ==
    /\ callback = "inc"
    /\ callback' = "out"
    /\ UNCHANGED <<users, s_timer, second, robbed, raced, freed, corrupt>>

\* rmmod: only while nobody has the device open; cdev_del, ...
SecondExit ==
    /\ second = "loaded" /\ users = {}
    /\ second' = "exit"
    /\ UNCHANGED <<users, s_timer, callback, robbed, raced, freed, corrupt>>

\* ... and kfree, of the timer too.
SecondFree ==
    /\ second = "exit"
    /\ second' = "gone"
    /\ freed' = (s_timer \/ callback # "out")
    /\ UNCHANGED <<users, s_timer, callback, robbed, raced, corrupt>>

SecondNext ==
    \/ \E t \in SecondTasks : SecondOpen(t) \/ SecondRelease(t)
    \/ SecondFire \/ SecondRearm \/ SecondInc
    \/ SecondExit \/ SecondFree

SecondSpec == SecondInit /\ [][SecondNext]_secondvars
-----------------------------------------------------------------------------
\* The seconds run while somebody has the device open, and only then: unless
\* another user's release has deleted the timer under those who remain, and
\* unless the last release met the handler, which arms the timer behind it -
\* for ever, or for rmmod to free; as long as nobody has opened the device
\* while the timer was pending.
ArmedWhileOpen ==
    ~corrupt =>
        /\ users # {} /\ ~robbed => s_timer \/ callback = "rearm"
        /\ users = {} /\ ~raced => ~s_timer /\ callback = "out"
        /\ freed => raced
=============================================================================
