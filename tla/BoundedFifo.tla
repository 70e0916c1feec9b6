---------------------------- MODULE BoundedFifo ----------------------------
(***************************************************************************)
(* What /dev/globalfifo promises to the programs that use it: one bounded  *)
(* first-in first-out queue of bytes.  A write appends a prefix of the     *)
(* caller's bytes in one indivisible step and only when there is room, a   *)
(* read removes a prefix of the queue in one indivisible step and only     *)
(* when there is something to read, a call that fails moves no byte, and   *)
(* the value a call returns is the number of bytes it moved.               *)
(*                                                                         *)
(* Nothing here knows of the mutex, of wait queues or of sleeping tasks:   *)
(* GlobalFifo implements this specification (its property Linearizable).   *)
(***************************************************************************)
EXTENDS Integers, Sequences

CONSTANTS
    Tasks,      \* the programs that have /dev/globalfifo open
    Byte,       \* the values of a byte
    SIZE        \* how many bytes the queue holds

VARIABLES
    content,    \* the bytes in the queue, oldest first
    buf,        \* buf[t]: what the buffer t gave to its call holds
    ret         \* ret[t]: what t's call is about to return, 0 before that

vars == <<content, buf, ret>>

EAGAIN == -11
EFAULT == -14
ERESTARTSYS == -512

Init ==
    /\ content = <<>>
    /\ buf = [t \in Tasks |-> <<>>]
    /\ ret = [t \in Tasks |-> 0]

\* t hands the bytes it wants to write to its call.
Offer(t) ==
    /\ buf[t] = <<>>
    /\ buf'[t] \in Seq(Byte)
    /\ buf' = [buf EXCEPT ![t] = buf'[t]]
    /\ UNCHANGED <<content, ret>>

\* The first n of the bytes t offered enter the queue, all at once.
Put(t) ==
    /\ Len(content) < SIZE
    /\ \E n \in 0 .. Len(buf[t]) :
        /\ Len(content) + n <= SIZE
        /\ content' = content \o SubSeq(buf[t], 1, n)
        /\ ret' = [ret EXCEPT ![t] = n]
    /\ UNCHANGED buf

\* The n oldest bytes leave the queue and are what t's read delivers.
Take(t) ==
    /\ content # <<>>
    /\ buf[t] = <<>>
    /\ \E n \in 0 .. Len(content) :
        /\ buf' = [buf EXCEPT ![t] = SubSeq(content, 1, n)]
        /\ content' = SubSeq(content, n + 1, Len(content))
        /\ ret' = [ret EXCEPT ![t] = n]

\* A call is turned away: by an empty or full queue when it must not wait,
\* by a signal, or by a bad user address.  No byte moves.
Fail(t) ==
    /\ \E code \in {EAGAIN, EFAULT, ERESTARTSYS} :
        /\ code = EAGAIN => content = <<>> \/ Len(content) = SIZE
        /\ ret' = [ret EXCEPT ![t] = code]
    /\ UNCHANGED <<content, buf>>

\* FIFO_CLEAR empties the queue.
Clear ==
    /\ content' = <<>>
    /\ UNCHANGED <<buf, ret>>

\* t's call returns; its next call brings a buffer of its own.
Return(t) ==
    /\ buf' = [buf EXCEPT ![t] = <<>>]
    /\ ret' = [ret EXCEPT ![t] = 0]
    /\ UNCHANGED content

Next ==
    \/ Clear
    \/ \E t \in Tasks :
        Offer(t) \/ Put(t) \/ Take(t) \/ Fail(t) \/ Return(t)

Spec == Init /\ [][Next]_vars
=============================================================================
