--------------------------- MODULE GlobalmemProc ---------------------------
(***************************************************************************)
(* src/globalmem/globalmem.c: reading /proc/example/globalmem.  Whether a  *)
(* read returns the array or the end of the file is decided by one flag,   *)
(* globalmem_proc_len, that all readers share and turn over.               *)
(***************************************************************************)
EXTENDS Integers

CONSTANTS
    ProcReaders,    \* the tasks that read the file
    MaxGot          \* bound: how often a reader gets the array from one open

ASSUME ProcAssumption == MaxGot \in Nat \ {0}

VARIABLES
    globalmem_proc_len,
    reader,     \* where a reader is: closed, open, zero, copy, one, end
    got,        \* how often it has got the array since it opened the file
    orderly     \* no two readers have met, and none has left half way

procvars == <<globalmem_proc_len, reader, got, orderly>>

ProcTypeOK ==
    /\ globalmem_proc_len \in {0, 1}
    /\ reader \in [ProcReaders -> {"closed", "open", "zero", "copy", "one", "end"}]
    /\ got \in [ProcReaders -> 0 .. MaxGot]
    /\ \A r \in ProcReaders : reader[r] \in {"zero", "copy"} => got[r] < MaxGot
    /\ orderly \in BOOLEAN

ProcInit ==
    /\ globalmem_proc_len = 1
    /\ reader = [r \in ProcReaders |-> "closed"]
    /\ got = [r \in ProcReaders |-> 0]
    /\ orderly = TRUE

ReaderTo(r, label) == reader' = [reader EXCEPT ![r] = label]

OpenProc(r) ==
    /\ reader[r] = "closed"
    /\ ReaderTo(r, "open")
    /\ got' = [got EXCEPT ![r] = 0]
    /\ orderly' = (orderly /\ \A q \in ProcReaders : reader[q] = "closed")
    /\ UNCHANGED globalmem_proc_len

\* read_proc: the test, ...
ReadProc(r) ==
    /\ reader[r] = "open"
    /\ globalmem_proc_len # 0 => got[r] < MaxGot
    /\ ReaderTo(r, IF globalmem_proc_len # 0 THEN "zero" ELSE "one")
    /\ UNCHANGED <<globalmem_proc_len, got, orderly>>

\* ... the array, ...
ProcZero(r) ==
    /\ reader[r] = "zero"
    /\ globalmem_proc_len' = 0
    /\ ReaderTo(r, "copy")
    /\ UNCHANGED <<got, orderly>>

ProcCopy(r) ==
    /\ reader[r] = "copy"
    /\ got' = [got EXCEPT ![r] = @ + 1]
    /\ ReaderTo(r, "open")
    /\ UNCHANGED <<globalmem_proc_len, orderly>>

\* Mutant: the flag is not set again.
ProcOne_Forgets(r) ==
    /\ reader[r] = "one"
    /\ ReaderTo(r, "end")
    /\ UNCHANGED <<globalmem_proc_len, got, orderly>>

\* ... or the end of the file.
ProcOne(r) ==
    /\ reader[r] = "one"
    /\ globalmem_proc_len' = 1
    /\ ReaderTo(r, "end")
    /\ UNCHANGED <<got, orderly>>

\* release_proc, by a reader that has seen the end or by one that has not.
ReleaseProc(r) ==
    /\ reader[r] \in {"open", "end"}
    /\ ReaderTo(r, "closed")
    /\ orderly' = (orderly /\ (reader[r] = "open" => got[r] = 0))
    /\ UNCHANGED <<globalmem_proc_len, got>>

ProcNext ==
    \E r \in ProcReaders :
        \/ OpenProc(r) \/ ReadProc(r) \/ ProcZero(r) \/ ProcCopy(r) \/ ProcOne(r)
        \/ ReleaseProc(r)

ProcSpec == ProcInit /\ [][ProcNext]_procvars
-----------------------------------------------------------------------------
\* A reader that reads to the end gets the array once, no more and no less, as
\* long as readers come one at a time and all of them read to the end.  (Two
\* that meet can get it twice and not at all.)
ReadOnce ==
    orderly => \A r \in ProcReaders : reader[r] = "end" => got[r] = 1
=============================================================================
