---------------------------- MODULE MCGlobalFifo ----------------------------
(***************************************************************************)
(* Instances of GlobalFifo for TLC: a FIFO of two bytes, and programs that *)
(* between them make every call.                                           *)
(***************************************************************************)
EXTENDS GlobalFifo

MCNoTask == "nobody"
MCByte == 0 .. 2
MCReadCounts == {1, 2}
MCPayloads == {<<1>>, <<2, 1>>}
MCPollEvents == {{"POLLIN"}, {"POLLIN", "POLLOUT"}}
MCCopyOrders == {"ascending"}

\* cat, echo with SIGIO, and main_poll, which polls, clears and does not
\* block in its reads.
MCTasks == {"cat", "echo", "main_poll"}
MCNonBlocking == {"main_poll"}
MCSignalled == {"cat"}
MCCalls ==
    [t \in MCTasks |-> CASE t = "cat"       -> {"read", "fasync"}
                         [] t = "echo"      -> {"write"}
                         [] t = "main_poll" -> {"read", "poll", "clear"}]

\* Nobody clears the FIFO: a reader, a writer, and a task that reads, writes
\* and polls.
LiveTasks == {"cat", "echo", "app"}
LiveNonBlocking == {}
LiveSignalled == {"echo"}
LiveCalls ==
    [t \in LiveTasks |-> CASE t = "cat"  -> {"read"}
                           [] t = "echo" -> {"write"}
                           [] t = "app"  -> {"write", "poll"}]
LiveReadCounts == {1}
LivePayloads == {<<1>>}
LivePollEvents == {{"POLLIN"}, {"POLLOUT"}}
LiveSize == 1

\* A writer and a program that clears the FIFO.
ClearTasks == {"echo", "main_poll"}
ClearCalls ==
    [t \in ClearTasks |-> IF t = "echo" THEN {"write"} ELSE {"clear"}]
=============================================================================
