--------------------------- MODULE MCGlobalmemFile ---------------------------
(***************************************************************************)
(* An instance of GlobalmemFile for TLC: main_app and a child that shares  *)
(* its open file and has one of its own, too.                              *)
(***************************************************************************)
EXTENDS GlobalmemFile

MCNoTask == "nobody"
MCTasks == {"main_app", "child"}
MCFiles == {"shared", "own"}
MCUses ==
    [t \in MCTasks |-> IF t = "main_app" THEN {"shared"} ELSE {"shared", "own"}]
MCCalls ==
    [t \in MCTasks |-> IF t = "main_app" THEN {"write", "seek", "clear"}
                                         ELSE {"read", "write", "seek"}]
MCByte == {0, 1}
MCSizes == {1, 2}
MCOffsets == {-1, 2, 9}
=============================================================================
