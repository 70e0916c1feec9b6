--------------------------- MODULE MCGlobalmemExit ---------------------------
(***************************************************************************)
(* Instances of GlobalmemExit for TLC.                                     *)
(***************************************************************************)
EXTENDS GlobalmemExit

MCNoTask == "NULL"
=============================================================================
