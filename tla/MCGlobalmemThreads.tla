------------------------- MODULE MCGlobalmemThreads -------------------------
(***************************************************************************)
(* Instances of GlobalmemThreads for TLC.                                  *)
(***************************************************************************)
EXTENDS GlobalmemThreads

MCNoThread == "free"
=============================================================================
