-------------------------- MODULE MC_StreamLayer --------------------------
(* A blob of three chunks that may fail once, two attempts to upload it,   *)
(* and two goroutines that ask for its digest.                             *)
EXTENDS StreamLayer

CONSTANTS o1, o2
=============================================================================
