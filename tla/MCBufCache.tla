----------------------------- MODULE MCBufCache -----------------------------
(* The buffer cache on a small instance, for TLC. *)
EXTENDS BufCache

CONSTANTS p1, p2

\* each process holds one buffer at a time
OneEach == [p \in Procs |-> 1]
=============================================================================
