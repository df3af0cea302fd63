------------------------------- MODULE MCProc -------------------------------
(* The process table on small instances, for TLC. *)
EXTENDS Proc

CONSTANTS c1, c2

OneCPU == {c1}
TwoCPUs == {c1, c2}
=============================================================================
