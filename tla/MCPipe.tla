------------------------------- MODULE MCPipe -------------------------------
(* A pipe on a small instance, for TLC. *)
EXTENDS Pipe

CONSTANTS p1, p2, a, b

TwoProcs == {p1, p2}
MCMessages == {<<a>>, <<b, a, b>>}
=============================================================================
