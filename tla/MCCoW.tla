------------------------------- MODULE MCCoW -------------------------------
(* Copy-on-write fork on small instances, for TLC. *)
EXTENDS CoW, TLC

CONSTANTS p1, p2, p3, f1, f2, f3, f4

MCProcs == {p1, p2, p3}
MCFrames == {f1, f2, f3, f4}
Symmetric == Permutations({p2, p3}) \cup Permutations(MCFrames)

\* what programs touch: both pages of a process; also an address without a
\* page table
NoPages == {}
BothPages == {0, 1}
AllAddresses == BothPages \cup {Far}
=============================================================================
