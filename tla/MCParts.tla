------------------------------ MODULE MCParts -------------------------------
(***************************************************************************)
(* The smaller components on small instances, for TLC.                     *)
(***************************************************************************)
EXTENDS Parts, TLC

CONSTANTS p1, p2, f1, f2, f3, f4, f5

\* alloc: one to five granules, one ragged and one longer than the page
PositiveSizes == {1, 2, 4, 6, 10, 12}

\* sbrk: half a page at a time, both ways
HalfPages == {-3, -1, 1, 2}

\* processes are interchangeable
Symmetric == Permutations(Procs)

\* two files: one grows through the indirect block, the other stays small
TwoFileVals == [i \in {1, 2} |-> {100 + i}]
TwoFileSizes == <<{8}, {3}>>
=============================================================================
