------------------------------ MODULE ForkMem ------------------------------
(***************************************************************************)
(* What fork, exit, sbrk and memory writes promise to programs: every      *)
(* process has a memory of its own, and fork gives the child a copy of the *)
(* parent's.  Sharing, faults and frames do not appear.                    *)
(***************************************************************************)
EXTENDS Sequences, Naturals

CONSTANTS Procs, initproc, Vals, Zero, InitPages, DEAD

VARIABLE vm   \* per process: the contents of its pages, or DEAD

Init == vm = [p \in Procs |-> IF p = initproc THEN [i \in 1 .. InitPages |-> Zero] ELSE DEAD]

Alive(p) == vm[p] # DEAD

Write(p) == Alive(p) /\ \E i \in DOMAIN vm[p], x \in Vals : vm' = [vm EXCEPT ![p][i] = x]

Fork(p, c) == Alive(p) /\ ~Alive(c) /\ vm' = [vm EXCEPT ![c] = vm[p]]

Exit(p) == Alive(p) /\ vm' = [vm EXCEPT ![p] = DEAD]

Grow(p) == Alive(p) /\ vm' = [vm EXCEPT ![p] = Append(@, Zero)]

Shrink(p) == Alive(p) /\ Len(vm[p]) > 1 /\ vm' = [vm EXCEPT ![p] = SubSeq(@, 1, Len(@) - 1)]

Next == \E p \in Procs : \/ Write(p) \/ Exit(p) \/ Grow(p) \/ Shrink(p)
                         \/ \E c \in Procs : Fork(p, c)

Spec == Init /\ [][Next]_vm
=============================================================================
