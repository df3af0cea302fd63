------------------------------ MODULE EagerMem ------------------------------
(***************************************************************************)
(* What a program may expect of sbrk, mmap and fork: memory of its own, as *)
(* long as the process is large, zero where nothing was written.  A        *)
(* process that has used the calls carelessly may expect nothing of its    *)
(* memory; the others, and its children, still may.                        *)
(***************************************************************************)
EXTENDS Integers

CONSTANTS Procs, Vals, Zero, NONE, MaxPages

VARIABLES image,     \* per process: NONE, or the content of its pages
          careless   \* the processes that are promised nothing

Init ==
    /\ careless = {}
    /\ \E p \in Procs, n \in 0 .. MaxPages :
          image = [q \in Procs |-> IF q = p THEN [i \in 0 .. n - 1 |-> Zero] ELSE NONE]

Resize(p, n) ==
    /\ image[p] # NONE
    /\ image' = [image EXCEPT ![p] = [i \in 0 .. n - 1 |-> IF i \in DOMAIN image[p] THEN image[p][i] ELSE Zero]]
    /\ UNCHANGED careless

Write(p, i, v) ==
    /\ image[p] # NONE /\ i \in DOMAIN image[p]
    /\ image' = [image EXCEPT ![p][i] = v]
    /\ UNCHANGED careless

Fork(p, c) ==
    /\ image[p] # NONE /\ image[c] = NONE
    /\ image' = [image EXCEPT ![c] = image[p]]
    /\ UNCHANGED careless

Exit(p) ==
    /\ image[p] # NONE /\ image' = [image EXCEPT ![p] = NONE]
    /\ careless' = careless \ {p}

\* a careless process, or one that becomes careless now
Disturb(p) ==
    /\ image[p] # NONE /\ image'[p] # NONE
    /\ image' = [image EXCEPT ![p] = image'[p]]
    /\ careless' = careless \cup {p}

Next == \E p \in Procs :
    \/ Exit(p) \/ Disturb(p)
    \/ \E n \in 0 .. MaxPages : Resize(p, n)
    \/ \E i \in 0 .. MaxPages - 1, v \in Vals : Write(p, i, v)
    \/ \E c \in Procs : Fork(p, c)

Spec == Init /\ [][Next]_<<image, careless>>
=============================================================================
