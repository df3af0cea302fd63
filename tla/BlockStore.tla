----------------------------- MODULE BlockStore -----------------------------
(***************************************************************************)
(* What the buffer cache promises its callers (the comment at the head of  *)
(* bio.c): a process that asks for a block gets it for itself, with the    *)
(* content the last process that had it left in it.                        *)
(***************************************************************************)
CONSTANTS Procs, Blocks, Values, NONE

VARIABLES store,   \* the content of each block
          lent     \* the process that has each block and what it sees, or NONE

TypeInit == store \in [Blocks -> Values] /\ lent = [k \in Blocks |-> NONE]

Get(p, k) ==
    /\ lent[k] = NONE
    /\ lent' = [lent EXCEPT ![k] = <<p, store[k]>>]
    /\ UNCHANGED store

Change(p, k, v) ==
    /\ lent[k] # NONE /\ lent[k][1] = p
    /\ store' = [store EXCEPT ![k] = v]
    /\ lent' = [lent EXCEPT ![k] = <<p, v>>]

Return(p, k) ==
    /\ lent[k] # NONE /\ lent[k][1] = p
    /\ lent' = [lent EXCEPT ![k] = NONE]
    /\ UNCHANGED store

Next == \E p \in Procs, k \in Blocks :
    Get(p, k) \/ Return(p, k) \/ \E v \in Values : Change(p, k, v)

Spec == TypeInit /\ [][Next]_<<store, lent>>
=============================================================================
