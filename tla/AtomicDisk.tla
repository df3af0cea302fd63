----------------------------- MODULE AtomicDisk -----------------------------
(***************************************************************************)
(* What the log promises to the file system: a disk on which the writes of *)
(* a group of system calls appear all together or not at all.              *)
(***************************************************************************)
EXTENDS Naturals

CONSTANTS Blocks, Vals, InitVal

VARIABLES stable,   \* what the disk holds after a crash and a recovery
          current,  \* what running system calls read
          active    \* system calls between begin_op and end_op

vars == <<stable, current, active>>

Init ==
    /\ stable = [b \in Blocks |-> InitVal]
    /\ current = stable
    /\ active = 0

Begin == active' = active + 1 /\ UNCHANGED <<stable, current>>

Write == /\ active > 0
         /\ \E b \in Blocks, x \in Vals : current' = [current EXCEPT ![b] = x]
         /\ UNCHANGED <<stable, active>>

End == active > 0 /\ active' = active - 1 /\ UNCHANGED <<stable, current>>

\* the writes of complete system calls only
Commit == active = 0 /\ stable' = current /\ UNCHANGED <<current, active>>

Crash == current' = stable /\ active' = 0 /\ UNCHANGED stable

Next == Begin \/ Write \/ End \/ Commit \/ Crash

Spec == Init /\ [][Next]_vars
=============================================================================
