------------------------------ MODULE Spinlock ------------------------------
(***************************************************************************)
(* Spin locks of xv6 (spinlock.c): mutual exclusion between processors,    *)
(* and interrupts kept off, nested, while a processor has or wants a lock. *)
(*                                                                         *)
(* Each processor runs a kernel thread and, on top of it, at most one      *)
(* interrupt handler, both of which take and release locks.  The kernel    *)
(* takes nested locks in one order (Locks are numbers, taken upwards), and *)
(* a handler takes the last one.                                           *)
(***************************************************************************)
EXTENDS Integers, FiniteSets

CONSTANTS CPUs, NLOCKS, NONE

VARIABLES locked, owner,      \* per lock: lk->locked, lk->cpu
          IF_, ncli, intena,  \* per processor: the interrupt flag and struct cpu
          held,               \* per processor and level: the locks taken
          spc,                \* per processor and level: where it is
          want,               \* per processor and level: the lock acquire or release is about
          oops

svars == <<locked, owner, IF_, ncli, intena, held, spc, want, oops>>

Locks == 1 .. NLOCKS
Levels == {"thread", "handler"}

\* NONE is no processor and no lock
ASSUME SpinAssumption == NLOCKS \in Nat /\ NONE \notin CPUs /\ NONE \notin Locks

PerLevel(x) == [c \in CPUs |-> [l \in Levels |-> x]]

SpinInit ==
    /\ locked = [k \in Locks |-> FALSE] /\ owner = [k \in Locks |-> NONE]
    /\ IF_ = [c \in CPUs |-> TRUE]
    /\ ncli = [c \in CPUs |-> 0] /\ intena = [c \in CPUs |-> FALSE]
    /\ held = PerLevel({}) /\ want = PerLevel(NONE) /\ oops = FALSE
    /\ spc = [c \in CPUs |-> [l \in Levels |-> IF l = "thread" THEN "run" ELSE "none"]]

\* the level that executes on processor c
Level(c) == IF spc[c]["handler"] # "none" THEN "handler" ELSE "thread"
At(c, at) == ~oops /\ spc[c][Level(c)] = at
Goto(c, at) == spc' = [spc EXCEPT ![c][Level(c)] = at]
Want(c) == want[c][Level(c)]
holding(c, k) == locked[k] /\ owner[k] = c

----------------------------------------------------------------------------
\* mutant: the state before is saved at every level
pushcli_always(c) ==
    /\ intena' = [intena EXCEPT ![c] = IF_[c]]
    /\ IF_' = [IF_ EXCEPT ![c] = FALSE]
    /\ ncli' = [ncli EXCEPT ![c] = @ + 1]

pushcli(c) ==
    /\ intena' = [intena EXCEPT ![c] = IF ncli[c] = 0 THEN IF_[c] ELSE @]
    /\ IF_' = [IF_ EXCEPT ![c] = FALSE]
    /\ ncli' = [ncli EXCEPT ![c] = @ + 1]

\* the first part of acquire, up to the loop
acquire(c, k) ==
    /\ At(c, "run") /\ \A j \in held[c][Level(c)] : j < k
    /\ Level(c) = "handler" => k = NLOCKS
    /\ pushcli(c)
    /\ want' = [want EXCEPT ![c][Level(c)] = k]
    /\ Goto(c, "spin")
    /\ oops' = holding(c, k)
    /\ UNCHANGED <<locked, owner, held>>

\* mutant: the lock is tested and set in two steps
xchg_racy(c) ==
    /\ At(c, "spin")
    /\ locked' = [locked EXCEPT ![Want(c)] = TRUE]
    /\ Goto(c, "own")
    /\ UNCHANGED <<owner, IF_, ncli, intena, held, want, oops>>

\* the xchg that finds 0
xchg(c) ==
    /\ At(c, "spin") /\ ~locked[Want(c)]
    /\ locked' = [locked EXCEPT ![Want(c)] = TRUE]
    /\ Goto(c, "own")
    /\ UNCHANGED <<owner, IF_, ncli, intena, held, want, oops>>

acquire_own(c) ==
    /\ At(c, "own")
    /\ owner' = [owner EXCEPT ![Want(c)] = c]
    /\ held' = [held EXCEPT ![c][Level(c)] = @ \cup {Want(c)}]
    /\ want' = [want EXCEPT ![c][Level(c)] = NONE]
    /\ Goto(c, "run")
    /\ UNCHANGED <<locked, IF_, ncli, intena, oops>>

\* release: the owner goes first, then the lock, then popcli
release(c, k) ==
    /\ At(c, "run") /\ k \in held[c][Level(c)]
    /\ oops' = ~holding(c, k)
    /\ owner' = [owner EXCEPT ![k] = NONE]
    /\ held' = [held EXCEPT ![c][Level(c)] = @ \ {k}]
    /\ want' = [want EXCEPT ![c][Level(c)] = k]
    /\ Goto(c, "unlock")
    /\ UNCHANGED <<locked, IF_, ncli, intena>>

release_unlock(c) ==
    /\ At(c, "unlock")
    /\ locked' = [locked EXCEPT ![Want(c)] = FALSE]
    /\ want' = [want EXCEPT ![c][Level(c)] = NONE]
    /\ Goto(c, "popcli")
    /\ UNCHANGED <<owner, IF_, ncli, intena, held, oops>>

\* interrupts come back with the outermost lock, if they were on before
popcli(c) ==
    /\ At(c, "popcli")
    /\ oops' = (IF_[c] \/ ncli[c] = 0)
    /\ ncli' = [ncli EXCEPT ![c] = @ - 1]
    /\ IF_' = [IF_ EXCEPT ![c] = @ \/ (ncli[c] = 1 /\ intena[c])]
    /\ Goto(c, "run")
    /\ UNCHANGED <<locked, owner, intena, held, want>>

\* through an interrupt gate, and back with iret
interrupt(c) ==
    /\ ~oops /\ IF_[c] /\ Level(c) = "thread"
    /\ IF_' = [IF_ EXCEPT ![c] = FALSE]
    /\ spc' = [spc EXCEPT ![c]["handler"] = "run"]
    /\ UNCHANGED <<locked, owner, ncli, intena, held, want, oops>>

iret(c) ==
    /\ At(c, "run") /\ Level(c) = "handler" /\ held[c]["handler"] = {}
    /\ IF_' = [IF_ EXCEPT ![c] = TRUE]
    /\ spc' = [spc EXCEPT ![c]["handler"] = "none"]
    /\ UNCHANGED <<locked, owner, ncli, intena, held, want, oops>>

SpinNext == \E c \in CPUs :
    \/ \E k \in Locks : acquire(c, k) \/ release(c, k)
    \/ xchg(c) \/ acquire_own(c) \/ release_unlock(c) \/ popcli(c)
    \/ interrupt(c) \/ iret(c)

SpinSpec == SpinInit /\ [][SpinNext]_svars

----------------------------------------------------------------------------
\* A lock is in one critical section at most, and the panics that guard
\* against taking it twice or releasing another's never happen (acquire,
\* release, holding).
SpinlockExclusive ==
    /\ ~oops
    /\ \A k \in Locks : Cardinality({x \in CPUs \X Levels : k \in held[x[1]][x[2]]}) <= 1

\* No processor spins for a lock that the code its handler has interrupted
\* holds: it would spin for ever.  A kernel thread without locks is
\* interruptible again, also after nested locks and handlers; a handler never
\* is (pushcli before the loop in acquire, popcli).
SpinlockInterruptsNested == \A c \in CPUs :
    /\ Level(c) = "handler" /\ spc[c]["handler"] = "spin" =>
          want[c]["handler"] \notin held[c]["thread"] /\ spc[c]["thread"] = "run"
    /\ Level(c) = "thread" /\ spc[c]["thread"] = "run" /\ held[c]["thread"] = {} => IF_[c]
    /\ Level(c) = "handler" => ~IF_[c]
=============================================================================
