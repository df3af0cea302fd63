-------------------------------- MODULE Proc --------------------------------
(***************************************************************************)
(* The process table of xv6 (xv6-public-master/proc.c): creation (fork and *)
(* spawn), exit, wait, kill, sleep and wakeup, and the per-processor       *)
(* scheduler.                                                              *)
(*                                                                         *)
(* One action is one critical section of ptable.lock.  Running and         *)
(* preempting the code between two of them is the scheduler's and yield's  *)
(* business.  Memory, files and the console appear only as calls that may  *)
(* fail.  Slot 0 is initproc; when it exits, as init.c does when its fork  *)
(* fails, the kernel panics.                                               *)
(***************************************************************************)
EXTENDS Integers, FiniteSets

CONSTANTS NPROC,       \* slots of the table
          CPUs,
          MaxPid,      \* bound: pids handed out
          MaxSpawn,    \* bound: children asked of one spawn
          MaxSleep,    \* bound: ticks asked of one sleep
          KillPids,    \* pids programs pass to kill
          TICKS,       \* the channel &ticks
          NONE

ASSUME ProcAssumption ==
    /\ NPROC \in Nat \ {0} /\ MaxPid \in Nat \ {0} /\ MaxSpawn \in Nat /\ MaxSleep \in Nat
    /\ IsFiniteSet(CPUs)
    /\ NONE \notin Int /\ TICKS \notin Int /\ NONE # TICKS

Procs == 0 .. NPROC - 1
initproc == 0

VARIABLES state, pid, parent, killed,
          chan,      \* what a sleeping process waits for
          nextpid,
          cpu,       \* per processor: the process it runs, or NONE
          last,      \* per processor: the slot its pass over the table has reached, or -1
          pc,        \* per process: "user", or the kernel function it is in
          np, left,  \* per process: the embryo it fills; children still to create
          ticks,     \* per process: clock ticks left to sleep
          panic

table == <<state, pid, parent, killed, chan, nextpid>>
sched_vars == <<cpu, last>>
local == <<pc, np, left, ticks>>
vars == <<table, sched_vars, local, panic>>

Init ==
    /\ state = [p \in Procs |-> IF p = initproc THEN "RUNNABLE" ELSE "UNUSED"]
    /\ pid = [p \in Procs |-> IF p = initproc THEN 1 ELSE 0]
    /\ parent = [p \in Procs |-> NONE]
    /\ killed = [p \in Procs |-> FALSE]
    /\ chan = [p \in Procs |-> NONE]
    /\ nextpid = 2
    /\ cpu = [c \in CPUs |-> NONE]
    /\ last = [c \in CPUs |-> -1]
    /\ pc = [p \in Procs |-> "user"]
    /\ np = [p \in Procs |-> NONE]
    /\ left = [p \in Procs |-> 0]
    /\ ticks = [p \in Procs |-> 0]
    /\ panic = "none"

Running(p, at) == state[p] = "RUNNING" /\ pc[p] = at /\ panic = "none"

\* a system call of a process that has not been killed
Syscall(p) == Running(p, "user") /\ ~killed[p]

Goto(p, at) == pc' = [pc EXCEPT ![p] = at]

\* sched: the processor that runs p goes back to its scheduler
LeaveCPU(p) == cpu' = [c \in CPUs |-> IF cpu[c] = p THEN NONE ELSE cpu[c]]

----------------------------------------------------------------------------
(* The scheduler's pass goes on behind the process it ran last.            *)
\* mutant: every pass starts anew after a process has run
AheadFromStart(c) == Procs

Ahead(c) == {q \in Procs : q > last[c]}

\* mutant: the state is not changed before the switch
scheduler_unmarked(c, p) ==
    /\ panic = "none" /\ cpu[c] = NONE
    /\ state[p] = "RUNNABLE"
    /\ cpu' = [cpu EXCEPT ![c] = p]
    /\ last' = [last EXCEPT ![c] = p]
    /\ UNCHANGED <<table, local, panic>>

scheduler(c, p) ==
    /\ panic = "none" /\ cpu[c] = NONE
    /\ p \in Ahead(c) /\ state[p] = "RUNNABLE"
    /\ \A q \in Ahead(c) : state[q] = "RUNNABLE" => p <= q
    /\ state' = [state EXCEPT ![p] = "RUNNING"]
    /\ cpu' = [cpu EXCEPT ![c] = p]
    /\ last' = [last EXCEPT ![c] = p]
    /\ UNCHANGED <<pid, parent, killed, chan, nextpid, local, panic>>

\* the pass ends, ptable.lock is released and the next pass begins at slot 0
scheduler_pass(c) ==
    /\ panic = "none" /\ cpu[c] = NONE
    /\ \A q \in Ahead(c) : state[q] # "RUNNABLE"
    /\ last' = [last EXCEPT ![c] = -1]
    /\ UNCHANGED <<table, cpu, local, panic>>

\* sys_sleep keeps tickslock from its test until it sleeps
tickslock_free == \A p \in Procs : pc[p] # "sleep_on"

\* interrupts are off while p holds tickslock and while it spins for it
Interruptible(p) == pc[p] # "sleep_on" /\ (pc[p] = "sleep" => tickslock_free)

\* the timer interrupt, in user mode or in the kernel
yield(p) ==
    /\ state[p] = "RUNNING" /\ Interruptible(p) /\ panic = "none"
    /\ state' = [state EXCEPT ![p] = "RUNNABLE"]
    /\ LeaveCPU(p)
    /\ UNCHANGED <<pid, parent, killed, chan, nextpid, last, local, panic>>

----------------------------------------------------------------------------
(* wakeup1 on a set of channels, applied to the states s.                  *)
Wake(s, chans) ==
    [p \in Procs |-> IF s[p] = "SLEEPING" /\ chan[p] \in chans THEN "RUNNABLE" ELSE s[p]]

\* fork is spawn of one child; allocproc takes the first UNUSED slot
FirstUnused(q) == state[q] = "UNUSED" /\ \A r \in Procs : state[r] = "UNUSED" => q <= r

spawn(p, n) ==
    /\ Syscall(p)
    /\ left' = [left EXCEPT ![p] = n]
    /\ Goto(p, "spawn")
    /\ UNCHANGED <<table, sched_vars, np, ticks, panic>>

\* mutant: the slot is not marked EMBRYO
allocproc_unmarked(p) ==
    /\ Running(p, "spawn") /\ left[p] > 0 /\ np[p] = NONE
    /\ \E q \in Procs :
          /\ FirstUnused(q)
          /\ np' = [np EXCEPT ![p] = q]
    /\ UNCHANGED <<table, sched_vars, pc, left, ticks, panic>>

\* one round of spawn's loop begins; without a free slot the round is over
allocproc(p) ==
    /\ Running(p, "spawn") /\ left[p] > 0 /\ np[p] = NONE
    /\ \/ /\ nextpid <= MaxPid
          /\ \E q \in Procs :
                /\ FirstUnused(q)
                /\ state' = [state EXCEPT ![q] = "EMBRYO"]
                /\ pid' = [pid EXCEPT ![q] = nextpid]
                /\ np' = [np EXCEPT ![p] = q]
          /\ nextpid' = nextpid + 1
          /\ UNCHANGED left
       \/ /\ (\A q \in Procs : state[q] # "UNUSED") \/ nextpid > MaxPid
          /\ left' = [left EXCEPT ![p] = @ - 1]
          /\ UNCHANGED <<state, pid, nextpid, np>>
    /\ UNCHANGED <<parent, killed, chan, sched_vars, pc, ticks, panic>>

\* no memory for the kernel stack or the page table: only the state is reset
spawn_fails(p) ==
    /\ Running(p, "spawn") /\ np[p] # NONE
    /\ state' = [state EXCEPT ![np[p]] = "UNUSED"]
    /\ np' = [np EXCEPT ![p] = NONE]
    /\ left' = [left EXCEPT ![p] = @ - 1]
    /\ UNCHANGED <<pid, parent, killed, chan, nextpid, sched_vars, pc, ticks, panic>>

spawn_child(p) ==
    /\ Running(p, "spawn") /\ np[p] # NONE
    /\ parent' = [parent EXCEPT ![np[p]] = p]
    /\ state' = [state EXCEPT ![np[p]] = "RUNNABLE"]
    /\ pc' = [pc EXCEPT ![np[p]] = "user"]
    /\ np' = [np EXCEPT ![p] = NONE]
    /\ left' = [left EXCEPT ![p] = @ - 1]
    /\ UNCHANGED <<pid, killed, chan, nextpid, sched_vars, ticks, panic>>

spawn_returns(p) ==
    /\ Running(p, "spawn") /\ left[p] <= 0
    /\ Goto(p, "user")
    /\ UNCHANGED <<table, sched_vars, np, left, ticks, panic>>

----------------------------------------------------------------------------
(* Mutants of exit: nobody is woken; init is not told of the zombies it    *)
(* adopts.                                                                 *)
exit_waking(p, chans) ==
    /\ Running(p, "user") /\ p # initproc
    /\ state' = [Wake(state, chans) EXCEPT ![p] = "ZOMBIE"]
    /\ parent' = [q \in Procs |-> IF parent[q] = p THEN initproc ELSE parent[q]]
    /\ LeaveCPU(p)
    /\ UNCHANGED <<pid, killed, chan, nextpid, last, local, panic>>
exit_silent(p) == exit_waking(p, {})
exit_init_not_told(p) == exit_waking(p, {parent[p]})

(* exit, called by the process or by trap when it has been killed          *)
exit(p) ==
    /\ Running(p, "user")
    /\ IF p = initproc
       THEN panic' = "init exiting" /\ UNCHANGED <<state, parent, cpu>>
       ELSE LET orphans == {q \in Procs : parent[q] = p}
                adopter == IF \E q \in orphans : state[q] = "ZOMBIE" THEN {initproc} ELSE {}
            IN  /\ state' = [Wake(state, {parent[p]} \cup adopter) EXCEPT ![p] = "ZOMBIE"]
                /\ parent' = [q \in Procs |-> IF q \in orphans THEN initproc ELSE parent[q]]
                /\ LeaveCPU(p)
                /\ UNCHANGED panic
    /\ UNCHANGED <<pid, killed, chan, nextpid, last, local>>

sys_exit(p) == Syscall(p) /\ exit(p)

trap_exit(p) == killed[p] /\ exit(p)

Zombies(p) == {q \in Procs : parent[q] = p /\ state[q] = "ZOMBIE"}

\* wait: reap the first zombie child, give up, or sleep on its own channel
wait(p) ==
    /\ Syscall(p) \/ Running(p, "wait")
    /\ \/ \E q \in Zombies(p) :
             /\ \A r \in Zombies(p) : q <= r
             /\ state' = [state EXCEPT ![q] = "UNUSED"]
             /\ pid' = [pid EXCEPT ![q] = 0]
             /\ parent' = [parent EXCEPT ![q] = NONE]
             /\ killed' = [killed EXCEPT ![q] = FALSE]
             /\ chan' = [chan EXCEPT ![p] = NONE]
             /\ Goto(p, "user")
             /\ UNCHANGED cpu
       \/ /\ Zombies(p) = {}
          /\ (\A q \in Procs : parent[q] # p) \/ killed[p]
          /\ Goto(p, "user")
          /\ chan' = [chan EXCEPT ![p] = NONE]
          /\ UNCHANGED <<state, pid, parent, killed, cpu>>
       \/ /\ Zombies(p) = {}
          /\ (\E q \in Procs : parent[q] = p) /\ ~killed[p]
          /\ state' = [state EXCEPT ![p] = "SLEEPING"]
          /\ chan' = [chan EXCEPT ![p] = p]
          /\ LeaveCPU(p)
          /\ Goto(p, "wait")
          /\ UNCHANGED <<pid, parent, killed>>
    /\ UNCHANGED <<nextpid, last, np, left, ticks, panic>>

----------------------------------------------------------------------------
\* kill finds the first slot with that pid, whatever the slot's state
Victim(q, k) == pid[q] = k /\ \A r \in Procs : pid[r] = k => q <= r

\* mutant: kill leaves a sleeping process asleep
kill_no_wake(p, k) ==
    /\ Syscall(p)
    /\ \E q \in Procs : Victim(q, k) /\ killed' = [killed EXCEPT ![q] = TRUE]
    /\ UNCHANGED <<state, pid, parent, chan, nextpid, sched_vars, local, panic>>

kill(p, k) ==
    /\ Syscall(p)
    /\ \E q \in Procs :
          /\ Victim(q, k)
          /\ killed' = [killed EXCEPT ![q] = TRUE]
          /\ state' = [state EXCEPT ![q] = IF @ = "SLEEPING" THEN "RUNNABLE" ELSE @]
    /\ UNCHANGED <<pid, parent, chan, nextpid, sched_vars, local, panic>>

\* sys_sleep reads ticks and tests killed under tickslock, and sleep takes
\* ptable.lock only afterwards: a kill may come in between
sys_sleep(p, n) ==
    /\ Syscall(p) /\ tickslock_free
    /\ ticks' = [ticks EXCEPT ![p] = n]
    /\ Goto(p, "sleep_on")
    /\ UNCHANGED <<table, sched_vars, np, left, panic>>

\* the loop of sys_sleep, after a wakeup and with tickslock held again
sleep_test(p) ==
    /\ Running(p, "sleep") /\ tickslock_free
    /\ Goto(p, IF ticks[p] = 0 \/ killed[p] THEN "user" ELSE "sleep_on")
    /\ chan' = [chan EXCEPT ![p] = NONE]
    /\ UNCHANGED <<state, pid, parent, killed, nextpid, sched_vars, np, left, ticks, panic>>

sleep(p) ==
    /\ Running(p, "sleep_on")
    /\ state' = [state EXCEPT ![p] = "SLEEPING"]
    /\ chan' = [chan EXCEPT ![p] = TICKS]
    /\ LeaveCPU(p)
    /\ Goto(p, "sleep")
    /\ UNCHANGED <<pid, parent, killed, nextpid, last, np, left, ticks, panic>>

\* the timer interrupt of processor 0, while somebody sleeps
tick ==
    /\ panic = "none" /\ tickslock_free
    /\ \E p \in Procs : ticks[p] > 0 \/ chan[p] = TICKS
    /\ ticks' = [p \in Procs |-> IF ticks[p] > 0 THEN ticks[p] - 1 ELSE 0]
    /\ state' = Wake(state, {TICKS})
    /\ UNCHANGED <<pid, parent, killed, chan, nextpid, sched_vars, pc, np, left, panic>>

----------------------------------------------------------------------------
Kernel(p) ==
    \/ allocproc(p) \/ spawn_fails(p) \/ spawn_child(p) \/ spawn_returns(p)
    \/ trap_exit(p) \/ sleep_test(p) \/ sleep(p)
    \/ pc[p] = "wait" /\ wait(p)

Program(p) ==
    \/ \E n \in 1 .. MaxSpawn : spawn(p, n)
    \/ sys_exit(p)
    \/ wait(p)
    \/ \E k \in KillPids : kill(p, k)
    \/ \E n \in 1 .. MaxSleep : sys_sleep(p, n)

\* panic ends in a loop
panic_loop == panic # "none" /\ UNCHANGED vars

Next ==
    \/ \E c \in CPUs : scheduler_pass(c) \/ \E p \in Procs : scheduler(c, p)
    \/ \E p \in Procs : yield(p) \/ Kernel(p) \/ Program(p)
    \/ tick \/ panic_loop

Spec == Init /\ [][Next]_vars

\* Each processor's scheduler and the clock go on, the timer ends every time
\* slice, a process gets somewhere in its slices, and init keeps waiting.
FairSpec ==
    /\ Spec
    /\ \A c \in CPUs : WF_vars(scheduler_pass(c) \/ \E p \in Procs : scheduler(c, p))
    /\ \A p \in Procs : WF_vars(yield(p)) /\ SF_vars(Kernel(p))
    /\ SF_vars(wait(initproc))
    /\ WF_vars(tick)

----------------------------------------------------------------------------
(* Type correctness.                                                       *)
TypeOK ==
    /\ state \in [Procs -> {"UNUSED", "EMBRYO", "SLEEPING", "RUNNABLE", "RUNNING", "ZOMBIE"}]
    /\ pid \in [Procs -> 0 .. MaxPid]
    /\ parent \in [Procs -> Procs \cup {NONE}]
    /\ killed \in [Procs -> BOOLEAN]
    /\ chan \in [Procs -> Procs \cup {TICKS, NONE}]
    /\ nextpid \in 2 .. MaxPid + 1
    /\ cpu \in [CPUs -> Procs \cup {NONE}]
    /\ last \in [CPUs -> Procs \cup {-1}]
    /\ pc \in [Procs -> {"user", "spawn", "wait", "sleep", "sleep_on"}]
    /\ np \in [Procs -> Procs \cup {NONE}]
    /\ left \in [Procs -> 0 .. MaxSpawn]
    /\ ticks \in [Procs -> 0 .. MaxSleep]
    /\ panic \in {"none", "init exiting"}

(* Every processor runs a different process, and exactly the RUNNING ones: *)
(* no process is on two processors, none is RUNNING and on no processor.   *)
OneProcessorEach ==
    \A p \in Procs :
        Cardinality({c \in CPUs : cpu[c] = p}) = IF state[p] = "RUNNING" THEN 1 ELSE 0

Alive(p) == state[p] \in {"SLEEPING", "RUNNABLE", "RUNNING"}

(* Somebody is left to reap every process: the parent of a process that    *)
(* started is alive, in whatever order families exit.                      *)
ParentAlive ==
    \A p \in Procs \ {initproc} : Alive(p) \/ state[p] = "ZOMBIE" =>
        parent[p] # NONE /\ Alive(parent[p])

(* No wakeup of a parent is lost: a process sleeps in wait only while it   *)
(* has a child and none of its children is a zombie.                       *)
WaiterHasNoZombie ==
    \A p \in Procs : state[p] = "SLEEPING" /\ chan[p] = p =>
        Zombies(p) = {} /\ \E q \in Procs : parent[q] = p

(* An embryo belongs to exactly one creator, also when several processes   *)
(* create children at the same time, and a creator always has its embryo.  *)
EmbryoHasOneCreator ==
    \A q \in Procs : Cardinality({p \in Procs : np[p] = q}) =
        IF state[q] = "EMBRYO" THEN 1 ELSE 0

(* Families: the table has its types, every process that started has a     *)
(* parent that can reap it, and no parent sleeps through a zombie, in      *)
(* whatever order parents and children exit, are killed or wait.           *)
ProcInv == TypeOK /\ ParentAlive /\ WaiterHasNoZombie

Halted == panic # "none"

(* Every runnable process gets a processor, unless the kernel panics.      *)
NoStarvation == \A p \in Procs : state[p] = "RUNNABLE" ~> state[p] # "RUNNABLE" \/ Halted

(* A killed process exits, also when the kill falls between its test of    *)
(* killed and its sleep; init, which may not, takes the kernel with it.    *)
KilledExits == \A p \in Procs : killed[p] /\ Alive(p) ~> ~Alive(p) \/ Halted

(* A zombie handed to init is reaped, as long as init has not exited.      *)
OrphanReaped ==
    \A p \in Procs : state[p] = "ZOMBIE" /\ parent[p] = initproc ~> state[p] = "UNUSED" \/ Halted
=============================================================================
