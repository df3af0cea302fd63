----------------------------- MODULE ProcProofs -----------------------------
(***************************************************************************)
(* The process table keeps its promises for every number of slots and      *)
(* processors: no process runs on two processors, no two creators share an *)
(* embryo, every process that started has a live parent, and no parent     *)
(* sleeps in wait while it has a zombie child.                             *)
(*                                                                         *)
(* ProcIInv is inductive.  WaiterHasNoZombie needs more than it says: exit *)
(* wakes the parent only because no process is its own parent, and a       *)
(* failing spawn may leave its embryo's parent alone only because a slot   *)
(* that never started has none.                                            *)
(***************************************************************************)
EXTENDS Proc, TLAPS, FiniteSetTheorems

(* OneProcessorEach without counting.                                      *)
OnProcessor ==
    /\ \A c \in CPUs : cpu[c] # NONE => state[cpu[c]] = "RUNNING"
    /\ \A p \in Procs : state[p] = "RUNNING" => \E c \in CPUs : cpu[c] = p
    /\ \A c, d \in CPUs : cpu[c] = cpu[d] /\ cpu[c] # NONE => c = d

(* EmbryoHasOneCreator without counting: a creator is alive and in spawn,  *)
(* with a child still to create.                                           *)
Creators ==
    /\ \A p \in Procs : np[p] # NONE =>
          pc[p] = "spawn" /\ Alive(p) /\ left[p] > 0 /\ state[np[p]] = "EMBRYO"
    /\ \A q \in Procs : state[q] = "EMBRYO" => \E p \in Procs : np[p] = q
    /\ \A p, r \in Procs : np[p] = np[r] /\ np[p] # NONE => p = r

(* Families: initproc lives and has no parent, nobody is its own parent,   *)
(* and a slot that never started has none.                                 *)
Families ==
    /\ Alive(initproc) /\ parent[initproc] = NONE
    /\ \A p \in Procs : parent[p] # p
    /\ \A p \in Procs : state[p] \in {"UNUSED", "EMBRYO"} => parent[p] = NONE
    /\ ParentAlive
    /\ WaiterHasNoZombie

(* The inductive invariant.                                                *)
ProcIInv == TypeOK /\ OnProcessor /\ Creators /\ Families

----------------------------------------------------------------------------
(* A fresh table.                                                          *)
LEMMA ProcInit == Init => ProcIInv
<1> SUFFICES ASSUME Init PROVE ProcIInv
  OBVIOUS
<1>0. initproc \in Procs /\ NPROC - 1 \in Procs /\ NONE \notin Procs
  BY ProcAssumption DEF Procs, initproc
<1>1. TypeOK
  <2>1. killed \in [Procs -> BOOLEAN]
    BY Zenon DEF Init
  <2> QED
    BY <1>0, <2>1, ProcAssumption DEF Init, TypeOK
<1>2. OnProcessor
  BY <1>0 DEF Init, OnProcessor
<1>3. Creators
  BY DEF Init, Creators
<1>4. Families
  BY <1>0 DEF Init, Families, ParentAlive, WaiterHasNoZombie, Alive
<1> QED
  BY <1>1, <1>2, <1>3, <1>4 DEF ProcIInv

(* What the steps use of the types.                                        *)
LEMMA Ranges ==
  ASSUME TypeOK
  PROVE  /\ NONE \notin Procs /\ initproc \in Procs /\ TICKS \notin Procs /\ TICKS # NONE
         /\ \A c \in CPUs : cpu[c] \in Procs \cup {NONE}
         /\ \A p \in Procs : np[p] \in Procs \cup {NONE}
         /\ \A p \in Procs : parent[p] \in Procs \cup {NONE}
         /\ \A p \in Procs : left[p] \in 0 .. MaxSpawn
<1>1. NONE \notin Procs /\ initproc \in Procs /\ TICKS \notin Procs /\ TICKS # NONE
  BY ProcAssumption DEF Procs, initproc
<1> QED
  BY <1>1 DEF TypeOK

(* A processor takes a runnable process.                                   *)
LEMMA SchedulerStep ==
  ASSUME ProcIInv, NEW c \in CPUs, NEW p \in Procs, scheduler(c, p)
  PROVE  ProcIInv'
<1>0. TypeOK /\ OnProcessor /\ Creators /\ Families
  BY DEF ProcIInv
<1>1. /\ cpu[c] = NONE /\ state[p] = "RUNNABLE"
      /\ state' = [state EXCEPT ![p] = "RUNNING"]
      /\ cpu' = [cpu EXCEPT ![c] = p]
      /\ last' = [last EXCEPT ![c] = p]
      /\ UNCHANGED <<pid, parent, killed, chan, nextpid, pc, np, left, ticks, panic>>
  BY DEF scheduler, local
<1>2. /\ cpu[c] = NONE /\ state[p] = "RUNNABLE"
      /\ state'[p] = "RUNNING" /\ \A q \in Procs : q # p => state'[q] = state[q]
      /\ cpu'[c] = p /\ \A d \in CPUs : d # c => cpu'[d] = cpu[d]
      /\ UNCHANGED <<parent, chan, pc, np, left>>
  BY <1>0, <1>1 DEF TypeOK
<1>3. TypeOK'
  BY <1>0, <1>1 DEF TypeOK
<1>4. OnProcessor'
  BY <1>0, <1>2, Ranges DEF OnProcessor
<1>5. Creators'
  BY <1>0, <1>2, Ranges DEF Creators, Alive
<1>6. Families'
  BY <1>0, <1>2, Ranges DEF Families, ParentAlive, WaiterHasNoZombie, Zombies, Alive
<1> QED
  BY <1>3, <1>4, <1>5, <1>6 DEF ProcIInv

(* The timer takes the processor away.                                     *)
LEMMA YieldStep ==
  ASSUME ProcIInv, NEW p \in Procs, yield(p)
  PROVE  ProcIInv'
<1>0. TypeOK /\ OnProcessor /\ Creators /\ Families
  BY DEF ProcIInv
<1>1. /\ state[p] = "RUNNING"
      /\ state' = [state EXCEPT ![p] = "RUNNABLE"]
      /\ cpu' = [c \in CPUs |-> IF cpu[c] = p THEN NONE ELSE cpu[c]]
      /\ UNCHANGED <<pid, parent, killed, chan, nextpid, last, pc, np, left, ticks, panic>>
  BY DEF yield, LeaveCPU, local
<1>2. /\ state[p] = "RUNNING"
      /\ state'[p] = "RUNNABLE" /\ \A q \in Procs : q # p => state'[q] = state[q]
      /\ \A c \in CPUs : cpu'[c] = IF cpu[c] = p THEN NONE ELSE cpu[c]
      /\ UNCHANGED <<parent, chan, pc, np, left>>
  BY <1>0, <1>1 DEF TypeOK
<1>3. TypeOK'
  BY <1>0, <1>1 DEF TypeOK
<1>4. OnProcessor'
  BY <1>0, <1>2, Ranges DEF OnProcessor
<1>5. Creators'
  BY <1>0, <1>2, Ranges DEF Creators, Alive
<1>6. Families'
  BY <1>0, <1>2, Ranges DEF Families, ParentAlive, WaiterHasNoZombie, Zombies, Alive
<1> QED
  BY <1>3, <1>4, <1>5, <1>6 DEF ProcIInv

(* A program asks for children.                                            *)
LEMMA SpawnStep ==
  ASSUME ProcIInv, NEW p \in Procs, NEW k \in 1 .. MaxSpawn, spawn(p, k)
  PROVE  ProcIInv'
<1>0. TypeOK /\ OnProcessor /\ Creators /\ Families
  BY DEF ProcIInv
<1>1. /\ state[p] = "RUNNING" /\ pc[p] = "user"
      /\ left' = [left EXCEPT ![p] = k]
      /\ pc' = [pc EXCEPT ![p] = "spawn"]
      /\ UNCHANGED <<state, pid, parent, killed, chan, nextpid, cpu, last, np, ticks, panic>>
  BY DEF spawn, Syscall, Running, Goto, table, sched_vars
<1>2. /\ pc[p] = "user"
      /\ pc'[p] = "spawn" /\ \A q \in Procs : q # p => pc'[q] = pc[q]
      /\ left'[p] = k /\ \A q \in Procs : q # p => left'[q] = left[q]
      /\ UNCHANGED <<state, parent, chan, cpu, np>>
  BY <1>0, <1>1 DEF TypeOK
<1>3. TypeOK'
  <2>1. k \in 0 .. MaxSpawn
    BY ProcAssumption
  <2> QED
    BY <1>0, <1>1, <2>1 DEF TypeOK
<1>4. OnProcessor'
  BY <1>0, <1>2, Ranges DEF OnProcessor
<1>5. Creators'
  BY <1>0, <1>2, Ranges DEF Creators, Alive
<1>6. Families'
  BY <1>0, <1>2, Ranges DEF Families, ParentAlive, WaiterHasNoZombie, Zombies, Alive
<1> QED
  BY <1>3, <1>4, <1>5, <1>6 DEF ProcIInv

(* A slot becomes an embryo.                                               *)
LEMMA EmbryoStep ==
  ASSUME ProcIInv, NEW p \in Procs, NEW q \in Procs,
         state[p] = "RUNNING", pc[p] = "spawn", left[p] > 0, np[p] = NONE,
         nextpid <= MaxPid, state[q] = "UNUSED",
         state' = [state EXCEPT ![q] = "EMBRYO"], pid' = [pid EXCEPT ![q] = nextpid],
         np' = [np EXCEPT ![p] = q], nextpid' = nextpid + 1,
         UNCHANGED <<left, parent, killed, chan, cpu, last, pc, ticks, panic>>
  PROVE  ProcIInv'
<1>0. TypeOK /\ OnProcessor /\ Creators /\ Families
  BY DEF ProcIInv
<1>2. /\ state'[q] = "EMBRYO" /\ \A r \in Procs : r # q => state'[r] = state[r]
      /\ np'[p] = q /\ \A r \in Procs : r # p => np'[r] = np[r]
      /\ UNCHANGED <<parent, chan, cpu, pc, left>>
  BY <1>0 DEF TypeOK
<1>3. TypeOK'
  <2>1. nextpid \in 0 .. MaxPid /\ nextpid + 1 \in 2 .. MaxPid + 1
    <3>1. nextpid \in 2 .. MaxPid + 1
      BY <1>0 DEF TypeOK
    <3> QED
      BY <3>1, ProcAssumption
  <2> QED
    BY <1>0, <2>1 DEF TypeOK
<1>4. OnProcessor'
  BY <1>0, <1>2, Ranges DEF OnProcessor
<1>5. Creators'
  BY <1>0, <1>2, Ranges DEF Creators, Alive
<1>6. Families'
  BY <1>0, <1>2, Ranges DEF Families, ParentAlive, WaiterHasNoZombie, Zombies, Alive
<1> QED
  BY <1>3, <1>4, <1>5, <1>6 DEF ProcIInv

(* A round of spawn without a free slot.                                   *)
LEMMA NoSlotStep ==
  ASSUME ProcIInv, NEW p \in Procs, np[p] = NONE, left[p] > 0,
         left' = [left EXCEPT ![p] = left[p] - 1],
         UNCHANGED <<state, pid, parent, killed, chan, nextpid, cpu, last, pc, np, ticks, panic>>
  PROVE  ProcIInv'
<1>0. TypeOK /\ OnProcessor /\ Creators /\ Families
  BY DEF ProcIInv
<1>2. /\ left'[p] = left[p] - 1 /\ \A q \in Procs : q # p => left'[q] = left[q]
      /\ UNCHANGED <<state, parent, chan, cpu, pc, np>>
  BY <1>0 DEF TypeOK
<1>3. TypeOK'
  <2>1. left[p] - 1 \in 0 .. MaxSpawn
    <3>1. left[p] \in 0 .. MaxSpawn /\ left[p] > 0
      BY <1>0, Ranges
    <3> QED
      BY <3>1, ProcAssumption
  <2> QED
    BY <1>0, <2>1 DEF TypeOK
<1>4. OnProcessor'
  BY <1>0, <1>2, Ranges DEF OnProcessor
<1>5. Creators'
  BY <1>0, <1>2, Ranges DEF Creators, Alive
<1>6. Families'
  BY <1>0, <1>2, Ranges DEF Families, ParentAlive, WaiterHasNoZombie, Zombies, Alive
<1> QED
  BY <1>3, <1>4, <1>5, <1>6 DEF ProcIInv

(* The embryo is given up.                                                 *)
LEMMA SpawnFailsStep ==
  ASSUME ProcIInv, NEW p \in Procs, spawn_fails(p)
  PROVE  ProcIInv'
<1>0. TypeOK /\ OnProcessor /\ Creators /\ Families
  BY DEF ProcIInv
<1>1. /\ state[p] = "RUNNING" /\ pc[p] = "spawn" /\ np[p] # NONE
      /\ state' = [state EXCEPT ![np[p]] = "UNUSED"]
      /\ np' = [np EXCEPT ![p] = NONE]
      /\ left' = [left EXCEPT ![p] = left[p] - 1]
      /\ UNCHANGED <<pid, parent, killed, chan, nextpid, cpu, last, pc, ticks, panic>>
  BY DEF spawn_fails, Running, sched_vars
<1>2a. np[p] \in Procs /\ state[np[p]] = "EMBRYO" /\ left[p] > 0 /\ np[p] # p
  BY <1>0, <1>1, Ranges DEF Creators
<1>2. /\ np[p] \in Procs /\ state[np[p]] = "EMBRYO" /\ np[p] # p /\ state[p] = "RUNNING"
      /\ state'[np[p]] = "UNUSED" /\ \A q \in Procs : q # np[p] => state'[q] = state[q]
      /\ np'[p] = NONE /\ \A q \in Procs : q # p => np'[q] = np[q]
      /\ left'[p] = left[p] - 1 /\ \A q \in Procs : q # p => left'[q] = left[q]
      /\ UNCHANGED <<parent, chan, cpu, pc>>
  BY <1>0, <1>1, <1>2a DEF TypeOK
<1>3. TypeOK'
  <2>1. left[p] - 1 \in 0 .. MaxSpawn
    <3>1. left[p] \in 0 .. MaxSpawn /\ left[p] > 0
      BY <1>0, <1>1, <1>2a, Ranges
    <3> QED
      BY <3>1, ProcAssumption
  <2> QED
    BY <1>0, <1>1, <1>2a, <2>1 DEF TypeOK
<1>4. OnProcessor'
  BY <1>0, <1>2, Ranges DEF OnProcessor
<1>5. Creators'
  BY <1>0, <1>2, Ranges DEF Creators, Alive
<1>6. Families'
  BY <1>0, <1>2, Ranges DEF Families, ParentAlive, WaiterHasNoZombie, Zombies, Alive
<1> QED
  BY <1>3, <1>4, <1>5, <1>6 DEF ProcIInv

(* The embryo starts, as a child of its creator.                           *)
LEMMA SpawnChildStep ==
  ASSUME ProcIInv, NEW p \in Procs, spawn_child(p)
  PROVE  ProcIInv'
<1>0. TypeOK /\ OnProcessor /\ Creators /\ Families
  BY DEF ProcIInv
<1>1. /\ state[p] = "RUNNING" /\ pc[p] = "spawn" /\ np[p] # NONE
      /\ parent' = [parent EXCEPT ![np[p]] = p]
      /\ state' = [state EXCEPT ![np[p]] = "RUNNABLE"]
      /\ pc' = [pc EXCEPT ![np[p]] = "user"]
      /\ np' = [np EXCEPT ![p] = NONE]
      /\ left' = [left EXCEPT ![p] = left[p] - 1]
      /\ UNCHANGED <<pid, killed, chan, nextpid, cpu, last, ticks, panic>>
  BY DEF spawn_child, Running, sched_vars
<1>2a. np[p] \in Procs /\ state[np[p]] = "EMBRYO" /\ left[p] > 0 /\ np[p] # p
  BY <1>0, <1>1, Ranges DEF Creators
<1>2. /\ np[p] \in Procs /\ state[np[p]] = "EMBRYO" /\ np[p] # p /\ state[p] = "RUNNING"
      /\ state'[np[p]] = "RUNNABLE" /\ \A q \in Procs : q # np[p] => state'[q] = state[q]
      /\ parent'[np[p]] = p /\ \A q \in Procs : q # np[p] => parent'[q] = parent[q]
      /\ pc'[np[p]] = "user" /\ \A q \in Procs : q # np[p] => pc'[q] = pc[q]
      /\ np'[p] = NONE /\ \A q \in Procs : q # p => np'[q] = np[q]
      /\ left'[p] = left[p] - 1 /\ \A q \in Procs : q # p => left'[q] = left[q]
      /\ UNCHANGED <<chan, cpu>>
  BY <1>0, <1>1, <1>2a DEF TypeOK
<1>3. TypeOK'
  <2>1. left[p] - 1 \in 0 .. MaxSpawn
    <3>1. left[p] \in 0 .. MaxSpawn /\ left[p] > 0
      BY <1>0, <1>1, <1>2a, Ranges
    <3> QED
      BY <3>1, ProcAssumption
  <2> QED
    BY <1>0, <1>1, <1>2a, <2>1 DEF TypeOK
<1>4. OnProcessor'
  BY <1>0, <1>2, Ranges DEF OnProcessor
<1>5. Creators'
  BY <1>0, <1>2, Ranges DEF Creators, Alive
<1>6. Families'
  BY <1>0, <1>2, Ranges DEF Families, ParentAlive, WaiterHasNoZombie, Zombies, Alive
<1> QED
  BY <1>3, <1>4, <1>5, <1>6 DEF ProcIInv

(* spawn returns.                                                          *)
LEMMA SpawnReturnsStep ==
  ASSUME ProcIInv, NEW p \in Procs, spawn_returns(p)
  PROVE  ProcIInv'
<1>0. TypeOK /\ OnProcessor /\ Creators /\ Families
  BY DEF ProcIInv
<1>1. /\ left[p] <= 0
      /\ pc' = [pc EXCEPT ![p] = "user"]
      /\ UNCHANGED <<state, pid, parent, killed, chan, nextpid, cpu, last, np, left, ticks, panic>>
  BY DEF spawn_returns, Goto, table, sched_vars
<1>2. /\ left[p] <= 0
      /\ pc'[p] = "user" /\ \A q \in Procs : q # p => pc'[q] = pc[q]
      /\ UNCHANGED <<state, parent, chan, cpu, np, left>>
  BY <1>0, <1>1 DEF TypeOK
<1>3. TypeOK'
  BY <1>0, <1>1 DEF TypeOK
<1>4. OnProcessor'
  BY <1>0, <1>2, Ranges DEF OnProcessor
<1>5. Creators'
  BY <1>0, <1>2, Ranges DEF Creators, Alive
<1>6. Families'
  BY <1>0, <1>2, Ranges DEF Families, ParentAlive, WaiterHasNoZombie, Zombies, Alive
<1> QED
  BY <1>3, <1>4, <1>5, <1>6 DEF ProcIInv

(* A process other than initproc exits: it wakes its parent, and initproc  *)
(* when it hands it a zombie.                                              *)
LEMMA ExitStep ==
  ASSUME ProcIInv, NEW p \in Procs, p # initproc, exit(p)
  PROVE  ProcIInv'
<1>0. TypeOK /\ OnProcessor /\ Creators /\ Families
  BY DEF ProcIInv
<1> DEFINE orphans == {q \in Procs : parent[q] = p}
           adopter == IF \E q \in orphans : state[q] = "ZOMBIE" THEN {initproc} ELSE {}
           chans == {parent[p]} \cup adopter
<1>1. /\ state[p] = "RUNNING" /\ pc[p] = "user"
      /\ state' = [[q \in Procs |-> IF state[q] = "SLEEPING" /\ chan[q] \in chans
                                    THEN "RUNNABLE" ELSE state[q]] EXCEPT ![p] = "ZOMBIE"]
      /\ parent' = [q \in Procs |-> IF q \in orphans THEN initproc ELSE parent[q]]
      /\ cpu' = [c \in CPUs |-> IF cpu[c] = p THEN NONE ELSE cpu[c]]
      /\ UNCHANGED <<pid, killed, chan, nextpid, last, pc, np, left, ticks, panic>>
  BY DEF exit, Running, LeaveCPU, Wake, local
<1>2. /\ state[p] = "RUNNING" /\ pc[p] = "user" /\ state'[p] = "ZOMBIE"
      /\ \A q \in Procs : q # p => state'[q] =
            IF state[q] = "SLEEPING" /\ (chan[q] = parent[p] \/ chan[q] \in adopter)
            THEN "RUNNABLE" ELSE state[q]
      /\ \A q \in Procs : parent'[q] = IF parent[q] = p THEN initproc ELSE parent[q]
      /\ \A c \in CPUs : cpu'[c] = IF cpu[c] = p THEN NONE ELSE cpu[c]
      /\ UNCHANGED <<chan, pc, np, left>>
  BY <1>0, <1>1 DEF TypeOK
<1>3. TypeOK'
  <2>1. state' \in [Procs -> {"UNUSED", "EMBRYO", "SLEEPING", "RUNNABLE", "RUNNING", "ZOMBIE"}]
    BY <1>0, <1>1 DEF TypeOK
  <2>2. parent' \in [Procs -> Procs \cup {NONE}] /\ cpu' \in [CPUs -> Procs \cup {NONE}]
    BY <1>0, <1>1, Ranges DEF TypeOK
  <2> QED
    BY <1>0, <1>1, <2>1, <2>2 DEF TypeOK
<1>4. OnProcessor'
  BY <1>0, <1>2, Ranges DEF OnProcessor
<1>5. Creators'
  BY <1>0, <1>2, Ranges DEF Creators, Alive
<1>6. Families'
  <2>0. /\ Alive(initproc) /\ parent[initproc] = NONE /\ NONE \notin Procs /\ initproc \in Procs
        /\ \A q \in Procs : parent[q] # q
        /\ \A q \in Procs : state[q] \in {"UNUSED", "EMBRYO"} => parent[q] = NONE
        /\ ParentAlive /\ WaiterHasNoZombie
    BY <1>0, Ranges DEF Families
  <2>1. \A q \in Procs : q # p => (Alive(q)' <=> Alive(q))
    BY <1>2 DEF Alive
  <2>2. \A q \in Procs : q # p => (state'[q] = "ZOMBIE" <=> state[q] = "ZOMBIE")
    BY <1>2
  <2>3. Alive(initproc)' /\ parent'[initproc] = NONE
    BY <1>2, <2>0, <2>1
  <2>4. \A q \in Procs : parent'[q] # q
    BY <1>2, <2>0
  <2>5. \A q \in Procs : state'[q] \in {"UNUSED", "EMBRYO"} => parent'[q] = NONE
    BY <1>2, <2>0
  <2>6. ParentAlive'
    <3> SUFFICES ASSUME NEW q \in Procs \ {initproc}, Alive(q)' \/ state'[q] = "ZOMBIE"
                 PROVE  parent'[q] # NONE /\ Alive(parent[q])'
      BY DEF ParentAlive, Alive
    <3>1. Alive(q) \/ state[q] = "ZOMBIE"
      BY <1>2, <2>1, <2>2 DEF Alive
    <3>2. parent[q] # NONE /\ Alive(parent[q])
      BY <2>0, <3>1 DEF ParentAlive
    <3>3. parent[q] \in Procs
      BY <1>0, <3>2, Ranges
    <3>4. CASE parent[q] = p
      BY <1>2, <2>0, <2>3, <3>4 DEF Alive
    <3>5. CASE parent[q] # p
      BY <1>2, <2>1, <3>2, <3>3, <3>5 DEF Alive
    <3> QED
      BY <3>4, <3>5
  <2>7. WaiterHasNoZombie'
    <3> SUFFICES ASSUME NEW w \in Procs, state'[w] = "SLEEPING", chan'[w] = w
                 PROVE  /\ \A q \in Procs : ~(parent'[q] = w /\ state'[q] = "ZOMBIE")
                        /\ \E q \in Procs : parent'[q] = w
      BY DEF WaiterHasNoZombie, Zombies
    <3>1. /\ w # p /\ state[w] = "SLEEPING" /\ chan[w] = w
          /\ w # parent[p] /\ w \notin adopter
      BY <1>2
    <3>2. /\ \A q \in Procs : ~(parent[q] = w /\ state[q] = "ZOMBIE")
          /\ \E q \in Procs : parent[q] = w
      BY <2>0, <3>1 DEF WaiterHasNoZombie, Zombies
    <3>3. ASSUME NEW q \in Procs, parent'[q] = w, state'[q] = "ZOMBIE" PROVE FALSE
      <4>1. CASE q = p
        BY <1>2, <2>0, <3>1, <3>3, <4>1
      <4>2. CASE q # p /\ parent[q] = p
        BY <1>2, <2>2, <3>1, <3>3, <4>2
      <4>3. CASE q # p /\ parent[q] # p
        BY <1>2, <2>2, <3>2, <3>3, <4>3
      <4> QED
        BY <4>1, <4>2, <4>3
    <3> QED
      BY <1>2, <3>1, <3>2, <3>3
  <2> QED
    BY <2>3, <2>4, <2>5, <2>6, <2>7 DEF Families
<1> QED
  BY <1>3, <1>4, <1>5, <1>6 DEF ProcIInv

(* A parent reaps a zombie.                                                *)
LEMMA ReapStep ==
  ASSUME ProcIInv, NEW p \in Procs, NEW q \in Procs, state[p] = "RUNNING", pc[p] \in {"user", "wait"},
         parent[q] = p, state[q] = "ZOMBIE",
         state' = [state EXCEPT ![q] = "UNUSED"], pid' = [pid EXCEPT ![q] = 0],
         parent' = [parent EXCEPT ![q] = NONE], killed' = [killed EXCEPT ![q] = FALSE],
         chan' = [chan EXCEPT ![p] = NONE], pc' = [pc EXCEPT ![p] = "user"],
         UNCHANGED <<nextpid, cpu, last, np, left, ticks, panic>>
  PROVE  ProcIInv'
<1>0. TypeOK /\ OnProcessor /\ Creators /\ Families
  BY DEF ProcIInv
<1>2. /\ state'[q] = "UNUSED" /\ \A r \in Procs : r # q => state'[r] = state[r]
      /\ parent'[q] = NONE /\ \A r \in Procs : r # q => parent'[r] = parent[r]
      /\ chan'[p] = NONE /\ \A r \in Procs : r # p => chan'[r] = chan[r]
      /\ pc'[p] = "user" /\ \A r \in Procs : r # p => pc'[r] = pc[r]
      /\ UNCHANGED <<cpu, np, left>>
  BY <1>0 DEF TypeOK
<1>3. TypeOK'
  <2>1. 0 \in 0 .. MaxPid
    BY ProcAssumption
  <2>2. killed' \in [Procs -> BOOLEAN]
    BY <1>0, Zenon DEF TypeOK
  <2> QED
    BY <1>0, <2>1, <2>2 DEF TypeOK
<1>4. OnProcessor'
  BY <1>0, <1>2, Ranges DEF OnProcessor
<1>5. Creators'
  BY <1>0, <1>2, Ranges DEF Creators, Alive
<1>6. Families'
  BY <1>0, <1>2, Ranges DEF Families, ParentAlive, WaiterHasNoZombie, Zombies, Alive
<1> QED
  BY <1>3, <1>4, <1>5, <1>6 DEF ProcIInv

(* wait returns without a child, or because its caller is killed.          *)
LEMMA WaitReturnsStep ==
  ASSUME ProcIInv, NEW p \in Procs, state[p] = "RUNNING", pc[p] \in {"user", "wait"},
         chan' = [chan EXCEPT ![p] = NONE], pc' = [pc EXCEPT ![p] = "user"],
         UNCHANGED <<state, pid, parent, killed, nextpid, cpu, last, np, left, ticks, panic>>
  PROVE  ProcIInv'
<1>0. TypeOK /\ OnProcessor /\ Creators /\ Families
  BY DEF ProcIInv
<1>2. /\ chan'[p] = NONE /\ \A r \in Procs : r # p => chan'[r] = chan[r]
      /\ pc'[p] = "user" /\ \A r \in Procs : r # p => pc'[r] = pc[r]
      /\ UNCHANGED <<state, parent, cpu, np, left>>
  BY <1>0 DEF TypeOK
<1>3. TypeOK'
  BY <1>0 DEF TypeOK
<1>4. OnProcessor'
  BY <1>0, <1>2, Ranges DEF OnProcessor
<1>5. Creators'
  BY <1>0, <1>2, Ranges DEF Creators, Alive
<1>6. Families'
  BY <1>0, <1>2, Ranges DEF Families, ParentAlive, WaiterHasNoZombie, Zombies, Alive
<1> QED
  BY <1>3, <1>4, <1>5, <1>6 DEF ProcIInv

(* wait sleeps: there is a child, and none of them is a zombie.            *)
LEMMA WaitSleepsStep ==
  ASSUME ProcIInv, NEW p \in Procs, state[p] = "RUNNING", pc[p] \in {"user", "wait"},
         Zombies(p) = {}, \E q \in Procs : parent[q] = p,
         state' = [state EXCEPT ![p] = "SLEEPING"], chan' = [chan EXCEPT ![p] = p],
         LeaveCPU(p), pc' = [pc EXCEPT ![p] = "wait"],
         UNCHANGED <<pid, parent, killed, nextpid, last, np, left, ticks, panic>>
  PROVE  ProcIInv'
<1>0. TypeOK /\ OnProcessor /\ Creators /\ Families
  BY DEF ProcIInv
<1>2. /\ state'[p] = "SLEEPING" /\ \A r \in Procs : r # p => state'[r] = state[r]
      /\ chan'[p] = p /\ \A r \in Procs : r # p => chan'[r] = chan[r]
      /\ pc'[p] = "wait" /\ \A r \in Procs : r # p => pc'[r] = pc[r]
      /\ \A c \in CPUs : cpu'[c] = IF cpu[c] = p THEN NONE ELSE cpu[c]
      /\ UNCHANGED <<parent, np, left>>
  BY <1>0 DEF TypeOK, LeaveCPU
<1>3. TypeOK'
  BY <1>0 DEF TypeOK, LeaveCPU
<1>4. OnProcessor'
  BY <1>0, <1>2, Ranges DEF OnProcessor
<1>5. Creators'
  BY <1>0, <1>2, Ranges DEF Creators, Alive
<1>6. Families'
  BY <1>0, <1>2, Ranges DEF Families, ParentAlive, WaiterHasNoZombie, Zombies, Alive
<1> QED
  BY <1>3, <1>4, <1>5, <1>6 DEF ProcIInv

(* A kill wakes its victim.                                                *)
LEMMA KillStep ==
  ASSUME ProcIInv, NEW q \in Procs,
         killed' = [killed EXCEPT ![q] = TRUE],
         state' = [state EXCEPT ![q] = IF @ = "SLEEPING" THEN "RUNNABLE" ELSE @],
         UNCHANGED <<pid, parent, chan, nextpid, cpu, last, pc, np, left, ticks, panic>>
  PROVE  ProcIInv'
<1>0. TypeOK /\ OnProcessor /\ Creators /\ Families
  BY DEF ProcIInv
<1>1. state \in [Procs -> {"UNUSED", "EMBRYO", "SLEEPING", "RUNNABLE", "RUNNING", "ZOMBIE"}]
  BY <1>0 DEF TypeOK
<1>2. /\ state'[q] = (IF state[q] = "SLEEPING" THEN "RUNNABLE" ELSE state[q]) /\ \A r \in Procs : r # q => state'[r] = state[r]
      /\ UNCHANGED <<parent, chan, cpu, pc, np, left>>
  BY <1>1
<1>3. TypeOK'
  <2>1. killed' \in [Procs -> BOOLEAN]
    BY <1>0, Zenon DEF TypeOK
  <2> QED
    BY <1>0, <2>1 DEF TypeOK
<1>4. OnProcessor'
  BY <1>0, <1>2, Ranges DEF OnProcessor
<1>5. Creators'
  BY <1>0, <1>2, Ranges DEF Creators, Alive
<1>6. Families'
  BY <1>0, <1>2, Ranges DEF Families, ParentAlive, WaiterHasNoZombie, Zombies, Alive
<1> QED
  BY <1>3, <1>4, <1>5, <1>6 DEF ProcIInv

(* sys_sleep, up to its sleep.                                             *)
LEMMA SysSleepStep ==
  ASSUME ProcIInv, NEW p \in Procs, NEW k \in 1 .. MaxSleep, sys_sleep(p, k)
  PROVE  ProcIInv'
<1>0. TypeOK /\ OnProcessor /\ Creators /\ Families
  BY DEF ProcIInv
<1>1. /\ pc[p] = "user"
      /\ ticks' = [ticks EXCEPT ![p] = k]
      /\ pc' = [pc EXCEPT ![p] = "sleep_on"]
      /\ UNCHANGED <<state, pid, parent, killed, chan, nextpid, cpu, last, np, left, panic>>
  BY DEF sys_sleep, Syscall, Running, Goto, table, sched_vars
<1>2. /\ pc[p] = "user"
      /\ pc'[p] = "sleep_on" /\ \A q \in Procs : q # p => pc'[q] = pc[q]
      /\ UNCHANGED <<state, parent, chan, cpu, np, left>>
  BY <1>0, <1>1 DEF TypeOK
<1>3. TypeOK'
  <2>1. k \in 0 .. MaxSleep
    BY ProcAssumption
  <2> QED
    BY <1>0, <1>1, <2>1 DEF TypeOK
<1>4. OnProcessor'
  BY <1>0, <1>2, Ranges DEF OnProcessor
<1>5. Creators'
  BY <1>0, <1>2, Ranges DEF Creators, Alive
<1>6. Families'
  BY <1>0, <1>2, Ranges DEF Families, ParentAlive, WaiterHasNoZombie, Zombies, Alive
<1> QED
  BY <1>3, <1>4, <1>5, <1>6 DEF ProcIInv

(* The loop of sys_sleep after a wakeup.                                   *)
LEMMA SleepTestStep ==
  ASSUME ProcIInv, NEW p \in Procs, sleep_test(p)
  PROVE  ProcIInv'
<1>0. TypeOK /\ OnProcessor /\ Creators /\ Families
  BY DEF ProcIInv
<1>1. /\ state[p] = "RUNNING" /\ pc[p] = "sleep"
      /\ pc' = [pc EXCEPT ![p] = "user"] \/ pc' = [pc EXCEPT ![p] = "sleep_on"]
      /\ chan' = [chan EXCEPT ![p] = NONE]
      /\ UNCHANGED <<state, pid, parent, killed, nextpid, cpu, last, np, left, ticks, panic>>
  BY DEF sleep_test, Running, Goto, sched_vars
<1>2. /\ state[p] = "RUNNING" /\ pc[p] = "sleep" /\ \A q \in Procs : q # p => pc'[q] = pc[q]
      /\ chan'[p] = NONE /\ \A q \in Procs : q # p => chan'[q] = chan[q]
      /\ UNCHANGED <<state, parent, cpu, np, left>>
  BY <1>0, <1>1 DEF TypeOK
<1>3. TypeOK'
  BY <1>0, <1>1 DEF TypeOK
<1>4. OnProcessor'
  BY <1>0, <1>2, Ranges DEF OnProcessor
<1>5. Creators'
  BY <1>0, <1>2, Ranges DEF Creators, Alive
<1>6. Families'
  BY <1>0, <1>2, Ranges DEF Families, ParentAlive, WaiterHasNoZombie, Zombies, Alive
<1> QED
  BY <1>3, <1>4, <1>5, <1>6 DEF ProcIInv

(* The sleep of sys_sleep.                                                 *)
LEMMA SleepStep ==
  ASSUME ProcIInv, NEW p \in Procs, sleep(p)
  PROVE  ProcIInv'
<1>0. TypeOK /\ OnProcessor /\ Creators /\ Families
  BY DEF ProcIInv
<1>1. /\ state[p] = "RUNNING" /\ pc[p] = "sleep_on"
      /\ state' = [state EXCEPT ![p] = "SLEEPING"]
      /\ chan' = [chan EXCEPT ![p] = TICKS]
      /\ cpu' = [c \in CPUs |-> IF cpu[c] = p THEN NONE ELSE cpu[c]]
      /\ pc' = [pc EXCEPT ![p] = "sleep"]
      /\ UNCHANGED <<pid, parent, killed, nextpid, last, np, left, ticks, panic>>
  BY DEF sleep, Running, Goto, LeaveCPU
<1>2. /\ state[p] = "RUNNING" /\ pc[p] = "sleep_on"
      /\ state'[p] = "SLEEPING" /\ \A q \in Procs : q # p => state'[q] = state[q]
      /\ chan'[p] = TICKS /\ \A q \in Procs : q # p => chan'[q] = chan[q]
      /\ pc'[p] = "sleep" /\ \A q \in Procs : q # p => pc'[q] = pc[q]
      /\ \A c \in CPUs : cpu'[c] = IF cpu[c] = p THEN NONE ELSE cpu[c]
      /\ UNCHANGED <<parent, np, left>>
  BY <1>0, <1>1 DEF TypeOK
<1>3. TypeOK'
  BY <1>0, <1>1 DEF TypeOK
<1>4. OnProcessor'
  BY <1>0, <1>2, Ranges DEF OnProcessor
<1>5. Creators'
  BY <1>0, <1>2, Ranges DEF Creators, Alive
<1>6. Families'
  BY <1>0, <1>2, Ranges DEF Families, ParentAlive, WaiterHasNoZombie, Zombies, Alive
<1> QED
  BY <1>3, <1>4, <1>5, <1>6 DEF ProcIInv

(* The clock wakes who waits for it.                                       *)
LEMMA TickStep ==
  ASSUME ProcIInv, tick
  PROVE  ProcIInv'
<1>0. TypeOK /\ OnProcessor /\ Creators /\ Families
  BY DEF ProcIInv
<1>1. /\ ticks' = [p \in Procs |-> IF ticks[p] > 0 THEN ticks[p] - 1 ELSE 0]
      /\ state' = [p \in Procs |-> IF state[p] = "SLEEPING" /\ chan[p] \in {TICKS} THEN "RUNNABLE" ELSE state[p]]
      /\ UNCHANGED <<pid, parent, killed, chan, nextpid, cpu, last, pc, np, left, panic>>
  BY DEF tick, Wake, sched_vars
<1>2. /\ \A p \in Procs : state'[p] = IF state[p] = "SLEEPING" /\ chan[p] = TICKS THEN "RUNNABLE" ELSE state[p]
      /\ UNCHANGED <<parent, chan, cpu, pc, np, left>>
  BY <1>0, <1>1 DEF TypeOK
<1>3. TypeOK'
  <2>1. ticks' \in [Procs -> 0 .. MaxSleep]
    <3>1. \A p \in Procs : ticks[p] \in 0 .. MaxSleep
      BY <1>0 DEF TypeOK
    <3>2. \A p \in Procs : (IF ticks[p] > 0 THEN ticks[p] - 1 ELSE 0) \in 0 .. MaxSleep
      BY <3>1, ProcAssumption
    <3> QED
      BY <1>1, <3>2
  <2>2. state' \in [Procs -> {"UNUSED", "EMBRYO", "SLEEPING", "RUNNABLE", "RUNNING", "ZOMBIE"}]
    BY <1>0, <1>1 DEF TypeOK
  <2> QED
    BY <1>0, <1>1, <2>1, <2>2 DEF TypeOK
<1>4. OnProcessor'
  BY <1>0, <1>2, Ranges DEF OnProcessor
<1>5. Creators'
  BY <1>0, <1>2, Ranges DEF Creators, Alive
<1>6. Families'
  BY <1>0, <1>2, Ranges DEF Families, ParentAlive, WaiterHasNoZombie, Zombies, Alive
<1> QED
  BY <1>3, <1>4, <1>5, <1>6 DEF ProcIInv

(* exit of any process: initproc's panics and changes nothing else.        *)
LEMMA AnyExitStep ==
  ASSUME ProcIInv, NEW p \in Procs, exit(p)
  PROVE  ProcIInv'
<1>1. CASE p # initproc
  BY <1>1, ExitStep
<1>2. CASE p = initproc
  <2>1. /\ panic' = "init exiting"
        /\ UNCHANGED <<state, pid, parent, killed, chan, nextpid, cpu, last, pc, np, left, ticks>>
    BY <1>2 DEF exit, local
  <2>2. TypeOK'
    BY <2>1 DEF ProcIInv, TypeOK
  <2>3. OnProcessor'
    BY <2>1 DEF ProcIInv, OnProcessor
  <2>4. Creators'
    BY <2>1 DEF ProcIInv, Creators, Alive
  <2>5. Families'
    <3>1. Families
      BY DEF ProcIInv
    <3>2. \A q \in Procs : Zombies(q)' = Zombies(q)
      BY <2>1 DEF Zombies
    <3>3. ParentAlive'
      BY <2>1, <3>1 DEF Families, ParentAlive, Alive
    <3>4. WaiterHasNoZombie'
      BY <2>1, <3>1, <3>2 DEF Families, WaiterHasNoZombie
    <3> QED
      BY <2>1, <3>1, <3>3, <3>4 DEF Families, Alive
  <2> QED
    BY <2>2, <2>3, <2>4, <2>5 DEF ProcIInv
<1> QED
  BY <1>1, <1>2

(* wait, whatever it finds.                                                *)
LEMMA WaitStep ==
  ASSUME ProcIInv, NEW p \in Procs, wait(p)
  PROVE  ProcIInv'
<1>1. /\ state[p] = "RUNNING" /\ pc[p] \in {"user", "wait"}
      /\ UNCHANGED <<nextpid, last, np, left, ticks, panic>>
  BY DEF wait, Syscall, Running
<1>2. ASSUME NEW q \in Zombies(p),
             state' = [state EXCEPT ![q] = "UNUSED"], pid' = [pid EXCEPT ![q] = 0],
             parent' = [parent EXCEPT ![q] = NONE], killed' = [killed EXCEPT ![q] = FALSE],
             chan' = [chan EXCEPT ![p] = NONE], pc' = [pc EXCEPT ![p] = "user"], UNCHANGED cpu
      PROVE  ProcIInv'
  <2>1. q \in Procs /\ parent[q] = p /\ state[q] = "ZOMBIE"
    BY DEF Zombies
  <2> QED
    BY <1>1, <1>2, <2>1, ReapStep
<1>3. CASE /\ pc' = [pc EXCEPT ![p] = "user"] /\ chan' = [chan EXCEPT ![p] = NONE]
           /\ UNCHANGED <<state, pid, parent, killed, cpu>>
  BY <1>1, <1>3, WaitReturnsStep
<1>4. CASE /\ Zombies(p) = {} /\ \E q \in Procs : parent[q] = p
           /\ state' = [state EXCEPT ![p] = "SLEEPING"] /\ chan' = [chan EXCEPT ![p] = p]
           /\ LeaveCPU(p) /\ pc' = [pc EXCEPT ![p] = "wait"]
           /\ UNCHANGED <<pid, parent, killed>>
  BY <1>1, <1>4, WaitSleepsStep
<1> QED
  BY <1>2, <1>3, <1>4 DEF wait, Goto

(* One round of spawn's loop begins.                                       *)
LEMMA AllocprocStep ==
  ASSUME ProcIInv, NEW p \in Procs, allocproc(p)
  PROVE  ProcIInv'
<1>1. /\ state[p] = "RUNNING" /\ pc[p] = "spawn" /\ left[p] > 0 /\ np[p] = NONE
      /\ UNCHANGED <<parent, killed, chan, cpu, last, pc, ticks, panic>>
  BY DEF allocproc, Running, sched_vars
<1>2. CASE /\ left' = [left EXCEPT ![p] = @ - 1]
           /\ UNCHANGED <<state, pid, nextpid, np>>
  BY <1>1, <1>2, NoSlotStep
<1>3. ASSUME NEW q \in Procs, nextpid <= MaxPid, state[q] = "UNUSED",
             state' = [state EXCEPT ![q] = "EMBRYO"], pid' = [pid EXCEPT ![q] = nextpid],
             np' = [np EXCEPT ![p] = q], nextpid' = nextpid + 1, UNCHANGED left
      PROVE  ProcIInv'
  BY <1>1, <1>3, EmbryoStep
<1> QED
  BY <1>2, <1>3 DEF allocproc, FirstUnused

(* The scheduler's position in its pass matters to nothing else.           *)
LEMMA PassStep ==
  ASSUME ProcIInv, last' \in [CPUs -> Procs \cup {-1}],
         UNCHANGED <<state, pid, parent, killed, chan, nextpid, cpu, pc, np, left, ticks, panic>>
  PROVE  ProcIInv'
<1>1. TypeOK'
  BY DEF ProcIInv, TypeOK
<1>2. OnProcessor'
  BY DEF ProcIInv, OnProcessor
<1>3. Creators'
  BY DEF ProcIInv, Creators, Alive
<1>4. Families'
  <2>1. Families
    BY DEF ProcIInv
  <2>2. \A q \in Procs : Zombies(q)' = Zombies(q)
    BY DEF Zombies
  <2>3. ParentAlive'
    BY <2>1 DEF Families, ParentAlive, Alive
  <2>4. WaiterHasNoZombie'
    BY <2>1, <2>2 DEF Families, WaiterHasNoZombie
  <2> QED
    BY <2>1, <2>3, <2>4 DEF Families, Alive
<1> QED
  BY <1>1, <1>2, <1>3, <1>4 DEF ProcIInv

(* Every step keeps the invariant.                                         *)
LEMMA ProcStep == ProcIInv /\ [Next]_vars => ProcIInv'
<1> SUFFICES ASSUME ProcIInv, [Next]_vars PROVE ProcIInv'
  OBVIOUS
<1>1. ASSUME NEW c \in CPUs, NEW p \in Procs, scheduler(c, p) PROVE ProcIInv'
  BY <1>1, SchedulerStep
<1>2. ASSUME NEW p \in Procs, yield(p) PROVE ProcIInv'
  BY <1>2, YieldStep
<1>3. ASSUME NEW p \in Procs, Kernel(p) PROVE ProcIInv'
  BY <1>3, AllocprocStep, SpawnFailsStep, SpawnChildStep, SpawnReturnsStep, AnyExitStep,
     SleepTestStep, SleepStep, WaitStep DEF Kernel, trap_exit
<1>4. ASSUME NEW p \in Procs, Program(p) PROVE ProcIInv'
  <2>1. ASSUME NEW k \in KillPids, kill(p, k) PROVE ProcIInv'
    <3>1. PICK q \in Procs :
             /\ killed' = [killed EXCEPT ![q] = TRUE]
             /\ state' = [state EXCEPT ![q] = IF @ = "SLEEPING" THEN "RUNNABLE" ELSE @]
      BY <2>1 DEF kill
    <3>2. UNCHANGED <<pid, parent, chan, nextpid, cpu, last, pc, np, left, ticks, panic>>
      BY <2>1 DEF kill, sched_vars, local
    <3> QED
      BY <3>1, <3>2, KillStep
  <2> QED
    BY <1>4, <2>1, SpawnStep, AnyExitStep, WaitStep, SysSleepStep DEF Program, sys_exit
<1>5. CASE tick
  BY <1>5, TickStep
<1>6. CASE UNCHANGED vars
  <2>1. UNCHANGED <<state, pid, parent, killed, chan, nextpid, cpu, last, pc, np, left, ticks, panic>>
    BY <1>6 DEF vars, table, sched_vars, local
  <2>2. last' \in [CPUs -> Procs \cup {-1}]
    BY <2>1 DEF ProcIInv, TypeOK
  <2> QED
    BY <2>1, <2>2, PassStep
<1>7. ASSUME NEW c \in CPUs, scheduler_pass(c) PROVE ProcIInv'
  <2>1. UNCHANGED <<state, pid, parent, killed, chan, nextpid, cpu, pc, np, left, ticks, panic>>
    BY <1>7 DEF scheduler_pass, table, local
  <2>2. last' = [last EXCEPT ![c] = -1] /\ last \in [CPUs -> Procs \cup {-1}]
    BY <1>7 DEF scheduler_pass, ProcIInv, TypeOK
  <2>3. last' \in [CPUs -> Procs \cup {-1}]
    BY <2>2
  <2> QED
    BY <2>1, <2>3, PassStep
<1>8. CASE panic_loop
  BY <1>6, <1>8 DEF panic_loop
<1> QED
  BY <1>1, <1>2, <1>3, <1>4, <1>5, <1>6, <1>7, <1>8 DEF Next

(* What holds in every reachable state of the process table.               *)
LEMMA ProcInductive == Spec => []ProcIInv
  BY ProcInit, ProcStep, PTL DEF Spec

(* Every process that started has a live parent and no parent sleeps       *)
(* through a zombie, in whatever order exit, wait, kill and spawn come.    *)
THEOREM FamiliesSound == Spec => []ProcInv
<1>1. ProcIInv => ProcInv
  BY DEF ProcIInv, ProcInv, Families
<1> QED
  BY <1>1, ProcInductive, PTL

(* No process runs on two processors at once, and the scheduler, yield,    *)
(* sleep and exit leave no process marked RUNNING without a processor.     *)
THEOREM NoProcessRunsTwice == Spec => []OneProcessorEach
<1>1. ProcIInv => OneProcessorEach
  <2> SUFFICES ASSUME ProcIInv, NEW p \in Procs
               PROVE  Cardinality({c \in CPUs : cpu[c] = p}) = IF state[p] = "RUNNING" THEN 1 ELSE 0
    BY DEF OneProcessorEach
  <2>1. OnProcessor /\ p # NONE
    BY Ranges DEF ProcIInv
  <2>2. CASE state[p] = "RUNNING"
    <3>1. PICK c \in CPUs : cpu[c] = p
      BY <2>1, <2>2 DEF OnProcessor
    <3>2. {d \in CPUs : cpu[d] = p} = {c}
      BY <2>1, <3>1 DEF OnProcessor
    <3> QED
      BY <2>2, <3>2, FS_Singleton
  <2>3. CASE state[p] # "RUNNING"
    <3>1. {c \in CPUs : cpu[c] = p} = {}
      BY <2>1, <2>3 DEF OnProcessor
    <3> QED
      BY <2>3, <3>1, FS_EmptySet
  <2> QED
    BY <2>2, <2>3
<1> QED
  BY <1>1, ProcInductive, PTL

(* No two concurrent spawns fill the same slot, and no embryo is forgotten *)
(* when a spawn fails.                                                     *)
THEOREM NoSharedEmbryo == Spec => []EmbryoHasOneCreator
<1>1. ProcIInv => EmbryoHasOneCreator
  <2> SUFFICES ASSUME ProcIInv, NEW q \in Procs
               PROVE  Cardinality({p \in Procs : np[p] = q}) = IF state[q] = "EMBRYO" THEN 1 ELSE 0
    BY DEF EmbryoHasOneCreator
  <2>1. Creators /\ q # NONE
    BY Ranges DEF ProcIInv
  <2>2. CASE state[q] = "EMBRYO"
    <3>1. PICK p \in Procs : np[p] = q
      BY <2>1, <2>2 DEF Creators
    <3>2. {r \in Procs : np[r] = q} = {p}
      BY <2>1, <3>1 DEF Creators
    <3> QED
      BY <2>2, <3>2, FS_Singleton
  <2>3. CASE state[q] # "EMBRYO"
    <3>1. {p \in Procs : np[p] = q} = {}
      BY <2>1, <2>3 DEF Creators
    <3> QED
      BY <2>3, <3>1, FS_EmptySet
  <2> QED
    BY <2>2, <2>3
<1> QED
  BY <1>1, ProcInductive, PTL
=============================================================================
