-------------------------------- MODULE Log --------------------------------
(***************************************************************************)
(* The redo log of xv6 (xv6-public-master/log.c).                          *)
(*                                                                         *)
(* System calls bracket their block writes with begin_op and end_op; the   *)
(* last one out commits the whole group.  The disk holds the home blocks,  *)
(* the log blocks and the log header; a write of one block is atomic, and  *)
(* the machine may crash between any two writes and run initlog again.     *)
(* The buffer cache appears as what bread returns: a block that log_write  *)
(* marked B_DIRTY stays in the cache until install_trans writes it home    *)
(* (bio.c).  Each action is one critical section of log.lock or one disk   *)
(* write; sleep releases log.lock and waits in one step (proc.c).          *)
(***************************************************************************)
EXTENDS Integers, Sequences, FiniteSets, SequencesExt

CONSTANTS Procs,        \* processes that make file-system calls
          Blocks,       \* home blocks of the disk
          Vals,         \* block contents
          InitVal,
          MAXOPBLOCKS,  \* blocks begin_op reserves for one call
          OpBlocks,     \* blocks one call really writes
          LOGSIZE,      \* entries of the log header
          NLOG          \* log.size: blocks of the log on disk, header included

ASSUME LogAssumption ==
    /\ MAXOPBLOCKS \in Nat \ {0} /\ LOGSIZE \in Nat /\ NLOG \in Nat \ {0}
    /\ OpBlocks \in 0 .. MAXOPBLOCKS
    /\ InitVal \in Vals
    /\ IsFiniteSet(Procs) /\ IsFiniteSet(Blocks)

\* The sizes of param.h: LOGSIZE is MAXOPBLOCKS * 3, and the log that mkfs lays
\* out is LOGSIZE blocks, one of them the header.  log_write tests for a full
\* log before it looks for the block in the log, so a call must leave one of
\* its reserved blocks unused.
ASSUME SizeAssumption ==
    /\ OpBlocks < MAXOPBLOCKS /\ MAXOPBLOCKS <= LOGSIZE
    /\ OpBlocks < NLOG - 1
    /\ LOGSIZE - 2 * (MAXOPBLOCKS - OpBlocks) < NLOG - 1

VARIABLES disk,        \* home blocks
          dlog,        \* log blocks
          dhead,       \* log header on disk: the block numbers, n of them
          cache,       \* block contents as bread returns them
          lh,          \* log.lh
          outstanding, committing,
          pc,          \* per process
          wrote,       \* per process: the blocks its call has written
          tail,        \* loop variable of write_log and install_trans
          boot,        \* "up", or where initlog is
          panic

ondisk == <<disk, dlog, dhead>>
log == <<lh, outstanding, committing>>
vars == <<ondisk, cache, log, pc, wrote, tail, boot, panic>>

Up == boot = "up" /\ panic = "none"
At(p, l) == Up /\ pc[p] = l
Goto(p, l) == pc' = [pc EXCEPT ![p] = l]

Init ==
    /\ disk = [b \in Blocks |-> InitVal]
    /\ dlog = [i \in 1 .. NLOG - 1 |-> InitVal]
    /\ dhead = <<>>
    /\ cache = disk
    /\ lh = <<>> /\ outstanding = 0 /\ committing = FALSE
    /\ pc = [p \in Procs |-> "idle"]
    /\ wrote = [p \in Procs |-> {}]
    /\ tail = 0
    /\ boot = "up"
    /\ panic = "none"

----------------------------------------------------------------------------
NoSpace == Len(lh) + (outstanding + 1) * MAXOPBLOCKS > LOGSIZE

\* mutant: begin_op does not wait for a commit
begin_op_in_commit(p) ==
    /\ At(p, "idle") \/ At(p, "woken")
    /\ \/ NoSpace /\ Goto(p, "asleep") /\ UNCHANGED outstanding
       \/ ~NoSpace /\ Goto(p, "op") /\ outstanding' = outstanding + 1
    /\ UNCHANGED <<ondisk, cache, lh, committing, wrote, tail, boot, panic>>

begin_op(p) ==
    /\ At(p, "idle") \/ At(p, "woken")
    /\ \/ /\ committing \/ NoSpace
          /\ Goto(p, "asleep")
          /\ UNCHANGED outstanding
       \/ /\ ~committing /\ ~NoSpace
          /\ outstanding' = outstanding + 1
          /\ Goto(p, "op")
    /\ UNCHANGED <<ondisk, cache, lh, committing, wrote, tail, boot, panic>>

\* the caller changes the buffer it holds and calls log_write
log_write(p, b, x) ==
    /\ At(p, "op")
    /\ Cardinality(wrote[p] \cup {b}) <= OpBlocks
    /\ panic' = CASE Len(lh) >= LOGSIZE \/ Len(lh) >= NLOG - 1 -> "too big a transaction"
                  [] outstanding < 1 -> "log_write outside of trans"
                  [] OTHER -> panic
    /\ lh' = IF Contains(lh, b) THEN lh ELSE Append(lh, b)
    /\ cache' = [cache EXCEPT ![b] = x]
    /\ wrote' = [wrote EXCEPT ![p] = @ \cup {b}]
    /\ UNCHANGED <<ondisk, outstanding, committing, pc, tail, boot>>

\* mutant: nobody is woken
GotoSilently(p, l) == Goto(p, l)

\* wakeup(&log), after which the caller p goes to l
WakeupAndGoto(p, l) ==
    pc' = [q \in Procs |-> IF q = p THEN l ELSE IF pc[q] = "asleep" THEN "woken" ELSE pc[q]]

end_op(p) ==
    /\ At(p, "op")
    /\ outstanding' = outstanding - 1
    /\ wrote' = [wrote EXCEPT ![p] = {}]
    /\ panic' = IF committing THEN "log.committing" ELSE panic
    /\ \/ /\ outstanding' = 0
          /\ committing' = TRUE
          /\ Goto(p, "commit")
       \/ /\ outstanding' # 0
          /\ WakeupAndGoto(p, "idle")
          /\ UNCHANGED committing
    /\ UNCHANGED <<ondisk, cache, lh, tail, boot>>

----------------------------------------------------------------------------
(* commit: one action per block written to the disk.                       *)
commit(p) ==
    /\ At(p, "commit")
    /\ Goto(p, IF lh = <<>> THEN "committed" ELSE "write_log")
    /\ tail' = 0
    /\ UNCHANGED <<ondisk, cache, log, wrote, boot, panic>>

\* mutant: the last block is not written to the log
write_log_short(p) ==
    /\ At(p, "write_log")
    /\ IF tail < Len(lh) - 1
       THEN /\ dlog' = [dlog EXCEPT ![tail + 1] = cache[lh[tail + 1]]]
            /\ tail' = tail + 1
            /\ UNCHANGED pc
       ELSE Goto(p, "write_head") /\ UNCHANGED <<dlog, tail>>
    /\ UNCHANGED <<disk, dhead, cache, log, wrote, boot, panic>>

write_log(p) ==
    /\ At(p, "write_log")
    /\ IF tail < Len(lh)
       THEN /\ dlog' = [dlog EXCEPT ![tail + 1] = cache[lh[tail + 1]]]
            /\ tail' = tail + 1
            /\ UNCHANGED pc
       ELSE Goto(p, "write_head") /\ UNCHANGED <<dlog, tail>>
    /\ UNCHANGED <<disk, dhead, cache, log, wrote, boot, panic>>

write_head(p) ==
    /\ At(p, "write_head")
    /\ dhead' = lh
    /\ tail' = 0
    /\ Goto(p, "install")
    /\ UNCHANGED <<disk, dlog, cache, log, wrote, boot, panic>>

\* the next block of the in-memory header goes home, through the cache
InstallNext ==
    /\ disk' = [disk EXCEPT ![lh[tail + 1]] = dlog[tail + 1]]
    /\ cache' = [cache EXCEPT ![lh[tail + 1]] = dlog[tail + 1]]
    /\ tail' = tail + 1
    /\ UNCHANGED <<dlog, dhead, log>>

EraseLog ==
    /\ lh' = <<>>
    /\ dhead' = <<>>
    /\ tail' = 0
    /\ UNCHANGED <<disk, dlog, cache, outstanding, committing>>

install_trans(p) ==
    /\ At(p, "install")
    /\ \/ tail < Len(lh) /\ InstallNext /\ UNCHANGED pc
       \/ tail >= Len(lh) /\ EraseLog /\ Goto(p, "committed")
    /\ UNCHANGED <<wrote, boot, panic>>

end_commit(p) ==
    /\ At(p, "committed")
    /\ committing' = FALSE
    /\ WakeupAndGoto(p, "idle")
    /\ UNCHANGED <<ondisk, cache, lh, outstanding, wrote, tail, boot, panic>>

----------------------------------------------------------------------------
(* A crash loses memory; initlog then recovers, and may crash again.       *)
crash ==
    /\ panic = "none"
    /\ cache' = disk
    /\ lh' = <<>> /\ outstanding' = 0 /\ committing' = FALSE
    /\ pc' = [p \in Procs |-> "idle"]
    /\ wrote' = [p \in Procs |-> {}]
    /\ tail' = 0
    /\ boot' = "read_head"
    /\ UNCHANGED <<ondisk, panic>>

read_head ==
    /\ boot = "read_head"
    /\ lh' = dhead
    /\ boot' = "install"
    /\ UNCHANGED <<ondisk, cache, outstanding, committing, pc, wrote, tail, panic>>

recover_from_log ==
    /\ boot = "install"
    /\ \/ tail < Len(lh) /\ InstallNext /\ UNCHANGED boot
       \/ tail >= Len(lh) /\ EraseLog /\ boot' = "up"
    /\ UNCHANGED <<pc, wrote, panic>>

----------------------------------------------------------------------------
Step(p) ==
    \/ begin_op(p) \/ end_op(p)
    \/ \E b \in Blocks, x \in Vals : log_write(p, b, x)
    \/ commit(p) \/ write_log(p) \/ write_head(p) \/ install_trans(p) \/ end_commit(p)

Next == (\E p \in Procs : Step(p)) \/ crash \/ read_head \/ recover_from_log

Spec == Init /\ [][Next]_vars

\* A call that has begun ends, a commit goes on, and a process the scheduler
\* keeps picking tries again once it is woken.
Fairness == \A p \in Procs :
    /\ WF_vars(end_op(p))
    /\ WF_vars(commit(p) \/ write_log(p) \/ write_head(p) \/ install_trans(p) \/ end_commit(p))
    /\ WF_vars(pc[p] = "woken" /\ begin_op(p))

FairSpec == Spec /\ Fairness /\ WF_vars(read_head) /\ WF_vars(recover_from_log)

----------------------------------------------------------------------------
Labels == {"idle", "asleep", "woken", "op", "commit", "write_log", "write_head",
           "install", "committed"}

(* Type correctness.                                                       *)
TypeOK ==
    /\ disk \in [Blocks -> Vals] /\ cache \in [Blocks -> Vals]
    /\ dlog \in [1 .. NLOG - 1 -> Vals]
    /\ lh \in Seq(Blocks) /\ Len(lh) <= NLOG - 1
    /\ dhead \in Seq(Blocks) /\ Len(dhead) <= NLOG - 1
    /\ outstanding \in Nat /\ committing \in BOOLEAN
    /\ pc \in [Procs -> Labels]
    /\ wrote \in [Procs -> SUBSET Blocks]
    /\ tail \in 0 .. NLOG - 1
    /\ boot \in {"up", "read_head", "install"}
    /\ panic \in {"none", "too big a transaction", "log_write outside of trans", "log.committing"}

\* the home blocks once the log on disk has been replayed
Recovered == [b \in Blocks |->
    IF \E i \in 1 .. Len(dhead) : dhead[i] = b
    THEN dlog[CHOOSE i \in 1 .. Len(dhead) : dhead[i] = b]
    ELSE disk[b]]

Disk == INSTANCE AtomicDisk WITH
    stable <- Recovered,
    current <- IF boot = "up" THEN cache ELSE Recovered,
    active <- outstanding

(* Whatever the point at which the machine crashes, also during recovery,  *)
(* the blocks recovered are those of the last complete group of system     *)
(* calls, and a running call reads its own and its predecessors' writes.   *)
ImplementsAtomicDisk == Disk!Spec

(* begin_op's reservation is enough: no call meets a full log, and no call *)
(* ends while a commit runs.                                               *)
NoPanic == panic = "none"

(* When no call runs and no commit is in progress, every write is durable: *)
(* the disk without the log already is what programs see.                  *)
QuiescentMeansDurable ==
    Up /\ outstanding = 0 /\ ~committing => disk = cache /\ dhead = <<>> /\ lh = <<>>

(* One commit at a time, and never while a call may still write.           *)
CommitIsAlone ==
    LET committers == {p \in Procs : pc[p] \in {"commit", "write_log", "write_head", "install", "committed"}}
    IN  /\ committing => outstanding = 0
        /\ Cardinality(committers) = IF committing THEN 1 ELSE 0
        /\ outstanding = Cardinality({p \in Procs : pc[p] = "op"})

(* No wakeup is missed: a process sleeps in begin_op only while some call  *)
(* or commit is left that will wake it.                                    *)
SleeperHasWaker ==
    \A p \in Procs : pc[p] = "asleep" => outstanding > 0 \/ committing

(* The log's bookkeeping, for calls and commits in any interleaving and    *)
(* with crashes anywhere: types, no panic, durability between groups, one  *)
(* commit at a time, and a waker for every sleeper.                        *)
LogInv == TypeOK /\ NoPanic /\ QuiescentMeansDurable /\ CommitIsAlone /\ SleeperHasWaker

(* A process that waits in begin_op is woken.                              *)
SleeperIsWoken == \A p \in Procs : pc[p] = "asleep" ~> pc[p] # "asleep"
=============================================================================
