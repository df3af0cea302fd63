------------------------------ MODULE BufCache ------------------------------
(***************************************************************************)
(* The buffer cache of xv6 (bio.c) on its sleep locks (sleeplock.c) and    *)
(* its disk driver (ide.c).                                                *)
(*                                                                         *)
(* What runs under bcache.lock, idelock or a sleep lock's spin lock is one *)
(* action; a process can be overtaken between them.  A kill wakes a sleeper*)
(* whose condition does not hold.  The callers (fs.c, log.c) change a      *)
(* buffer only while they hold it, and then log_write or bwrite it.        *)
(***************************************************************************)
EXTENDS Integers, Sequences, FiniteSets, Functions

CONSTANTS Procs, NBUF, Blocks, Values, NONE,
          Zero,      \* the content of a buffer in the kernel's bss
          Written,   \* bound: the blocks that programs change
          MaxHeld,   \* bound: how many buffers each process holds at a time
          MaxPinned  \* bound: how many buffers the log keeps dirty

Bufs == 1 .. NBUF

\* the buffers that every process holds at its bound n, told apart
Claims(n) == UNION {{p} \X (1 .. n[p]) : p \in Procs}

ASSUME BufAssumption ==
    /\ NBUF \in Nat /\ IsFiniteSet(Procs)
    /\ MaxHeld \in [Procs -> Nat] /\ MaxPinned \in Nat
    /\ Zero \in Values /\ \E v \in Values : v # Zero
    /\ Blocks \subseteq Nat /\ Written \subseteq Blocks
    /\ NONE \notin Procs /\ NONE \notin Bufs /\ NONE \notin Blocks

\* enough buffers for what the callers can hold and the log can pin: NBUF is
\* meant to be that large (param.h)
ASSUME SizeAssumption == Cardinality(Claims(MaxHeld)) + MaxPinned <= NBUF

\* what idestart tells the disk
Requests == [block : Blocks, write : BOOLEAN, data : Values]

\* NONE is neither a request to the disk nor a block that is lent
ASSUME NoneAssumption ==
    /\ NONE \notin Requests
    /\ NONE \notin Procs \X Values

VARIABLES lru,        \* bcache.head.next is lru[1], the most recently used
          blockno, valid, dirty, refcnt, data,
          owner,      \* per buffer: who has its sleep lock
          idequeue,
          req,        \* what idestart told the disk, or NONE
          disk,
          pc, cur,    \* per process: where it is, and the buffer it is at work on
          held,       \* per process: the buffers it has from bread
          panic

buf == <<blockno, valid, dirty, refcnt, data>>
ide == <<idequeue, req, disk>>
local == <<cur, held>>
vars == <<lru, buf, owner, ide, pc, local, panic>>

Init ==
    /\ lru = [i \in Bufs |-> NBUF + 1 - i]
    /\ blockno = [b \in Bufs |-> NONE]
    /\ valid = [b \in Bufs |-> FALSE] /\ dirty = [b \in Bufs |-> FALSE]
    /\ refcnt = [b \in Bufs |-> 0] /\ data = [b \in Bufs |-> Zero]
    /\ owner = [b \in Bufs |-> NONE]
    /\ idequeue = <<>> /\ req = NONE /\ disk = [k \in Blocks |-> CHOOSE v \in Values : v # Zero]
    /\ pc = [p \in Procs |-> "run"] /\ cur = [p \in Procs |-> NONE]
    /\ held = [p \in Procs |-> {}]
    /\ panic = FALSE

----------------------------------------------------------------------------
(* sleep and wakeup: a process asleep at "x_sleep" runs again from "x".     *)
Awake(l) == CASE l = "lock_sleep" -> "lock" [] l = "iderw_sleep" -> "iderw" [] OTHER -> l

\* p goes to l; who sleeps at w on buffer b is woken
Goto(p, l, w, b) == pc' = [q \in Procs |->
    CASE q = p -> l [] q # p /\ pc[q] = w /\ cur[q] = b -> Awake(w) [] OTHER -> pc[q]]

Step(p, l) == Goto(p, l, "none", NONE)

At(p, l) == pc[p] = l /\ ~panic

----------------------------------------------------------------------------
(* bio.c                                                                    *)

\* a caller that holds a buffer asks only for blocks further on (log block
\* before home block, indirect block before bitmap): callers keep an order
MayAsk(p, k) ==
    /\ At(p, "run") /\ Cardinality(held[p]) < MaxHeld[p]
    /\ \A b \in held[p] : blockno[b] < k

Found(p, b) ==
    /\ cur' = [cur EXCEPT ![p] = b]
    /\ Step(p, "lock")
    /\ UNCHANGED <<lru, owner, ide, held, panic>>

Cached(k) == {b \in Bufs : blockno[b] = k}

bget_cached(p, k) ==
    /\ MayAsk(p, k)
    /\ \E b \in Cached(k) : refcnt' = [refcnt EXCEPT ![b] = @ + 1] /\ Found(p, b)
    /\ UNCHANGED <<blockno, valid, dirty, data>>

RecyclableDirty == {i \in DOMAIN lru : refcnt[lru[i]] = 0}

Recyclable == {i \in DOMAIN lru : refcnt[lru[i]] = 0 /\ ~dirty[lru[i]]}

Recycle(p, k) ==
    /\ MayAsk(p, k)
    /\ \/ /\ Recyclable = {}
          /\ panic' = TRUE
          /\ UNCHANGED <<lru, buf, owner, ide, pc, local>>
       \/ \E i \in Recyclable : LET b == lru[i] IN
          /\ \A j \in Recyclable : j <= i
          /\ blockno' = [blockno EXCEPT ![b] = k]
          /\ valid' = [valid EXCEPT ![b] = FALSE]
          /\ dirty' = [dirty EXCEPT ![b] = FALSE]
          /\ refcnt' = [refcnt EXCEPT ![b] = 1]
          /\ Found(p, b)
          /\ UNCHANGED data

\* looks only among the buffers in use for the block
bget_recycle_again(p, k) == (\A b \in Cached(k) : refcnt[b] = 0) /\ Recycle(p, k)

bget_recycle(p, k) == Cached(k) = {} /\ Recycle(p, k)

----------------------------------------------------------------------------
(* sleeplock.c                                                              *)
acquiresleep(p) ==
    /\ At(p, "lock") /\ owner[cur[p]] = NONE
    /\ owner' = [owner EXCEPT ![cur[p]] = p]
    /\ Step(p, "bread")
    /\ UNCHANGED <<lru, buf, ide, local, panic>>

acquiresleep_sleep(p) ==
    /\ At(p, "lock") /\ owner[cur[p]] # NONE
    /\ Step(p, "lock_sleep")
    /\ UNCHANGED <<lru, buf, owner, ide, local, panic>>

----------------------------------------------------------------------------
(* ide.c.  A request is started when it becomes the head of the queue; a    *)
(* write passes its data along at once.                                     *)
idestart(b, write) == req' = [block |-> blockno[b], write |-> write, data |-> data'[b]]

\* the tail of iderw: queue p's buffer and sleep on it
iderw(p, b, write) ==
    /\ panic' = (owner[b] # p \/ (valid[b] /\ ~write))
    /\ idequeue' = Append(idequeue, b)
    /\ IF idequeue = <<>> THEN idestart(b, write) ELSE UNCHANGED req
    /\ Step(p, "iderw_sleep")
    /\ UNCHANGED disk

\* a killed or woken process tests the flags again
iderw_again(p) ==
    /\ At(p, "iderw") /\ ~(valid[cur[p]] /\ ~dirty[cur[p]])
    /\ Step(p, "iderw_sleep")
    /\ UNCHANGED <<lru, buf, owner, ide, local, panic>>

Return(p) ==
    /\ held' = [held EXCEPT ![p] = @ \cup {cur[p]}]
    /\ cur' = [cur EXCEPT ![p] = NONE]
    /\ Step(p, "run")
    /\ UNCHANGED <<lru, buf, owner, ide, panic>>

iderw_done(p) == At(p, "iderw") /\ valid[cur[p]] /\ ~dirty[cur[p]] /\ Return(p)

bread_valid(p) == At(p, "bread") /\ valid[cur[p]] /\ Return(p)

bread_invalid(p) ==
    /\ At(p, "bread") /\ ~valid[cur[p]]
    /\ UNCHANGED buf /\ iderw(p, cur[p], dirty[cur[p]])
    /\ UNCHANGED <<lru, owner, local>>

\* the disk has finished the request at the head of the queue
Intr(next) ==
    LET b == Head(idequeue) IN
    /\ idequeue # <<>> /\ req # NONE /\ ~panic
    /\ idequeue' = Tail(idequeue)
    /\ data' = IF dirty[b] THEN data ELSE [data EXCEPT ![b] = disk[req.block]]
    /\ disk' = IF req.write THEN [disk EXCEPT ![req.block] = req.data] ELSE disk
    /\ valid' = [valid EXCEPT ![b] = TRUE]
    /\ dirty' = [dirty EXCEPT ![b] = FALSE]
    /\ IF idequeue' # <<>> /\ next THEN idestart(Head(idequeue'), dirty'[Head(idequeue')]) ELSE req' = NONE
    /\ Goto(NONE, "run", "iderw_sleep", b)
    /\ UNCHANGED <<lru, blockno, refcnt, owner, local, panic>>

\* leaves the rest of the queue waiting
ideintr_alone == Intr(FALSE)

ideintr == Intr(TRUE)

----------------------------------------------------------------------------
(* What callers do with a buffer they hold.                                 *)
bwrite(p, b, v) ==
    /\ At(p, "run") /\ b \in held[p] /\ blockno[b] \in Written
    /\ data' = [data EXCEPT ![b] = v]
    /\ dirty' = [dirty EXCEPT ![b] = TRUE]
    /\ iderw(p, b, TRUE)
    /\ cur' = [cur EXCEPT ![p] = b]
    /\ UNCHANGED <<lru, blockno, valid, refcnt, owner, held>>

\* the log pins the changed block in the cache
log_write(p, b, v) ==
    /\ At(p, "run") /\ b \in held[p] /\ blockno[b] \in Written
    /\ Cardinality({c \in Bufs \ {b} : dirty[c]}) < MaxPinned
    /\ data' = [data EXCEPT ![b] = v]
    /\ dirty' = [dirty EXCEPT ![b] = TRUE]
    /\ UNCHANGED <<lru, blockno, valid, refcnt, owner, ide, pc, local, panic>>

\* brelse first gives up the sleep lock, and wakes who waits for it
releasesleep(p, b) ==
    /\ At(p, "run") /\ b \in held[p]
    /\ owner' = [owner EXCEPT ![b] = NONE]
    /\ held' = [held EXCEPT ![p] = @ \ {b}]
    /\ cur' = [cur EXCEPT ![p] = b]
    /\ Goto(p, "brelse", "lock_sleep", b)
    /\ UNCHANGED <<lru, buf, ide, panic>>

\* e, wherever it is in s, comes first
ToFront(s, e) == LET k == CHOOSE i \in DOMAIN s : s[i] = e IN
    [i \in DOMAIN s |-> IF i = 1 THEN e ELSE IF i <= k THEN s[i - 1] ELSE s[i]]

\* and then, under bcache.lock, its reference; a buffer without any goes to the
\* front of the list
brelse(p) ==
    /\ At(p, "brelse")
    /\ refcnt' = [refcnt EXCEPT ![cur[p]] = @ - 1]
    /\ lru' = IF refcnt'[cur[p]] = 0 THEN ToFront(lru, cur[p]) ELSE lru
    /\ cur' = [cur EXCEPT ![p] = NONE]
    /\ Step(p, "run")
    /\ UNCHANGED <<blockno, valid, dirty, data, owner, ide, held, panic>>

\* kill makes a sleeping process runnable (proc.c)
kill(p) ==
    /\ pc[p] \in {"lock_sleep", "iderw_sleep"}
    /\ Step(p, Awake(pc[p])) /\ ~panic
    /\ UNCHANGED <<lru, buf, owner, ide, local, panic>>

Kernel(p) ==
    \/ acquiresleep(p) \/ acquiresleep_sleep(p) \/ bread_valid(p) \/ bread_invalid(p)
    \/ iderw_again(p) \/ iderw_done(p) \/ brelse(p)

Caller(p) ==
    \/ \E k \in Blocks : bget_cached(p, k) \/ bget_recycle(p, k)
    \/ \E b \in held[p] : releasesleep(p, b) \/ \E v \in Values : bwrite(p, b, v) \/ log_write(p, b, v)

Next == ideintr \/ \E p \in Procs : Kernel(p) \/ Caller(p) \/ kill(p)

Spec == Init /\ [][Next]_vars

\* The scheduler runs every process, the disk answers every request, and a
\* process in the kernel gives its buffers back.
FairSpec == Spec /\ WF_vars(ideintr) /\ \A p \in Procs :
    WF_vars(Kernel(p)) /\ WF_vars(\E b \in held[p] : releasesleep(p, b))

----------------------------------------------------------------------------
Places == {"run", "lock", "lock_sleep", "bread", "iderw", "iderw_sleep", "brelse"}

\* Every variable of bio.c, ide.c and sleeplock.c has its type, and the list
\* of buffers still has each buffer once.
TypeOK ==
    /\ lru \in [Bufs -> Bufs] /\ Range(lru) = Bufs
    /\ blockno \in [Bufs -> Blocks \cup {NONE}] /\ valid \in [Bufs -> BOOLEAN]
    /\ dirty \in [Bufs -> BOOLEAN] /\ refcnt \in [Bufs -> Nat] /\ data \in [Bufs -> Values]
    /\ owner \in [Bufs -> Procs \cup {NONE}] /\ disk \in [Blocks -> Values]
    /\ idequeue \in Seq(Bufs) /\ req \in Requests \cup {NONE} /\ panic \in BOOLEAN
    /\ pc \in [Procs -> Places]
    /\ cur \in [Procs -> Bufs \cup {NONE}] /\ held \in [Procs -> SUBSET Bufs]

\* The processes that are between bget and the end of brelse with b.
Users(b) == {p \in Procs : b \in held[p] \/ cur[p] = b}

\* Reference counts are exact, so a buffer is recycled only when no process is
\* using it or waiting for it (bget, brelse).
RefcountExact == \A b \in Bufs : refcnt[b] = Cardinality(Users(b))

\* No block is cached twice: two processes that ask for the same block meet at
\* the same sleep lock (bget).
OneBufferPerBlock == \A b, c \in Bufs : blockno[b] = blockno[c] /\ blockno[b] # NONE => b = c

\* As long as there are buffers for what callers hold and the log pins, no
\* panic of bio.c or ide.c is reached.
NoPanic == ~panic

\* A sleeper has somebody to wake it: the holder of the lock it waits for, or
\* the interrupt for the request it queued (acquiresleep, iderw).
SleepersHaveReason == \A p \in Procs :
    /\ pc[p] = "lock_sleep" => owner[cur[p]] # NONE
    /\ pc[p] = "iderw_sleep" => \E i \in DOMAIN idequeue : idequeue[i] = cur[p]
    /\ idequeue # <<>> => req # NONE

\* The bookkeeping of bio.c, ide.c and sleeplock.c in every interleaving: types,
\* exact counts, no block cached twice, no panic, a waker for every sleeper.
BufInv == TypeOK /\ RefcountExact /\ OneBufferPerBlock /\ NoPanic /\ SleepersHaveReason

\* The content of block k: its valid buffer, or what the disk has.
Content(k) == IF \E b \in Cached(k) : valid[b] THEN data[CHOOSE b \in Cached(k) : valid[b]] ELSE disk[k]

Lent(k) == IF \E p \in Procs : \E b \in held[p] : blockno[b] = k
           THEN LET p == CHOOSE p \in Procs : \E b \in held[p] : blockno[b] = k
                IN <<p, data[CHOOSE b \in held[p] : blockno[b] = k]>>
           ELSE NONE

Store == INSTANCE BlockStore WITH store <- [k \in Blocks |-> Content(k)], lent <- [k \in Blocks |-> Lent(k)]

\* The cache, the sleep locks and the disk queue together are a store of blocks
\* that are lent to one process at a time and never lose a change (bread,
\* bwrite, brelse).
ImplementsBlockStore == Store!Spec

\* Every request to the disk is answered and its process goes on, whatever
\* kills arrive while it sleeps (iderw, ideintr).
RequestsComplete == \A p \in Procs : pc[p] \in {"iderw", "iderw_sleep"} ~> pc[p] = "run"
=============================================================================
