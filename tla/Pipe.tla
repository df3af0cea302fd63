-------------------------------- MODULE Pipe --------------------------------
(***************************************************************************)
(* A pipe of xv6 (xv6-public-master/pipe.c), with the reference counts of  *)
(* its two files (file.c) and the sleep, wakeup and kill of proc.c.        *)
(*                                                                         *)
(* Several processes may hold either end.  Everything between acquiring    *)
(* and releasing p->lock is one action, except that kill needs only        *)
(* ptable.lock: it can come between the test of killed and the sleep.      *)
(***************************************************************************)
EXTENDS Integers, Sequences

CONSTANTS Procs,
          Bytes,
          PIPESIZE,
          UINT,       \* 2^32: the counters of the ring are unsigned and wrap
          Messages,   \* bound: what programs write in one call
          ReadSizes   \* bound: how much they read in one call

ASSUME PipeAssumption ==
    /\ PIPESIZE \in Nat \ {0} /\ ReadSizes \subseteq Nat /\ Messages \subseteq Seq(Bytes)
    /\ UINT \in Nat /\ UINT > PIPESIZE /\ UINT % PIPESIZE = 0

VARIABLES data, nread, nwrite, readopen, writeopen,
          freed,   \* whether the pipe's page has been given back
          fd,      \* per process: the ends it has open
          pc,      \* per process: "user", or where it is in pipe.c
          addr,    \* per process: the bytes it has still to write
          n,       \* per process: how many bytes it wants to read
          killed,
          got      \* what the last read returned

ring == <<data, nread, nwrite>>
open == <<readopen, writeopen, freed>>
vars == <<ring, open, fd, pc, addr, n, killed, got>>

Init ==
    /\ \E x \in Bytes : data = [i \in 0 .. PIPESIZE - 1 |-> x]
    /\ nread = 0 /\ nwrite = 0
    /\ readopen = TRUE /\ writeopen = TRUE /\ freed = FALSE
    /\ fd = [p \in Procs |-> {"r", "w"}]
    /\ pc = [p \in Procs |-> "user"]
    /\ addr = [p \in Procs |-> <<>>]
    /\ n = [p \in Procs |-> 0]
    /\ killed = [p \in Procs |-> FALSE]
    /\ got = <<>>

----------------------------------------------------------------------------
Used == (nwrite - nread) % UINT
Full == nwrite = (nread + PIPESIZE) % UINT
Empty == nread = nwrite

\* the bytes in the pipe, oldest first
Queue == [i \in 1 .. Used |-> data[((nread + i - 1) % UINT) % PIPESIZE]]

\* p->lock is held across actions only on the way into sleep
lock_free == \A p \in Procs : pc[p] \notin {"read_sleep", "write_sleep"}

\* kill wakes q, or wakeup wakes who sleeps on the channel of that end
Awake(l) == CASE l = "read_asleep" -> "read" [] l = "write_asleep" -> "write" [] OTHER -> l

\* p goes to l after a wakeup of the sleepers at w
Goto(p, l, w) == pc' = [q \in Procs |->
    CASE q = p -> l [] q # p /\ pc[q] = w -> Awake(w) [] OTHER -> pc[q]]

----------------------------------------------------------------------------
(* System calls of a process that has not been killed.                     *)
User(p) == pc[p] = "user" /\ ~killed[p]

sys_read(p, k) ==
    /\ User(p) /\ "r" \in fd[p]
    /\ n' = [n EXCEPT ![p] = k]
    /\ Goto(p, "read", "none")
    /\ UNCHANGED <<ring, open, fd, addr, killed, got>>

sys_write(p, s) ==
    /\ User(p) /\ "w" \in fd[p]
    /\ addr' = [addr EXCEPT ![p] = s]
    /\ Goto(p, "write", "none")
    /\ UNCHANGED <<ring, open, fd, n, killed, got>>

----------------------------------------------------------------------------
\* piperead: return what there is
piperead(p) ==
    LET k == IF n[p] < Used THEN n[p] ELSE Used
    IN  /\ pc[p] = "read" /\ lock_free /\ (~Empty \/ ~writeopen)
        /\ got' = SubSeq(Queue, 1, k)
        /\ nread' = (nread + k) % UINT
        /\ n' = [n EXCEPT ![p] = 0]
        /\ Goto(p, "user", "write_asleep")
        /\ UNCHANGED <<data, nwrite, open, fd, addr, killed>>

\* the pipe is empty: give up when killed, else sleep on &p->nread
piperead_empty(p) ==
    /\ pc[p] = "read" /\ lock_free /\ Empty /\ writeopen
    /\ \/ killed[p] /\ n' = [n EXCEPT ![p] = 0] /\ Goto(p, "user", "none")
       \/ ~killed[p] /\ Goto(p, "read_sleep", "none") /\ UNCHANGED n
    /\ UNCHANGED <<ring, open, fd, addr, killed, got>>

\* the bytes that fit go into the ring
Copied(p) == IF Len(addr[p]) < PIPESIZE - Used THEN Len(addr[p]) ELSE PIPESIZE - Used

\* mutant: the write starts one slot too far
SlotAfter(i) == ((nwrite + i + 1) % UINT) % PIPESIZE

\* where byte i of a write goes
Slot(i) == ((nwrite + i) % UINT) % PIPESIZE

Store(p, k) ==
    /\ data' = [j \in DOMAIN data |->
          IF \E i \in 0 .. k - 1 : Slot(i) = j
          THEN addr[p][(CHOOSE i \in 0 .. k - 1 : Slot(i) = j) + 1]
          ELSE data[j]]
    /\ nwrite' = (nwrite + k) % UINT

\* pipewrite: all the bytes fit
pipewrite(p) ==
    /\ pc[p] = "write" /\ lock_free /\ Copied(p) = Len(addr[p])
    /\ Store(p, Copied(p))
    /\ addr' = [addr EXCEPT ![p] = <<>>]
    /\ Goto(p, "user", "read_asleep")
    /\ UNCHANGED <<nread, open, fd, n, killed, got>>

\* mutant: the writer sleeps without waking the readers
pipewrite_full_silent(p) ==
    /\ pc[p] = "write" /\ lock_free /\ Copied(p) < Len(addr[p])
    /\ readopen /\ ~killed[p]
    /\ Store(p, Copied(p))
    /\ addr' = [addr EXCEPT ![p] = SubSeq(@, Copied(p) + 1, Len(@))]
    /\ Goto(p, "write_sleep", "none")
    /\ UNCHANGED <<nread, open, fd, n, killed, got>>

\* the pipe is full: sleep on &p->nwrite
pipewrite_full(p) ==
    /\ pc[p] = "write" /\ lock_free /\ Copied(p) < Len(addr[p])
    /\ readopen /\ ~killed[p]
    /\ Store(p, Copied(p))
    /\ addr' = [addr EXCEPT ![p] = SubSeq(@, Copied(p) + 1, Len(@))]
    /\ Goto(p, "write_sleep", "read_asleep")
    /\ UNCHANGED <<nread, open, fd, n, killed, got>>

\* or give up, without a reader or when killed: nobody is woken
pipewrite_gives_up(p) ==
    /\ pc[p] = "write" /\ lock_free /\ Copied(p) < Len(addr[p])
    /\ ~readopen \/ killed[p]
    /\ Store(p, Copied(p))
    /\ addr' = [addr EXCEPT ![p] = <<>>]
    /\ Goto(p, "user", "none")
    /\ UNCHANGED <<nread, open, fd, n, killed, got>>

\* sleep takes ptable.lock, releases p->lock and gives up the processor
sleep(p) ==
    /\ \/ pc[p] = "read_sleep" /\ Goto(p, "read_asleep", "none")
       \/ pc[p] = "write_sleep" /\ Goto(p, "write_asleep", "none")
    /\ UNCHANGED <<ring, open, fd, addr, n, killed, got>>

----------------------------------------------------------------------------
\* fileclose: the last descriptor of an end closes that end of the pipe
fileclose(p, end) ==
    /\ pc[p] = "user" /\ end \in fd[p]
    /\ fd' = [fd EXCEPT ![p] = @ \ {end}]
    /\ Goto(p, IF \E q \in Procs \ {p} : end \in fd[q] THEN "user"
               ELSE IF end = "r" THEN "close_r" ELSE "close_w", "none")
    /\ UNCHANGED <<ring, open, addr, n, killed, got>>

\* mutants: the sleepers of the other end are not woken; the page is freed
\* with the first end that is closed
pipeclose_silent(p) ==
    /\ lock_free
    /\ \/ pc[p] = "close_w" /\ writeopen' = FALSE /\ UNCHANGED readopen
       \/ pc[p] = "close_r" /\ readopen' = FALSE /\ UNCHANGED writeopen
    /\ Goto(p, "user", "none")
    /\ freed' = (~readopen' /\ ~writeopen')
    /\ UNCHANGED <<ring, fd, addr, n, killed, got>>
pipeclose_early(p) ==
    /\ lock_free
    /\ \/ pc[p] = "close_w" /\ writeopen' = FALSE /\ UNCHANGED readopen /\ Goto(p, "user", "read_asleep")
       \/ pc[p] = "close_r" /\ readopen' = FALSE /\ UNCHANGED writeopen /\ Goto(p, "user", "write_asleep")
    /\ freed' = TRUE
    /\ UNCHANGED <<ring, fd, addr, n, killed, got>>

pipeclose(p) ==
    /\ lock_free
    /\ \/ /\ pc[p] = "close_w"
          /\ writeopen' = FALSE
          /\ Goto(p, "user", "read_asleep")
          /\ UNCHANGED readopen
       \/ /\ pc[p] = "close_r"
          /\ readopen' = FALSE
          /\ Goto(p, "user", "write_asleep")
          /\ UNCHANGED writeopen
    /\ freed' = (~readopen' /\ ~writeopen')
    /\ UNCHANGED <<ring, fd, addr, n, killed, got>>

sys_close(p, end) == User(p) /\ fileclose(p, end)

\* a killed process exits and closes its descriptors
exit(p) == killed[p] /\ \E end \in fd[p] : fileclose(p, end)

\* kill wakes the process if it sleeps
kill(p) ==
    /\ ~killed[p]
    /\ killed' = [killed EXCEPT ![p] = TRUE]
    /\ pc' = [pc EXCEPT ![p] = Awake(@)]
    /\ UNCHANGED <<ring, open, fd, addr, n, got>>

----------------------------------------------------------------------------
Kernel(p) ==
    \/ piperead(p) \/ piperead_empty(p) \/ pipewrite(p) \/ pipewrite_full(p)
    \/ pipewrite_gives_up(p) \/ sleep(p) \/ pipeclose(p) \/ exit(p)

Program(p) ==
    \/ \E k \in ReadSizes : sys_read(p, k)
    \/ \E s \in Messages : sys_write(p, s)
    \/ \E end \in {"r", "w"} : sys_close(p, end)

Next == \E p \in Procs : Kernel(p) \/ Program(p) \/ kill(p)

Spec == Init /\ [][Next]_vars

\* A process in the kernel goes on, and gets p->lock when it keeps trying;
\* programs need not do anything.
FairSpec == Spec /\ \A p \in Procs : SF_vars(Kernel(p))

----------------------------------------------------------------------------
(* Type correctness.                                                       *)
TypeOK ==
    /\ data \in [0 .. PIPESIZE - 1 -> Bytes]
    /\ nread \in 0 .. UINT - 1 /\ nwrite \in 0 .. UINT - 1
    /\ readopen \in BOOLEAN /\ writeopen \in BOOLEAN /\ freed \in BOOLEAN
    /\ fd \in [Procs -> SUBSET {"r", "w"}]
    /\ pc \in [Procs -> {"user", "read", "read_sleep", "read_asleep", "write",
                         "write_sleep", "write_asleep", "close_r", "close_w"}]
    /\ addr \in [Procs -> Seq(Bytes)]
    /\ n \in [Procs -> ReadSizes \cup {0}]
    /\ killed \in [Procs -> BOOLEAN]
    /\ got \in Seq(Bytes)

(* No wakeup is missed: a reader sleeps only while the pipe is empty and   *)
(* can still be written, a writer only while it is full and can still be   *)
(* read.  The exception is in the code: a writer that finds itself killed  *)
(* leaves without waking the readers of what it wrote.                     *)
SleepersHaveReason ==
    \A p \in Procs :
        /\ pc[p] \in {"read_sleep", "read_asleep"} =>
              writeopen /\ (Empty \/ \E q \in Procs : killed[q])
        /\ pc[p] \in {"write_sleep", "write_asleep"} => Full /\ readopen

(* Types, among them that both counters stay within an unsigned int, and   *)
(* no missed wakeup.                                                       *)
PipeInv == TypeOK /\ SleepersHaveReason

(* The pipe's page is freed once, by whoever closes the last end, and      *)
(* nobody is in pipe.c then or later.                                      *)
FreedIsUnused == freed => \A p \in Procs : pc[p] = "user" /\ fd[p] = {}

(* A reader returns when there is something to read or nobody is left to   *)
(* write, unless another reader takes it first or somebody is killed.      *)
ReaderReturns ==
    \A p \in Procs :
        pc[p] \in {"read", "read_sleep", "read_asleep"} /\ (~Empty \/ ~writeopen)
            ~> pc[p] = "user" \/ (Empty /\ writeopen) \/ \E q \in Procs : killed[q]

Fifo == INSTANCE ByteQueue WITH q <- Queue, writers <- writeopen, SIZE <- PIPESIZE

(* A pipe is a bounded queue of bytes: reads return the written bytes in   *)
(* order, each once, and an end of file only when the queue is empty and   *)
(* no writer is left, across every wrap of the ring and of its counters.   *)
ImplementsByteQueue == Fifo!Spec
=============================================================================
