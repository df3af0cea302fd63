-------------------------------- MODULE CoW --------------------------------
(***************************************************************************)
(* Copy-on-write fork (Lab-Memory Management in xv6/CoW Implement/         *)
(* xv6-public-master): the reference-counted frames of kalloc.c, the user  *)
(* page tables of vm.c, the page-fault handler of trap.c, and the process  *)
(* operations of proc.c that create and destroy address spaces.            *)
(*                                                                         *)
(* A step is a stretch of code up to the next acquisition of kmem.lock:    *)
(* whatever a processor does between two of them touches only its own      *)
(* process's page table and the frames it maps.  Memory for page tables    *)
(* and kernel stacks is never shared and is left out; the calls that need  *)
(* it may fail.  The contents of a page are one value.  An error the       *)
(* kernel does not survive (a panic, a null pointer used) sets oops, and   *)
(* nothing happens after it.                                               *)
(***************************************************************************)
EXTENDS Integers, FiniteSets

CONSTANTS Procs,     \* slots of the process table
          initproc,  \* the first process, which never exits
          Frames,    \* physical page frames the free list starts with
          NPAGES,    \* virtual pages of the largest process
          InitPages, \* pages of initproc after exec
          Guard,     \* its pages without PTE_U: the stack guard page
          Far,       \* an address whose page table does not exist
          Touched,   \* the pages programs access
          Vals, Zero, Junk,  \* page contents: written, cleared, filled by kfree
          NCPU,
          NONE

Pages == 0 .. NPAGES - 1
Contents == Vals \cup {Zero, Junk}
PTE == [pa : Frames, W : BOOLEAN, CoW : BOOLEAN, U : BOOLEAN]

ASSUME CoWAssumption ==
    /\ IsFiniteSet(Procs) /\ initproc \in Procs /\ NONE \notin Procs
    /\ NONE \notin Frames /\ NONE \notin PTE
    /\ NPAGES \in Nat /\ InitPages \in 1 .. NPAGES
    /\ Guard \subseteq Pages
    /\ NCPU \in Nat \ {0}

\* NONE also stands for the memory of a process that is not alive
ASSUME MemoryAssumption == \A n \in 0 .. NPAGES : NONE \notin [1 .. n -> Contents]

VARIABLES freelist,  \* kmem.freelist
          refcount,  \* kmem.refcount_list
          data,      \* what each frame contains
          pte,       \* per process and page: its page-table entry, or NONE
          sz,        \* proc.sz, in pages
          tlb,       \* pages whose writable translation the processor may still hold
          state, parent,
          pc,        \* where the process is in the kernel, or "user"
          np,        \* the process it creates or reaps
          va,        \* the page it works on, 0 in user mode
          mem,       \* the frame kalloc gave the fault handler
          oops

kmem == <<freelist, refcount, data>>
uvm == <<pte, sz, tlb>>
proc == <<state, parent>>
local == <<pc, np, va, mem>>
vars == <<kmem, uvm, proc, local, oops>>

\* Interrupts are off in the page-fault handler (its gate is an interrupt
\* gate) and in wait, which holds ptable.lock: these steps keep a processor.
NoInterrupts == {"fault_dec", "fault_alloc", "fault_copy", "reap"}

CanRun(p) == oops = "none" /\ Cardinality({q \in Procs \ {p} : pc[q] \in NoInterrupts}) < NCPU

Running(p, at) == pc[p] = at /\ state[p] = "RUNNABLE" /\ CanRun(p)

Goto(p, at) == pc' = [pc EXCEPT ![p] = at]

Init ==
    \E frame \in [0 .. InitPages - 1 -> Frames] :
        LET used == {frame[v] : v \in 0 .. InitPages - 1} IN
        /\ \A v, w \in 0 .. InitPages - 1 : frame[v] = frame[w] => v = w
        /\ freelist = Frames \ used
        /\ refcount = [f \in Frames |-> IF f \in used THEN 1 ELSE 0]
        /\ data = [f \in Frames |-> IF f \in used THEN Zero ELSE Junk]
        /\ pte = [p \in Procs |-> [v \in Pages |->
                    IF p = initproc /\ v < InitPages
                    THEN [pa |-> frame[v], W |-> TRUE, CoW |-> FALSE, U |-> v \notin Guard]
                    ELSE NONE]]
        /\ sz = [p \in Procs |-> IF p = initproc THEN InitPages ELSE 0]
        /\ tlb = [p \in Procs |-> {}]
        /\ state = [p \in Procs |-> IF p = initproc THEN "RUNNABLE" ELSE "UNUSED"]
        /\ parent = [p \in Procs |-> NONE]
        /\ pc = [p \in Procs |-> "user"]
        /\ np = [p \in Procs |-> NONE]
        /\ va = [p \in Procs |-> 0]
        /\ mem = [p \in Procs |-> NONE]
        /\ oops = "none"

----------------------------------------------------------------------------
(* kalloc.c: each function is one critical section of kmem.lock.           *)

\* mutants: kfree ignores the count, as the original xv6 does, or tests it before it decrements it; a fork does not
\* count its share
kfreeUncounted(f) ==
    /\ freelist' = freelist \cup {f}
    /\ data' = [data EXCEPT ![f] = Junk]
    /\ UNCHANGED <<refcount, oops>>
kfreeTestsFirst(f) ==
    /\ refcount' = [refcount EXCEPT ![f] = IF @ > 0 THEN @ - 1 ELSE @]
    /\ freelist' = IF refcount[f] = 0 THEN freelist \cup {f} ELSE freelist
    /\ UNCHANGED <<data, oops>>
forgets_refcount(f) == UNCHANGED kmem

\* kalloc takes a frame off the free list; callers handle the empty list
kalloc(f, contents) ==
    /\ f \in freelist
    /\ freelist' = freelist \ {f}
    /\ refcount' = [refcount EXCEPT ![f] = 1]
    /\ data' = [data EXCEPT ![f] = contents]
    /\ oops' = IF refcount[f] # 0 THEN "kalloc: refcount of a free page is not 0" ELSE oops

kfree(f) ==
    LET left == IF refcount[f] > 0 THEN refcount[f] - 1 ELSE refcount[f]
    IN  /\ refcount' = [refcount EXCEPT ![f] = left]
        /\ freelist' = IF left = 0 THEN freelist \cup {f} ELSE freelist
        /\ data' = IF left = 0 THEN [data EXCEPT ![f] = Junk] ELSE data
        /\ oops' = CASE refcount[f] < 0 -> "kfree: WTF"
                     [] f \in freelist -> "free list corrupted"
                     [] OTHER -> oops

increase_refcount(f) ==
    /\ refcount' = [refcount EXCEPT ![f] = @ + 1]
    /\ UNCHANGED <<freelist, data>>

decrease_refcount(f) ==
    /\ refcount' = [refcount EXCEPT ![f] = @ - 1]
    /\ UNCHANGED <<freelist, data>>

----------------------------------------------------------------------------
(* A program writes to page v, or touches a page it may not access.        *)
Writable(p, v) == pte[p][v] # NONE /\ pte[p][v].U /\ (pte[p][v].W \/ v \in tlb[p])

user_write(p, v, x) ==
    /\ Running(p, "user") /\ v \in Pages /\ Writable(p, v)
    /\ data' = [data EXCEPT ![pte[p][v].pa] = x]
    /\ tlb' = [tlb EXCEPT ![p] = @ \cup {v}]
    /\ UNCHANGED <<freelist, refcount, pte, sz, proc, local, oops>>

\* check_CoW_bit_set_or_not is true also when there is no page table
faults_as_CoW(p, v) == IF v = Far THEN TRUE ELSE pte[p][v] # NONE /\ pte[p][v].CoW

\* the end of the handler: the entry becomes writable, lcr3 empties the TLB
make_writable(p, v, entry) ==
    /\ pte' = [pte EXCEPT ![p][v] = [entry EXCEPT !.CoW = FALSE, !.W = TRUE]]
    /\ tlb' = [tlb EXCEPT ![p] = {}]
    /\ UNCHANGED sz

\* T_PGFLT on a copy-on-write page: read the count; the last owner keeps
\* the frame
fault_get(p, v) ==
    /\ Running(p, "user") /\ v \in Pages /\ ~Writable(p, v) /\ faults_as_CoW(p, v)
    /\ \/ /\ refcount[pte[p][v].pa] > 1
          /\ va' = [va EXCEPT ![p] = v]
          /\ Goto(p, "fault_dec")
          /\ UNCHANGED uvm
       \/ /\ refcount[pte[p][v].pa] <= 1
          /\ make_writable(p, v, pte[p][v])
          /\ UNCHANGED <<va, pc>>
    /\ UNCHANGED <<kmem, proc, np, mem, oops>>

fault_dec(p) ==
    /\ Running(p, "fault_dec")
    /\ decrease_refcount(pte[p][va[p]].pa)
    /\ Goto(p, "fault_alloc")
    /\ UNCHANGED <<uvm, proc, np, va, mem, oops>>

\* the result of kalloc is not tested
fault_alloc(p) ==
    /\ Running(p, "fault_alloc")
    /\ \/ \E f \in Frames :
             /\ kalloc(f, Junk)
             /\ mem' = [mem EXCEPT ![p] = f]
             /\ Goto(p, "fault_copy")
       \/ /\ freelist = {}
          /\ oops' = "null frame used"
          /\ UNCHANGED <<kmem, mem, pc>>
    /\ UNCHANGED <<uvm, proc, np, va>>

fault_copy(p) ==
    /\ Running(p, "fault_copy")
    /\ data' = [data EXCEPT ![mem[p]] = data[pte[p][va[p]].pa]]
    /\ make_writable(p, va[p], [pa |-> mem[p], W |-> FALSE, CoW |-> FALSE, U |-> TRUE])
    /\ mem' = [mem EXCEPT ![p] = NONE]
    /\ va' = [va EXCEPT ![p] = 0]
    /\ Goto(p, "user")
    /\ UNCHANGED <<freelist, refcount, proc, np, oops>>

\* walkpgdir found no page table, and the null entry is used
fault_far(p) ==
    /\ Running(p, "user")
    /\ faults_as_CoW(p, Far)
    /\ oops' = "null pte used"
    /\ UNCHANGED <<kmem, uvm, proc, local>>

----------------------------------------------------------------------------
(* proc.c                                                                  *)

\* wait holds ptable.lock while it frees a zombie
ptable_unlocked == \A q \in Procs : pc[q] # "reap"

\* initproc never exits
exit(p) ==
    /\ p # initproc /\ ptable_unlocked
    /\ state' = [state EXCEPT ![p] = "ZOMBIE"]
    /\ parent' = [q \in Procs |-> IF parent[q] = p THEN initproc ELSE parent[q]]
    /\ UNCHANGED <<kmem, uvm, local, oops>>

sys_exit(p) == Running(p, "user") /\ exit(p)

\* a fault on a page that is not copy-on-write kills the process
fault_kill(p, v) ==
    /\ Running(p, "user") /\ v \in Pages /\ ~Writable(p, v) /\ ~faults_as_CoW(p, v)
    /\ exit(p)

\* fork: allocproc, then copyuvm page by page
fork(p, c) ==
    /\ Running(p, "user") /\ ptable_unlocked
    /\ state[c] = "UNUSED"
    /\ state' = [state EXCEPT ![c] = "EMBRYO"]
    /\ np' = [np EXCEPT ![p] = c]
    /\ Goto(p, "copyuvm")
    /\ UNCHANGED <<kmem, uvm, parent, va, mem, oops>>

\* mutant: the entry stays writable
marked_writable(entry) == [entry EXCEPT !.CoW = TRUE]

marked(entry) == IF entry.W THEN [entry EXCEPT !.CoW = TRUE, !.W = FALSE] ELSE entry

\* the parent's entry is marked before mappages, which may fail
copyuvm_map(p) ==
    LET v == va[p] IN
    /\ Running(p, "copyuvm") /\ v < sz[p]
    /\ IF pte[p][v] = NONE
       THEN /\ oops' = "copyuvm: page not present"
            /\ UNCHANGED <<pte, pc>>
       ELSE /\ \/ /\ pte' = [pte EXCEPT ![p][v] = marked(@), ![np[p]][v] = marked(pte[p][v])]
                  /\ Goto(p, "incref")
               \/ /\ pte' = [pte EXCEPT ![p][v] = marked(@)]
                  /\ Goto(p, "bad")
            /\ UNCHANGED oops
    /\ UNCHANGED <<kmem, sz, tlb, proc, np, va, mem>>

copyuvm_incref(p) ==
    /\ Running(p, "incref")
    /\ increase_refcount(pte[p][va[p]].pa)
    /\ va' = [va EXCEPT ![p] = @ + 1]
    /\ Goto(p, "copyuvm")
    /\ UNCHANGED <<uvm, proc, np, mem, oops>>

\* copyuvm succeeded and the child becomes RUNNABLE
child_created(p) ==
    /\ Running(p, "copyuvm") /\ va[p] >= sz[p] /\ ptable_unlocked
    /\ sz' = [sz EXCEPT ![np[p]] = sz[p]]
    /\ state' = [state EXCEPT ![np[p]] = "RUNNABLE"]
    /\ parent' = [parent EXCEPT ![np[p]] = p]
    /\ np' = [np EXCEPT ![p] = NONE]
    /\ va' = [va EXCEPT ![p] = 0]
    /\ Goto(p, "user")
    /\ UNCHANGED <<kmem, pte, mem, oops>>

\* mutant: the parent's TLB is not flushed
fork_no_flush(p) == child_created(p) /\ UNCHANGED tlb

\* fork calls switchuvm(curproc) after copyuvm
fork_done(p) == child_created(p) /\ tlb' = [tlb EXCEPT ![p] = {}]

\* wait finds a zombie child
wait(p, c) ==
    /\ Running(p, "user") /\ ptable_unlocked
    /\ state[c] = "ZOMBIE" /\ parent[c] = p
    /\ np' = [np EXCEPT ![p] = c]
    /\ Goto(p, "reap")
    /\ UNCHANGED <<kmem, uvm, proc, va, mem, oops>>

\* freevm, called by wait and by a failed copyuvm: deallocuvm frees the
\* pages from the lowest up
freevm_page(p) ==
    /\ Running(p, "reap") \/ Running(p, "bad")
    /\ \E v \in Pages :
          /\ pte[np[p]][v] # NONE
          /\ \A w \in Pages : w < v => pte[np[p]][w] = NONE
          /\ kfree(pte[np[p]][v].pa)
          /\ pte' = [pte EXCEPT ![np[p]][v] = NONE]
    /\ UNCHANGED <<sz, tlb, proc, local>>

\* the slot of the reaped, or never started, process is free again
freevm_done(p) ==
    /\ Running(p, "reap") \/ Running(p, "bad")
    /\ \A v \in Pages : pte[np[p]][v] = NONE
    /\ state' = [state EXCEPT ![np[p]] = "UNUSED"]
    /\ parent' = [parent EXCEPT ![np[p]] = NONE]
    /\ sz' = [sz EXCEPT ![np[p]] = 0]
    /\ tlb' = [tlb EXCEPT ![np[p]] = {}]
    /\ np' = [np EXCEPT ![p] = NONE]
    /\ va' = [va EXCEPT ![p] = 0]
    /\ Goto(p, "user")
    /\ UNCHANGED <<kmem, pte, mem, oops>>

\* sbrk by one page: growproc with allocuvm or deallocuvm, then switchuvm
sbrk_grow(p) ==
    /\ Running(p, "user") /\ sz[p] < NPAGES
    /\ \E f \in Frames :
          /\ kalloc(f, Zero)
          /\ pte' = [pte EXCEPT ![p][sz[p]] = [pa |-> f, W |-> TRUE, CoW |-> FALSE, U |-> TRUE]]
    /\ sz' = [sz EXCEPT ![p] = @ + 1]
    /\ tlb' = [tlb EXCEPT ![p] = {}]
    /\ UNCHANGED <<proc, local>>

\* programs give back only what sbrk gave them
sbrk_shrink(p) ==
    LET v == sz[p] - 1 IN
    /\ Running(p, "user") /\ v >= InitPages
    /\ kfree(pte[p][v].pa)
    /\ pte' = [pte EXCEPT ![p][v] = NONE]
    /\ sz' = [sz EXCEPT ![p] = v]
    /\ tlb' = [tlb EXCEPT ![p] = {}]
    /\ UNCHANGED <<proc, local>>

----------------------------------------------------------------------------
page_fault(p) ==
    \/ \E v \in Touched \ {Far} : fault_get(p, v) \/ fault_kill(p, v)
    \/ Far \in Touched /\ fault_far(p)
    \/ fault_dec(p) \/ fault_alloc(p) \/ fault_copy(p)

Next == \E p \in Procs :
    \/ \E v \in Touched \ {Far}, x \in Vals : user_write(p, v, x)
    \/ page_fault(p)
    \/ sys_exit(p)
    \/ \E c \in Procs : fork(p, c) \/ wait(p, c)
    \/ copyuvm_map(p) \/ copyuvm_incref(p) \/ fork_done(p)
    \/ freevm_page(p) \/ freevm_done(p)
    \/ sbrk_grow(p) \/ sbrk_shrink(p)

Spec == Init /\ [][Next]_vars

----------------------------------------------------------------------------
States == {"UNUSED", "EMBRYO", "RUNNABLE", "ZOMBIE"}

\* the checks of kalloc.c and vm.c that panic, and the null pointers used
Panics == {"kalloc: refcount of a free page is not 0", "kfree: WTF",
           "free list corrupted", "copyuvm: page not present"}
NullUses == {"null frame used", "null pte used"}

(* Type correctness.                                                       *)
TypeOK ==
    /\ freelist \subseteq Frames
    /\ refcount \in [Frames -> Int]
    /\ data \in [Frames -> Contents]
    /\ pte \in [Procs -> [Pages -> PTE \cup {NONE}]]
    /\ sz \in [Procs -> 0 .. NPAGES]
    /\ tlb \in [Procs -> SUBSET Pages]
    /\ state \in [Procs -> States]
    /\ parent \in [Procs -> Procs \cup {NONE}]
    /\ pc \in [Procs -> {"user", "copyuvm", "incref", "bad", "reap",
                         "fault_dec", "fault_alloc", "fault_copy"}]
    /\ np \in [Procs -> Procs \cup {NONE}]
    /\ va \in [Procs -> 0 .. NPAGES]
    /\ mem \in [Procs -> Frames \cup {NONE}]
    /\ oops \in {"none"} \cup NullUses \cup Panics

\* the frame the count of which includes page v of p: none between mappages
\* and increase_refcount of a fork, and none, then the new frame, after the
\* fault handler's decrease_refcount
NotYetCounted(p, v) == \E q \in Procs : pc[q] = "incref" /\ np[q] = p /\ va[q] = v

Counted(p, v) ==
    IF pc[p] \in {"fault_alloc", "fault_copy"} /\ va[p] = v THEN mem[p]
    ELSE IF pte[p][v] = NONE \/ NotYetCounted(p, v) THEN NONE
    ELSE pte[p][v].pa

References(f) == {r \in Procs \X Pages : Counted(r[1], r[2]) = f}

(* The count of a frame is the number of page-table entries that refer to  *)
(* it, at every moment of forks, faults, exits and sbrks on any number of  *)
(* processors, up to the entries a step in progress has yet to count.      *)
RefcountExact == \A f \in Frames : refcount[f] = Cardinality(References(f))

(* A frame on the free list has no counted reference: kalloc and kfree     *)
(* never meet the counts they panic on, and nothing is freed twice.        *)
FreeMeansUnreferenced == \A f \in freelist : References(f) = {}

(* None of the consistency checks of kalloc.c and vm.c fails.              *)
NoPanic == oops \notin Panics

(* What the allocator relies on, on any number of processors: its state    *)
(* has its types, what is free is not referenced, and no check fails.      *)
CoWInv == TypeOK /\ FreeMeansUnreferenced /\ NoPanic

(* A page is writable only by the process that alone maps its frame, even  *)
(* through a translation still in the TLB.                                 *)
WritableMeansPrivate ==
    \A p, q \in Procs : \A v, w \in Pages :
        /\ state[p] = "RUNNABLE" /\ pc[p] = "user" /\ Writable(p, v)
        /\ pte[q][w] # NONE /\ pte[q][w].pa = pte[p][v].pa
        => <<p, v>> = <<q, w>>

(* Every frame is on the free list or referenced: once its last owner has  *)
(* gone it can be allocated again.                                         *)
NoFrameLost == \A f \in Frames : refcount[f] = 0 => f \in freelist

\* the memory a live process sees
Memory(p) == IF state[p] = "RUNNABLE"
             THEN [i \in 1 .. sz[p] |-> data[pte[p][i - 1].pa]]
             ELSE NONE

AbstractMemory == INSTANCE ForkMem WITH
    vm <- [p \in Procs |-> Memory(p)], DEAD <- NONE

(* Copy-on-write fork implements fork: no process ever sees a write of     *)
(* another, and every child starts with its parent's memory.               *)
ImplementsFork == AbstractMemory!Spec
=============================================================================
