------------------------------ MODULE CoWProofs ------------------------------
(***************************************************************************)
(* The reference counts of copy-on-write fork are exact, for every number  *)
(* of processes, frames, pages and processors, and no frame on the free    *)
(* list is referenced.  On one processor, moreover, a writable page is     *)
(* private, no frame is lost, and the whole implements fork (ForkMem).     *)
(*                                                                         *)
(* CoWIInv is inductive.  That a count changes exactly when a reference    *)
(* does needs Slots (a page table is changed only by its own process, its  *)
(* one creator or its one reaper) and Maps (where each of them is in it).  *)
(***************************************************************************)
EXTENDS CoW, TLAPS, FiniteSetTheorems, SequenceTheorems

InFault == {"fault_dec", "fault_alloc", "fault_copy"}
InFork == {"copyuvm", "incref", "bad"}

(* Who works on which slot: creators on embryos, reapers on zombies, each  *)
(* alone.                                                                  *)
Slots ==
    /\ \A p \in Procs : pc[p] # "user" => state[p] = "RUNNABLE"
    /\ \A p \in Procs : np[p] # NONE <=> pc[p] \in InFork \cup {"reap"}
    /\ \A p \in Procs : pc[p] \in InFork => state[np[p]] = "EMBRYO"
    /\ \A p \in Procs : pc[p] = "reap" => state[np[p]] = "ZOMBIE"
    /\ \A p, q \in Procs : np[p] = np[q] /\ np[p] # NONE => p = q
    /\ \A p \in Procs : mem[p] # NONE <=> pc[p] = "fault_copy"

(* What is mapped: a live process's pages below sz, nothing in an unused   *)
(* slot, and in an embryo the pages its creator has copied.                *)
LiveMaps ==
    /\ \A p \in Procs : state[p] = "RUNNABLE" => \A v \in Pages : pte[p][v] # NONE <=> v < sz[p]
    /\ \A p \in Procs : state[p] = "UNUSED" => \A v \in Pages : pte[p][v] = NONE

FaultMaps ==
    /\ \A p \in Procs : pc[p] = "user" => va[p] = 0
    /\ \A p \in Procs : pc[p] \in InFault => va[p] \in Pages /\ pte[p][va[p]] # NONE

ForkMaps ==
    /\ \A p \in Procs : pc[p] = "copyuvm" =>
          va[p] <= sz[p] /\ \A v \in Pages : pte[np[p]][v] # NONE <=> v < va[p]
    /\ \A p \in Procs : pc[p] = "incref" =>
          /\ va[p] < sz[p]
          /\ pte[np[p]][va[p]].pa = pte[p][va[p]].pa
          /\ \A v \in Pages : pte[np[p]][v] # NONE <=> v <= va[p]

Maps == LiveMaps /\ FaultMaps /\ ForkMaps

(* A free frame has count zero.                                            *)
FreeCount == \A f \in freelist : refcount[f] = 0

(* The inductive invariant.                                                *)
CoWIInv == TypeOK /\ Slots /\ Maps /\ RefcountExact /\ FreeCount /\ NoPanic

----------------------------------------------------------------------------
(* Sets of references are finite, so that counts can be compared.          *)
LEMMA ReferencesFinite == \A S : S \subseteq Procs \X Pages => IsFiniteSet(S)
<1>1. IsFiniteSet(Pages)
    BY FS_Interval, CoWAssumption DEF Pages
<1>2. IsFiniteSet(Procs \X Pages)
    BY <1>1, FS_Product, CoWAssumption
<1> QED BY <1>2, FS_Subset

(* A step that changes neither counts nor references keeps them equal.     *)
LEMMA CountsSame ==
    ASSUME RefcountExact, refcount' = refcount,
           \A q \in Procs, w \in Pages : Counted(q, w)' = Counted(q, w)
    PROVE  RefcountExact'
<1>1. ASSUME NEW f \in Frames PROVE References(f)' = References(f)
    BY DEF References
<1> QED BY <1>1 DEF RefcountExact

(* A step that adds one reference to f and one to its count.               *)
LEMMA CountsGain ==
    ASSUME NEW f \in Frames, NEW p \in Procs, NEW v \in Pages,
           RefcountExact, NONE \notin Frames,
           Counted(p, v) = NONE, Counted(p, v)' = f,
           \A q \in Procs, w \in Pages : <<q, w>> # <<p, v>> => Counted(q, w)' = Counted(q, w),
           refcount'[f] = refcount[f] + 1,
           \A g \in Frames \ {f} : refcount'[g] = refcount[g]
    PROVE  RefcountExact'
<1> DEFINE r == <<p, v>>
<1>1. References(f)' = References(f) \cup {r} /\ r \notin References(f)
    BY DEF References
<1>2. ASSUME NEW g \in Frames \ {f} PROVE References(g)' = References(g)
    BY DEF References
<1>3. IsFiniteSet(References(f))
    BY ReferencesFinite DEF References
<1>4. Cardinality(References(f)') = Cardinality(References(f)) + 1
    BY <1>1, <1>3, FS_AddElement
<1> QED BY <1>2, <1>4 DEF RefcountExact

(* A step that takes one reference from f and one off its count.           *)
LEMMA CountsLoss ==
    ASSUME NEW f \in Frames, NEW p \in Procs, NEW v \in Pages,
           RefcountExact, NONE \notin Frames,
           Counted(p, v) = f, Counted(p, v)' = NONE,
           \A q \in Procs, w \in Pages : <<q, w>> # <<p, v>> => Counted(q, w)' = Counted(q, w),
           refcount'[f] = refcount[f] - 1,
           \A g \in Frames \ {f} : refcount'[g] = refcount[g]
    PROVE  RefcountExact'
<1> DEFINE r == <<p, v>>
<1>1. References(f)' = References(f) \ {r} /\ r \in References(f)
    BY DEF References
<1>2. ASSUME NEW g \in Frames \ {f} PROVE References(g)' = References(g)
    BY DEF References
<1>3. IsFiniteSet(References(f))
    BY ReferencesFinite DEF References
<1>4. Cardinality(References(f)') = Cardinality(References(f)) - 1
    BY <1>1, <1>3, FS_RemoveElement
<1> QED BY <1>2, <1>4 DEF RefcountExact

(* What is counted is counted at least once.                              *)
LEMMA CountedOnce ==
    ASSUME RefcountExact, NEW p \in Procs, NEW v \in Pages, Counted(p, v) \in Frames
    PROVE  refcount[Counted(p, v)] \in Nat \ {0}
<1> DEFINE f == Counted(p, v)
<1>1. <<p, v>> \in References(f)
    BY DEF References
<1>2. IsFiniteSet(References(f))
    BY ReferencesFinite DEF References
<1>3. Cardinality(References(f)) \in Nat \ {0}
    BY <1>1, <1>2, FS_CardinalityType, FS_EmptySet
<1> QED BY <1>3 DEF RefcountExact

(* No count is negative.                                                   *)
LEMMA CountIsNat ==
    ASSUME RefcountExact
    PROVE  \A f \in Frames : refcount[f] \in Nat
<1> SUFFICES ASSUME NEW f \in Frames PROVE refcount[f] \in Nat
    OBVIOUS
<1>1. IsFiniteSet(References(f))
    BY ReferencesFinite DEF References
<1> QED BY <1>1, FS_CardinalityType DEF RefcountExact

(* What is free is not counted at all.                                     *)
LEMMA FreeUnreferenced ==
    ASSUME TypeOK, RefcountExact, FreeCount
    PROVE  FreeMeansUnreferenced
<1> SUFFICES ASSUME NEW f \in freelist PROVE References(f) = {}
    BY DEF FreeMeansUnreferenced
<1>1. f \in Frames
    BY DEF TypeOK
<1>2. Cardinality(References(f)) = 0
    BY <1>1 DEF RefcountExact, FreeCount
<1>3. IsFiniteSet(References(f))
    BY ReferencesFinite DEF References
<1> QED BY <1>2, <1>3, FS_EmptySet

----------------------------------------------------------------------------
(* Only an embryo has an entry that is not yet counted.                    *)
EmbryosOnly == \A q \in Procs, w \in Pages : NotYetCounted(q, w) => state[q] = "EMBRYO"

(* Only an embryo has an entry that is not yet counted.                    *)
LEMMA NotYetCountedIsEmbryo == Slots => EmbryosOnly
BY DEF Slots, EmbryosOnly, NotYetCounted, InFork

(* While nobody enters or leaves the gap between mappages and              *)
(* increase_refcount, the same entries are not yet counted.                *)
LEMMA NotYetSame ==
    ASSUME NEW p \in Procs, pc[p] # "incref", pc'[p] # "incref",
           \A q \in Procs : q # p => pc'[q] = pc[q] /\ np'[q] = np[q] /\ va'[q] = va[q]
    PROVE  \A q \in Procs, w \in Pages : NotYetCounted(q, w)' <=> NotYetCounted(q, w)
BY DEF NotYetCounted

(* A step of p outside the fault handler and that gap changes a reference  *)
(* only where it changes a page-table entry.                               *)
LEMMA QuietStep ==
    ASSUME NEW p \in Procs,
           pc[p] \notin {"incref", "fault_alloc", "fault_copy"},
           pc'[p] \notin {"incref", "fault_alloc", "fault_copy"},
           \A q \in Procs : q # p => pc'[q] = pc[q] /\ np'[q] = np[q] /\ va'[q] = va[q] /\ mem'[q] = mem[q],
           NEW q \in Procs, NEW w \in Pages,
           pte'[q][w] = NONE <=> pte[q][w] = NONE,
           pte[q][w] # NONE => pte'[q][w].pa = pte[q][w].pa
    PROVE  Counted(q, w)' = Counted(q, w)
<1>1. NotYetCounted(q, w)' <=> NotYetCounted(q, w)
    BY NotYetSame
<1>2. CASE q = p
    BY <1>1, <1>2 DEF Counted
<1>3. CASE q # p
    BY <1>1, <1>3 DEF Counted
<1> QED BY <1>2, <1>3

(* In user mode and in fork before it counts, a process's own entries are  *)
(* counted.                                                                *)
LEMMA OwnCounted ==
    ASSUME Slots, NEW q \in Procs, NEW w \in Pages,
           pte[q][w] # NONE, ~NotYetCounted(q, w), pc[q] \notin {"fault_alloc", "fault_copy"}
    PROVE  Counted(q, w) = pte[q][w].pa
BY DEF Counted

(* The types of what the actions index with.                               *)
LEMMA Ranges ==
    ASSUME TypeOK
    PROVE  /\ \A p \in Procs : sz[p] \in 0 .. NPAGES /\ va[p] \in 0 .. NPAGES
           /\ \A p \in Procs : np[p] # NONE => np[p] \in Procs
           /\ \A p \in Procs : mem[p] # NONE => mem[p] \in Frames
           /\ \A p \in Procs, v \in Pages : pte[p][v] # NONE =>
                 pte[p][v] \in PTE /\ pte[p][v].pa \in Frames
           /\ \A f \in Frames : refcount[f] \in Int
<1>1. \A p \in Procs : sz[p] \in 0 .. NPAGES /\ va[p] \in 0 .. NPAGES
    BY DEF TypeOK
<1>2. \A p \in Procs : np[p] # NONE => np[p] \in Procs
    BY DEF TypeOK
<1>3. \A p \in Procs : mem[p] # NONE => mem[p] \in Frames
    BY DEF TypeOK
<1>4. \A p \in Procs, v \in Pages : pte[p][v] # NONE => pte[p][v] \in PTE
    BY DEF TypeOK
<1>5. \A e \in PTE : e.pa \in Frames
    BY DEF PTE
<1>6. \A f \in Frames : refcount[f] \in Int
    BY DEF TypeOK
<1> QED BY <1>1, <1>2, <1>3, <1>4, <1>5, <1>6

(* The page fork is about to count is mapped in parent and child.          *)
LEMMA IncrefMapped ==
    ASSUME TypeOK, Slots, Maps, NEW q \in Procs, pc[q] = "incref"
    PROVE  va[q] \in Pages /\ pte[q][va[q]] # NONE /\ np[q] \in Procs /\ pte[np[q]][va[q]] # NONE
<1>1. va[q] \in Pages
    BY Ranges, CoWAssumption DEF Maps, ForkMaps, Pages
<1> QED BY <1>1, Ranges DEF Maps, LiveMaps, ForkMaps, Slots, InFork

----------------------------------------------------------------------------
(* One lemma per action: it preserves the inductive invariant.             *)

(* Exit, called or forced by a fault, keeps the inductive invariant.       *)
LEMMA ExitInductive ==
    ASSUME CoWIInv, NEW p \in Procs, Running(p, "user"), exit(p)
    PROVE  CoWIInv'
<1> USE CoWAssumption DEF CoWIInv, Running
<1>1. /\ \A q \in Procs : q # p => state'[q] = state[q]
      /\ state[p] = "RUNNABLE" /\ state'[p] = "ZOMBIE" /\ pc[p] = "user"
      /\ UNCHANGED <<kmem, uvm, local, oops>>
    BY DEF exit, TypeOK
<1>2. UNCHANGED <<freelist, refcount, data, pte, sz, tlb, pc, np, va, mem, oops>>
    BY <1>1 DEF kmem, uvm, local
<1>3. TypeOK'
    <2>1. state' \in [Procs -> States]
        BY DEF exit, TypeOK, States
    <2>2. parent' \in [Procs -> Procs \cup {NONE}]
        BY DEF exit, TypeOK
    <2> QED BY <1>2, <2>1, <2>2 DEF TypeOK
<1>4. Slots'
    BY <1>1, <1>2, Ranges DEF Slots, InFork
<1>5. Maps'
    <2>1. LiveMaps'
        BY <1>1, <1>2, Ranges DEF Maps, LiveMaps
    <2>2. FaultMaps'
        BY <1>1, <1>2, Ranges DEF Maps, FaultMaps, LiveMaps, InFault
    <2>3. ForkMaps'
        BY <1>1, <1>2, Ranges DEF Maps, ForkMaps, LiveMaps, Slots, InFork
    <2> QED BY <2>1, <2>2, <2>3 DEF Maps
<1>6. RefcountExact'
    <2>1. \A q \in Procs, w \in Pages : Counted(q, w)' = Counted(q, w)
        BY <1>1, <1>2, QuietStep
    <2> QED BY <1>2, <2>1, CountsSame
<1>7. FreeCount' /\ NoPanic'
    BY <1>2 DEF FreeCount, NoPanic
<1> QED BY <1>3, <1>4, <1>5, <1>6, <1>7

(* A program's write to its page keeps the inductive invariant.            *)
LEMMA WriteInductive ==
    ASSUME CoWIInv, NEW p \in Procs, NEW v \in Pages, NEW x \in Vals, user_write(p, v, x)
    PROVE  CoWIInv'
<1> USE CoWAssumption DEF CoWIInv
<1>1. UNCHANGED <<freelist, refcount, pte, sz, state, parent, pc, np, va, mem, oops>>
    BY DEF user_write, proc, local
<1>2. TypeOK'
    <2>1. pte[p][v] # NONE
        BY DEF user_write, Writable
    <2>2. data' \in [Frames -> Contents]
        BY <2>1, Ranges DEF user_write, TypeOK, Contents
    <2>3. tlb' \in [Procs -> SUBSET Pages]
        BY DEF user_write, TypeOK
    <2> QED BY <1>1, <2>2, <2>3 DEF TypeOK
<1>3. Slots' /\ Maps'
    BY <1>1 DEF Slots, Maps, LiveMaps, FaultMaps, ForkMaps
<1>4. RefcountExact'
    <2>1. \A q \in Procs, w \in Pages : Counted(q, w)' = Counted(q, w)
        BY <1>1 DEF Counted, NotYetCounted
    <2> QED BY <1>1, <2>1, CountsSame
<1>5. FreeCount' /\ NoPanic'
    BY <1>1 DEF FreeCount, NoPanic
<1> QED BY <1>2, <1>3, <1>4, <1>5

(* The entry the fault handler installs: the same frame, now writable.     *)
LEMMA MadeWritable ==
    ASSUME TypeOK, NEW p \in Procs, NEW v \in Pages, NEW e \in PTE, make_writable(p, v, e)
    PROVE  /\ pte' \in [Procs -> [Pages -> PTE \cup {NONE}]]
           /\ tlb' \in [Procs -> SUBSET Pages]
           /\ pte'[p][v] # NONE /\ pte'[p][v].pa = e.pa /\ pte'[p][v].W /\ tlb'[p] = {}
           /\ \A q \in Procs, w \in Pages : <<q, w>> # <<p, v>> => pte'[q][w] = pte[q][w]
           /\ \A q \in Procs : q # p => tlb'[q] = tlb[q]
           /\ sz' = sz
<1> DEFINE n == [e EXCEPT !.CoW = FALSE, !.W = TRUE]
<1>1. n \in PTE /\ n.pa = e.pa /\ n.W
    BY DEF PTE
<1>2. n # NONE
    BY <1>1, CoWAssumption
<1>3. pte' = [pte EXCEPT ![p][v] = n]
    BY DEF make_writable
<1> HIDE DEF n
<1>4. pte'[p][v] = n /\ \A q \in Procs, w \in Pages : <<q, w>> # <<p, v>> => pte'[q][w] = pte[q][w]
    BY <1>3 DEF TypeOK
<1>5. pte' \in [Procs -> [Pages -> PTE \cup {NONE}]]
    BY <1>1, <1>3 DEF TypeOK
<1>6. /\ tlb' \in [Procs -> SUBSET Pages] /\ tlb'[p] = {} /\ sz' = sz
      /\ \A q \in Procs : q # p => tlb'[q] = tlb[q]
    BY DEF make_writable, TypeOK
<1> QED BY <1>1, <1>2, <1>4, <1>5, <1>6

(* The handler's first look at a copy-on-write page keeps the inductive    *)
(* invariant.                                                              *)
LEMMA FaultGetInductive ==
    ASSUME CoWIInv, NEW p \in Procs, NEW v \in Pages, v # Far, fault_get(p, v)
    PROVE  CoWIInv'
<1> USE CoWAssumption DEF CoWIInv
<1>1. /\ UNCHANGED <<freelist, refcount, data, state, parent, np, mem, oops>>
      /\ pc[p] = "user" /\ state[p] = "RUNNABLE" /\ pte[p][v] # NONE
    BY DEF fault_get, kmem, proc, Running, faults_as_CoW
<1>2. /\ sz' = sz /\ tlb' \in [Procs -> SUBSET Pages]
      /\ pte' \in [Procs -> [Pages -> PTE \cup {NONE}]]
      /\ \A q \in Procs, w \in Pages : /\ pte'[q][w] = NONE <=> pte[q][w] = NONE
                                       /\ pte[q][w] # NONE => pte'[q][w].pa = pte[q][w].pa
    <2>1. CASE make_writable(p, v, pte[p][v])
        BY <1>1, <2>1, MadeWritable, Ranges
    <2>2. CASE UNCHANGED uvm
        BY <2>2 DEF uvm, TypeOK
    <2> QED BY <2>1, <2>2 DEF fault_get
<1>3. /\ \A q \in Procs : q # p => pc'[q] = pc[q] /\ va'[q] = va[q]
      /\ (pc'[p] = "fault_dec" /\ va'[p] = v) \/ (pc'[p] = "user" /\ va'[p] = va[p])
    BY <1>1 DEF fault_get, Goto, TypeOK
<1>4. TypeOK'
    <2>1. pc' \in [Procs -> {"user", "copyuvm", "incref", "bad", "reap",
                             "fault_dec", "fault_alloc", "fault_copy"}]
        BY DEF fault_get, Goto, TypeOK
    <2>2. v \in 0 .. NPAGES
        BY DEF Pages
    <2>3. va' \in [Procs -> 0 .. NPAGES]
        BY <2>2 DEF fault_get, TypeOK
    <2> QED BY <1>1, <1>2, <2>1, <2>3 DEF TypeOK
<1>5. Slots'
    BY <1>1, <1>3, Ranges DEF Slots, InFork
<1>6. Maps'
    <2>1. LiveMaps'
        BY <1>1, <1>2, <1>3, Ranges DEF Maps, LiveMaps
    <2>2. FaultMaps'
        <3>1. va[p] = 0 /\ v \in Pages /\ pte'[p][v] # NONE
            BY <1>1, <1>2 DEF Maps, FaultMaps
        <3>2. ASSUME NEW q \in Procs, pc'[q] = "user" PROVE va'[q] = 0
            BY <1>1, <1>3, <3>1, <3>2 DEF Maps, FaultMaps
        <3>3. ASSUME NEW q \in Procs, pc'[q] \in InFault PROVE va'[q] \in Pages /\ pte'[q][va'[q]] # NONE
            BY <1>2, <1>3, <3>1, <3>3 DEF Maps, FaultMaps, InFault
        <3> QED BY <3>2, <3>3 DEF FaultMaps
    <2>3. ForkMaps'
        <3>1. ASSUME NEW q \in Procs, pc'[q] \in {"copyuvm", "incref"}
              PROVE  q # p /\ np[q] \in Procs /\ va'[q] = va[q] /\ pc[q] = pc'[q]
            BY <1>1, <1>3, <3>1, Ranges DEF Slots, InFork
        <3>2. ASSUME NEW q \in Procs, pc[q] = "incref"
              PROVE  va[q] \in Pages /\ pte[q][va[q]] # NONE /\ pte[np[q]][va[q]] # NONE
            BY <3>2, IncrefMapped
        <3>3. ASSUME NEW q \in Procs, pc'[q] = "copyuvm"
              PROVE  va'[q] <= sz'[q] /\ \A u \in Pages : pte'[np'[q]][u] # NONE <=> u < va'[q]
            BY <1>1, <1>2, <3>1, <3>3 DEF Maps, ForkMaps
        <3>4. ASSUME NEW q \in Procs, pc'[q] = "incref"
              PROVE  /\ va'[q] < sz'[q]
                     /\ pte'[np'[q]][va'[q]].pa = pte'[q][va'[q]].pa
                     /\ \A u \in Pages : pte'[np'[q]][u] # NONE <=> u <= va'[q]
            <4>1. /\ pc[q] = "incref" /\ np[q] \in Procs /\ va'[q] = va[q] /\ va[q] \in Pages
                  /\ pte[q][va[q]] # NONE /\ pte[np[q]][va[q]] # NONE
                BY <3>1, <3>2, <3>4
            <4>2. va[q] < sz[q] /\ pte[np[q]][va[q]].pa = pte[q][va[q]].pa
                  /\ \A u \in Pages : pte[np[q]][u] # NONE <=> u <= va[q]
                BY <4>1 DEF Maps, ForkMaps
            <4>3. pte'[q][va[q]].pa = pte[q][va[q]].pa /\ pte'[np[q]][va[q]].pa = pte[np[q]][va[q]].pa
                BY <1>2, <4>1
            <4>4. \A u \in Pages : pte'[np[q]][u] = NONE <=> pte[np[q]][u] = NONE
                BY <1>2, <4>1
            <4>5. sz' = sz /\ np' = np
                BY <1>1, <1>2
            <4> QED BY <4>1, <4>2, <4>3, <4>4, <4>5
        <3> QED BY <3>3, <3>4 DEF ForkMaps
    <2> QED BY <2>1, <2>2, <2>3 DEF Maps
<1>7. RefcountExact'
    <2>1. \A q \in Procs, w \in Pages : Counted(q, w)' = Counted(q, w)
        BY <1>1, <1>2, <1>3, QuietStep
    <2> QED BY <1>1, <2>1, CountsSame
<1>8. FreeCount' /\ NoPanic'
    BY <1>1 DEF FreeCount, NoPanic
<1> QED BY <1>4, <1>5, <1>6, <1>7, <1>8

(* The handler's decrease_refcount keeps the inductive invariant.          *)
LEMMA FaultDecInductive ==
    ASSUME CoWIInv, NEW p \in Procs, fault_dec(p)
    PROVE  CoWIInv'
<1> USE CoWAssumption DEF CoWIInv
<1>0. pc[p] = "fault_dec" /\ state[p] = "RUNNABLE"
    BY DEF fault_dec, Running
<1>2. PICK v \in Pages : v = va[p] /\ pte[p][v] # NONE /\ mem[p] = NONE
    BY <1>0 DEF Maps, FaultMaps, Slots, InFault
<1>3. PICK f \in Frames : f = pte[p][v].pa
    BY <1>2, Ranges
<1>1. /\ UNCHANGED <<freelist, data, pte, sz, tlb, state, parent, np, va, mem, oops>>
      /\ pc[p] = "fault_dec" /\ state[p] = "RUNNABLE"
      /\ refcount' = [refcount EXCEPT ![f] = @ - 1]
      /\ pc' = [pc EXCEPT ![p] = "fault_alloc"]
    BY <1>0, <1>2, <1>3 DEF fault_dec, decrease_refcount, uvm, proc, Goto
<1>4. /\ pc'[p] = "fault_alloc" /\ \A q \in Procs : q # p => pc'[q] = pc[q]
      /\ refcount'[f] = refcount[f] - 1 /\ \A g \in Frames \ {f} : refcount'[g] = refcount[g]
    BY <1>1, <1>3 DEF TypeOK
<1>5. TypeOK'
    <2>1. pc' \in [Procs -> {"user", "copyuvm", "incref", "bad", "reap",
                             "fault_dec", "fault_alloc", "fault_copy"}]
        BY <1>1 DEF TypeOK
    <2>2. refcount' \in [Frames -> Int]
        BY <1>1, <1>3 DEF TypeOK
    <2> QED BY <1>1, <2>1, <2>2 DEF TypeOK
<1>6. Slots'
    BY <1>1, <1>4, Ranges DEF Slots, InFork
<1>7. Maps'
    <2>1. LiveMaps'
        BY <1>1, <1>2, <1>4, Ranges DEF Maps, LiveMaps
    <2>2. FaultMaps'
        BY <1>1, <1>2, <1>4, Ranges DEF Maps, FaultMaps, LiveMaps, InFault
    <2>3. ForkMaps'
        BY <1>1, <1>2, <1>4, Ranges DEF Maps, ForkMaps, LiveMaps, Slots, InFork
    <2> QED BY <2>1, <2>2, <2>3 DEF Maps
<1>8. RefcountExact'
    <2>1. \A q \in Procs, w \in Pages : NotYetCounted(q, w)' <=> NotYetCounted(q, w)
        BY <1>1, <1>4, NotYetSame
    <2>2. ~NotYetCounted(p, v)
        BY <1>1, <1>2, NotYetCountedIsEmbryo DEF EmbryosOnly
    <2>3. Counted(p, v) = f
        BY <1>1, <1>2, <1>3, <2>2 DEF Counted
    <2>4. Counted(p, v)' = NONE
        BY <1>1, <1>2, <1>4 DEF Counted
    <2>5. ASSUME NEW q \in Procs, NEW w \in Pages, <<q, w>> # <<p, v>>
          PROVE  Counted(q, w)' = Counted(q, w)
        BY <1>1, <1>2, <1>4, <2>1, <2>5 DEF Counted
    <2> QED BY <1>2, <1>3, <1>4, <2>3, <2>4, <2>5, CountsLoss
<1>9. FreeCount'
    <2>1. refcount[f] \in Nat \ {0}
        <3>1. Counted(p, v) = f
            BY <1>1, <1>2, <1>3, NotYetCountedIsEmbryo DEF EmbryosOnly, Counted
        <3> QED BY <1>2, <1>3, <3>1, CountedOnce
    <2>2. f \notin freelist
        BY <2>1 DEF FreeCount
    <2> QED BY <1>1, <1>4, <2>2 DEF FreeCount, TypeOK
<1>10. NoPanic'
    BY <1>1 DEF NoPanic
<1> QED BY <1>5, <1>6, <1>7, <1>8, <1>9, <1>10

(* kalloc's panic is not reached: the frame it takes has count zero.       *)
LEMMA KallocTakes ==
    ASSUME TypeOK, FreeCount, NEW f \in Frames, NEW c \in Contents, kalloc(f, c)
    PROVE  /\ freelist' \subseteq freelist /\ f \notin freelist' /\ f \in freelist
           /\ refcount' \in [Frames -> Int] /\ data' \in [Frames -> Contents]
           /\ refcount'[f] = refcount[f] + 1 /\ \A g \in Frames \ {f} : refcount'[g] = refcount[g]
           /\ oops' = oops /\ FreeCount'
<1>1. refcount[f] = 0
    BY DEF kalloc, FreeCount
<1>2. freelist' = freelist \ {f} /\ f \in freelist /\ oops' = oops
    BY <1>1 DEF kalloc
<1>3. refcount' \in [Frames -> Int] /\ refcount'[f] = 1 /\ \A g \in Frames \ {f} : refcount'[g] = refcount[g]
    <2>1. refcount \in [Frames -> Int]
        BY DEF TypeOK
    <2>2. refcount' = [refcount EXCEPT ![f] = 1]
        BY DEF kalloc
    <2> QED BY <2>1, <2>2
<1>4. data' \in [Frames -> Contents]
    BY DEF kalloc, TypeOK
<1>5. FreeCount'
    BY <1>2, <1>3 DEF FreeCount, TypeOK
<1> QED BY <1>1, <1>2, <1>3, <1>4, <1>5

(* The handler's kalloc, also when memory is full, keeps the inductive     *)
(* invariant.                                                              *)
LEMMA FaultAllocInductive ==
    ASSUME CoWIInv, NEW p \in Procs, fault_alloc(p)
    PROVE  CoWIInv'
<1> USE CoWAssumption DEF CoWIInv
<1>1. /\ UNCHANGED <<pte, sz, tlb, state, parent, np, va>>
      /\ pc[p] = "fault_alloc" /\ state[p] = "RUNNABLE"
    BY DEF fault_alloc, uvm, proc, Running
<1>2. PICK v \in Pages : v = va[p] /\ pte[p][v] # NONE /\ mem[p] = NONE
    BY <1>1 DEF Maps, FaultMaps, Slots, InFault
<1>3. ASSUME NEW f \in Frames, kalloc(f, Junk), mem' = [mem EXCEPT ![p] = f], Goto(p, "fault_copy")
      PROVE  CoWIInv'
    <2> Junk \in Contents
        BY DEF Contents
    <2>1. /\ freelist' \subseteq freelist /\ f \notin freelist' /\ f \in freelist
          /\ refcount' \in [Frames -> Int] /\ data' \in [Frames -> Contents]
          /\ refcount'[f] = refcount[f] + 1 /\ \A g \in Frames \ {f} : refcount'[g] = refcount[g]
          /\ oops' = oops /\ FreeCount'
        BY <1>3, KallocTakes
    <2>2. /\ pc'[p] = "fault_copy" /\ mem'[p] = f
          /\ \A q \in Procs : q # p => pc'[q] = pc[q] /\ mem'[q] = mem[q]
        BY <1>3 DEF TypeOK, Goto
    <2>3. TypeOK'
        <3>1. pc' \in [Procs -> {"user", "copyuvm", "incref", "bad", "reap",
                                 "fault_dec", "fault_alloc", "fault_copy"}]
            BY <1>3 DEF TypeOK, Goto
        <3>2. mem' \in [Procs -> Frames \cup {NONE}]
            BY <1>3 DEF TypeOK
        <3>3. freelist' \subseteq Frames
            BY <2>1 DEF TypeOK
        <3> QED BY <1>1, <2>1, <3>1, <3>2, <3>3 DEF TypeOK
    <2>4. Slots'
        BY <1>1, <2>2, Ranges DEF Slots, InFork
    <2>5. Maps'
        <3>1. LiveMaps'
            BY <1>1, <1>2, <2>2, Ranges DEF Maps, LiveMaps
        <3>2. FaultMaps'
            BY <1>1, <1>2, <2>2, Ranges DEF Maps, FaultMaps, LiveMaps, InFault
        <3>3. ForkMaps'
            BY <1>1, <1>2, <2>2, Ranges DEF Maps, ForkMaps, LiveMaps, Slots, InFork
        <3> QED BY <3>1, <3>2, <3>3 DEF Maps
    <2>6. RefcountExact'
        <3>1. \A q \in Procs, w \in Pages : NotYetCounted(q, w)' <=> NotYetCounted(q, w)
            BY <1>1, <2>2, NotYetSame
        <3>2. Counted(p, v) = NONE
            BY <1>1, <1>2 DEF Counted
        <3>3. Counted(p, v)' = f
            BY <1>1, <1>2, <2>2 DEF Counted
        <3>4. ASSUME NEW q \in Procs, NEW w \in Pages, <<q, w>> # <<p, v>>
              PROVE  Counted(q, w)' = Counted(q, w)
            BY <1>1, <1>2, <2>2, <3>1, <3>4 DEF Counted
        <3> QED BY <1>2, <2>1, <3>2, <3>3, <3>4, CountsGain
    <2>7. NoPanic'
        BY <2>1 DEF NoPanic
    <2> QED BY <2>1, <2>3, <2>4, <2>5, <2>6, <2>7
<1>4. ASSUME oops' = "null frame used", UNCHANGED <<kmem, mem, pc>> PROVE CoWIInv'
    <2>1. UNCHANGED <<freelist, refcount, data, pte, sz, tlb, state, parent, pc, np, va, mem>>
        BY <1>1, <1>4 DEF kmem
    <2>8. oops' \in NullUses
        BY <1>4 DEF NullUses
    <2>2. TypeOK'
        BY <2>1, <2>8 DEF TypeOK
    <2>6. Slots' /\ FreeCount'
        BY <2>1 DEF Slots, FreeCount
    <2>7. Maps'
        BY <2>1 DEF Maps, LiveMaps, FaultMaps, ForkMaps
    <2>3. \A q \in Procs, w \in Pages : Counted(q, w)' = Counted(q, w)
        BY <2>1 DEF Counted, NotYetCounted
    <2>4. RefcountExact'
        BY <2>1, <2>3, CountsSame
    <2>5. NoPanic'
        BY <1>4 DEF NoPanic, Panics
    <2> QED BY <2>2, <2>4, <2>5, <2>6, <2>7
<1> QED BY <1>3, <1>4 DEF fault_alloc

(* The handler's copy and new entry keeps the inductive invariant.         *)
LEMMA FaultCopyInductive ==
    ASSUME CoWIInv, NEW p \in Procs, fault_copy(p)
    PROVE  CoWIInv'
<1> USE CoWAssumption DEF CoWIInv
<1>0. pc[p] = "fault_copy" /\ state[p] = "RUNNABLE"
    BY DEF fault_copy, Running
<1>1. PICK v \in Pages : v = va[p] /\ pte[p][v] # NONE
    BY <1>0 DEF Maps, FaultMaps, InFault
<1>2. PICK f \in Frames : f = mem[p]
    BY <1>0, Ranges DEF Slots
<1>3. /\ UNCHANGED <<freelist, refcount, state, parent, np, oops>>
      /\ data' = [data EXCEPT ![f] = data[pte[p][v].pa]]
      /\ mem' = [mem EXCEPT ![p] = NONE] /\ va' = [va EXCEPT ![p] = 0]
      /\ pc' = [pc EXCEPT ![p] = "user"]
    BY <1>1, <1>2 DEF fault_copy, proc, Goto
<1>4. /\ pte' \in [Procs -> [Pages -> PTE \cup {NONE}]]
      /\ tlb' \in [Procs -> SUBSET Pages]
      /\ pte'[p][v] # NONE /\ pte'[p][v].pa = f
      /\ \A q \in Procs, w \in Pages : <<q, w>> # <<p, v>> => pte'[q][w] = pte[q][w]
      /\ sz' = sz
    <2> DEFINE e == [pa |-> f, W |-> FALSE, CoW |-> FALSE, U |-> TRUE]
    <2>1. e \in PTE /\ e.pa = f
        BY DEF PTE
    <2>2. make_writable(p, v, e)
        BY <1>1, <1>2 DEF fault_copy
    <2> HIDE DEF e
    <2> QED BY <2>1, <2>2, MadeWritable
<1>5. /\ pc'[p] = "user" /\ mem'[p] = NONE /\ va'[p] = 0
      /\ \A q \in Procs : q # p => pc'[q] = pc[q] /\ mem'[q] = mem[q] /\ va'[q] = va[q]
    BY <1>3 DEF TypeOK
<1>6. TypeOK'
    <2>1. pc' \in [Procs -> {"user", "copyuvm", "incref", "bad", "reap",
                             "fault_dec", "fault_alloc", "fault_copy"}]
        BY <1>3 DEF TypeOK
    <2>2. va' \in [Procs -> 0 .. NPAGES]
        <3>1. va \in [Procs -> 0 .. NPAGES]
            BY DEF TypeOK
        <3>2. 0 \in 0 .. NPAGES
            OBVIOUS
        <3> QED BY <1>3, <3>1, <3>2
    <2>3. mem' \in [Procs -> Frames \cup {NONE}]
        BY <1>3 DEF TypeOK
    <2>4. data' \in [Frames -> Contents]
        BY <1>1, <1>3, Ranges DEF TypeOK
    <2> QED BY <1>3, <1>4, <2>1, <2>2, <2>3, <2>4 DEF TypeOK
<1>7. Slots'
    BY <1>0, <1>3, <1>5, Ranges DEF Slots, InFork
<1>8. ASSUME NEW q \in Procs PROVE \A w \in Pages : pte'[q][w] = NONE <=> pte[q][w] = NONE
    BY <1>1, <1>4
<1>9. Maps'
    <2>1. LiveMaps'
        BY <1>3, <1>4, <1>8 DEF Maps, LiveMaps
    <2>2. FaultMaps'
        <3>1. ASSUME NEW q \in Procs, pc'[q] = "user" PROVE va'[q] = 0
            BY <1>5, <3>1 DEF Maps, FaultMaps
        <3>2. ASSUME NEW q \in Procs, pc'[q] \in InFault PROVE va'[q] \in Pages /\ pte'[q][va'[q]] # NONE
            BY <1>5, <1>8, <3>2 DEF Maps, FaultMaps, InFault
        <3> QED BY <3>1, <3>2 DEF FaultMaps
    <2>3. ForkMaps'
        <3>1. ASSUME NEW q \in Procs, pc'[q] \in {"copyuvm", "incref"}
              PROVE  q # p /\ np[q] \in Procs /\ np[q] # p /\ va'[q] = va[q] /\ pc[q] = pc'[q]
            BY <1>0, <1>5, <3>1, Ranges DEF Slots, InFork
        <3>2. ASSUME NEW q \in Procs, pc'[q] \in {"copyuvm", "incref"}
              PROVE  \A u \in Pages : pte'[q][u] = pte[q][u] /\ pte'[np[q]][u] = pte[np[q]][u]
            BY <1>4, <3>1, <3>2
        <3>3. ASSUME NEW q \in Procs, pc'[q] = "copyuvm"
              PROVE  va'[q] <= sz'[q] /\ \A u \in Pages : pte'[np'[q]][u] # NONE <=> u < va'[q]
            BY <1>3, <1>4, <3>1, <3>2, <3>3 DEF Maps, ForkMaps
        <3>4. ASSUME NEW q \in Procs, pc'[q] = "incref"
              PROVE  /\ va'[q] < sz'[q]
                     /\ pte'[np'[q]][va'[q]].pa = pte'[q][va'[q]].pa
                     /\ \A u \in Pages : pte'[np'[q]][u] # NONE <=> u <= va'[q]
            <4>1. va[q] \in Pages /\ pc[q] = "incref"
                BY <3>1, <3>4, IncrefMapped
            <4>2. /\ va[q] < sz[q] /\ pte[np[q]][va[q]].pa = pte[q][va[q]].pa
                  /\ \A u \in Pages : pte[np[q]][u] # NONE <=> u <= va[q]
                BY <4>1 DEF Maps, ForkMaps
            <4>3. \A u \in Pages : pte'[q][u] = pte[q][u] /\ pte'[np[q]][u] = pte[np[q]][u]
                BY <3>2, <3>4
            <4>4. va'[q] = va[q] /\ sz' = sz /\ np' = np
                BY <1>3, <1>4, <3>1, <3>4
            <4> QED BY <4>1, <4>2, <4>3, <4>4
        <3> QED BY <3>3, <3>4 DEF ForkMaps
    <2> QED BY <2>1, <2>2, <2>3 DEF Maps
<1>10. RefcountExact'
    <2>1. \A q \in Procs, w \in Pages : NotYetCounted(q, w)' <=> NotYetCounted(q, w)
        BY <1>0, <1>3, <1>5, NotYetSame
    <2>2. ~NotYetCounted(p, v)
        BY <1>0, NotYetCountedIsEmbryo DEF EmbryosOnly
    <2>3. Counted(p, v) = f
        BY <1>0, <1>1, <1>2 DEF Counted
    <2>4. Counted(p, v)' = f
        BY <1>4, <1>5, <2>1, <2>2 DEF Counted
    <2>5. ASSUME NEW q \in Procs, NEW w \in Pages, <<q, w>> # <<p, v>>
          PROVE  Counted(q, w)' = Counted(q, w)
        BY <1>1, <1>4, <1>5, <2>1, <2>5 DEF Counted
    <2>6. \A q \in Procs, w \in Pages : Counted(q, w)' = Counted(q, w)
        BY <2>3, <2>4, <2>5
    <2> QED BY <1>3, <2>6, CountsSame
<1>11. FreeCount' /\ NoPanic'
    BY <1>3 DEF FreeCount, NoPanic
<1> QED BY <1>6, <1>7, <1>9, <1>10, <1>11

(* A fault without a page table keeps the inductive invariant.             *)
LEMMA FaultFarInductive ==
    ASSUME CoWIInv, NEW p \in Procs, fault_far(p)
    PROVE  CoWIInv'
<1> USE DEF CoWIInv
<1>1. UNCHANGED <<freelist, refcount, data, pte, sz, tlb, state, parent, pc, np, va, mem>>
      /\ oops' = "null pte used"
    BY DEF fault_far, kmem, uvm, proc, local
<1>2. TypeOK'
    BY <1>1 DEF TypeOK, NullUses
<1>3. Slots' /\ FreeCount'
    BY <1>1 DEF Slots, FreeCount
<1>4. Maps'
    BY <1>1 DEF Maps, LiveMaps, FaultMaps, ForkMaps
<1>5. RefcountExact'
    <2>1. \A q \in Procs, w \in Pages : Counted(q, w)' = Counted(q, w)
        BY <1>1 DEF Counted, NotYetCounted
    <2> QED BY <1>1, <2>1, CountsSame
<1>6. NoPanic'
    BY <1>1 DEF NoPanic, Panics
<1> QED BY <1>2, <1>3, <1>4, <1>5, <1>6

(* The start of fork keeps the inductive invariant.                        *)
LEMMA ForkInductive ==
    ASSUME CoWIInv, NEW p \in Procs, NEW c \in Procs, fork(p, c)
    PROVE  CoWIInv'
<1> USE CoWAssumption DEF CoWIInv
<1>1. /\ UNCHANGED <<freelist, refcount, data, pte, sz, tlb, parent, va, mem, oops>>
      /\ pc[p] = "user" /\ state[p] = "RUNNABLE" /\ state[c] = "UNUSED"
      /\ state' = [state EXCEPT ![c] = "EMBRYO"]
      /\ np' = [np EXCEPT ![p] = c]
      /\ pc' = [pc EXCEPT ![p] = "copyuvm"]
    BY DEF fork, kmem, uvm, Running, Goto
<1>2. /\ pc'[p] = "copyuvm" /\ np'[p] = c /\ state'[c] = "EMBRYO"
      /\ \A q \in Procs : q # p => pc'[q] = pc[q] /\ np'[q] = np[q]
      /\ \A q \in Procs : q # c => state'[q] = state[q]
    BY <1>1 DEF TypeOK
<1>3. TypeOK'
    <2>1. pc' \in [Procs -> {"user", "copyuvm", "incref", "bad", "reap",
                             "fault_dec", "fault_alloc", "fault_copy"}]
        BY <1>1 DEF TypeOK
    <2>2. np' \in [Procs -> Procs \cup {NONE}]
        BY <1>1 DEF TypeOK
    <2>3. state' \in [Procs -> States]
        BY <1>1 DEF TypeOK, States
    <2> QED BY <1>1, <2>1, <2>2, <2>3 DEF TypeOK
<1>4. Slots'
    BY <1>1, <1>2, Ranges DEF Slots, InFork
<1>5. Maps'
    <2>1. LiveMaps'
        BY <1>1, <1>2 DEF Maps, LiveMaps
    <2>2. FaultMaps'
        BY <1>1, <1>2 DEF Maps, FaultMaps, InFault
    <2>3. ForkMaps'
        <3>1. va[p] = 0 /\ \A u \in Pages : pte[c][u] = NONE
            BY <1>1 DEF Maps, FaultMaps, LiveMaps
        <3>2. \A u \in Pages : ~(u < 0)
            BY DEF Pages
        <3>3. 0 <= sz[p]
            BY Ranges
        <3>4. ASSUME NEW q \in Procs, pc'[q] = "copyuvm"
              PROVE  va'[q] <= sz'[q] /\ \A u \in Pages : pte'[np'[q]][u] # NONE <=> u < va'[q]
            <4>1. CASE q = p
                BY <1>1, <1>2, <3>1, <3>2, <3>3, <4>1
            <4>2. CASE q # p
                BY <1>1, <1>2, <3>4, <4>2 DEF Maps, ForkMaps
            <4> QED BY <4>1, <4>2
        <3>5. ASSUME NEW q \in Procs, pc'[q] = "incref"
              PROVE  /\ va'[q] < sz'[q]
                     /\ pte'[np'[q]][va'[q]].pa = pte'[q][va'[q]].pa
                     /\ \A u \in Pages : pte'[np'[q]][u] # NONE <=> u <= va'[q]
            BY <1>1, <1>2, <3>5 DEF Maps, ForkMaps
        <3> QED BY <3>4, <3>5 DEF ForkMaps
    <2> QED BY <2>1, <2>2, <2>3 DEF Maps
<1>6. RefcountExact'
    <2>1. \A q \in Procs, w \in Pages : Counted(q, w)' = Counted(q, w)
        BY <1>1, <1>2, QuietStep
    <2> QED BY <1>1, <2>1, CountsSame
<1>7. FreeCount' /\ NoPanic'
    BY <1>1 DEF FreeCount, NoPanic
<1> QED BY <1>3, <1>4, <1>5, <1>6, <1>7

(* Wait finding a zombie keeps the inductive invariant.                    *)
LEMMA WaitInductive ==
    ASSUME CoWIInv, NEW p \in Procs, NEW c \in Procs, wait(p, c)
    PROVE  CoWIInv'
<1> USE CoWAssumption DEF CoWIInv
<1>1. /\ UNCHANGED <<freelist, refcount, data, pte, sz, tlb, state, parent, va, mem, oops>>
      /\ pc[p] = "user" /\ state[p] = "RUNNABLE" /\ state[c] = "ZOMBIE" /\ ptable_unlocked
      /\ np' = [np EXCEPT ![p] = c]
      /\ pc' = [pc EXCEPT ![p] = "reap"]
    BY DEF wait, kmem, uvm, proc, Running, Goto
<1>2. /\ pc'[p] = "reap" /\ np'[p] = c
      /\ \A q \in Procs : q # p => pc'[q] = pc[q] /\ np'[q] = np[q]
    BY <1>1 DEF TypeOK
<1>3. TypeOK'
    <2>1. pc' \in [Procs -> {"user", "copyuvm", "incref", "bad", "reap",
                             "fault_dec", "fault_alloc", "fault_copy"}]
        BY <1>1 DEF TypeOK
    <2>2. np' \in [Procs -> Procs \cup {NONE}]
        BY <1>1 DEF TypeOK
    <2> QED BY <1>1, <2>1, <2>2 DEF TypeOK
<1>4. Slots'
    BY <1>1, <1>2, Ranges DEF Slots, InFork, ptable_unlocked
<1>5. Maps'
    BY <1>1, <1>2 DEF Maps, LiveMaps, FaultMaps, ForkMaps, InFault
<1>6. RefcountExact'
    <2>1. \A q \in Procs, w \in Pages : Counted(q, w)' = Counted(q, w)
        BY <1>1, <1>2, QuietStep
    <2> QED BY <1>1, <2>1, CountsSame
<1>7. FreeCount' /\ NoPanic'
    BY <1>1 DEF FreeCount, NoPanic
<1> QED BY <1>3, <1>4, <1>5, <1>6, <1>7

(* The entry copyuvm leaves in parent and child: the same frame, not       *)
(* writable.                                                               *)
LEMMA MarkedEntry ==
    ASSUME NEW e \in PTE
    PROVE  marked(e) \in PTE /\ marked(e).pa = e.pa /\ ~marked(e).W
BY DEF marked, PTE

(* Copyuvm's sharing of a page, also when mappages fails, keeps the        *)
(* inductive invariant.                                                    *)
LEMMA MapInductive ==
    ASSUME CoWIInv, NEW p \in Procs, copyuvm_map(p)
    PROVE  CoWIInv'
<1> USE CoWAssumption DEF CoWIInv
<1>1. /\ UNCHANGED <<freelist, refcount, data, sz, tlb, state, parent, np, va, mem>>
      /\ pc[p] = "copyuvm" /\ state[p] = "RUNNABLE" /\ va[p] < sz[p]
    BY DEF copyuvm_map, kmem, proc, Running
<1>2. PICK c \in Procs : c = np[p] /\ state[c] = "EMBRYO" /\ pc[c] = "user"
    BY <1>1, Ranges DEF Slots, InFork
<1>3. PICK v \in Pages : v = va[p]
    BY <1>1, Ranges DEF Pages
<1>4. pte[p][v] # NONE /\ pte[p][v] \in PTE /\ pte[c][v] = NONE /\ p # c
    BY <1>1, <1>2, <1>3, Ranges DEF Maps, LiveMaps, ForkMaps
<1>5. PICK m \in PTE : m = marked(pte[p][v]) /\ m.pa = pte[p][v].pa /\ m # NONE
    BY <1>4, MarkedEntry
<1>6. oops' = oops /\ ((pte' = [pte EXCEPT ![p][v] = m, ![c][v] = m] /\ pc' = [pc EXCEPT ![p] = "incref"])
                       \/ (pte' = [pte EXCEPT ![p][v] = m] /\ pc' = [pc EXCEPT ![p] = "bad"]))
    BY <1>2, <1>3, <1>4, <1>5 DEF copyuvm_map, Goto
<1>7. /\ pte'[p][v] = m
      /\ \A q \in Procs, w \in Pages : <<q, w>> # <<p, v>> /\ <<q, w>> # <<c, v>> => pte'[q][w] = pte[q][w]
      /\ (pc'[p] = "incref" /\ pte'[c][v] = m) \/ (pc'[p] = "bad" /\ pte'[c][v] = NONE)
      /\ \A q \in Procs : q # p => pc'[q] = pc[q]
    BY <1>4, <1>6 DEF TypeOK
<1>8. TypeOK'
    <2>1. pc' \in [Procs -> {"user", "copyuvm", "incref", "bad", "reap",
                             "fault_dec", "fault_alloc", "fault_copy"}]
        BY <1>6 DEF TypeOK
    <2>2. pte' \in [Procs -> [Pages -> PTE \cup {NONE}]]
        <3> DEFINE T == [Pages -> PTE \cup {NONE}]
                   A == [pte[p] EXCEPT ![v] = m]
                   B == [pte[c] EXCEPT ![v] = m]
        <3>1. pte \in [Procs -> T]
            BY DEF TypeOK
        <3>2. A \in T /\ B \in T
            BY <3>1
        <3>3. \E g : g = [pte EXCEPT ![p] = A] /\ (pte' = [g EXCEPT ![c] = B] \/ pte' = g)
            BY <1>4, <1>6, <3>1
        <3> HIDE DEF T, A, B
        <3>4. [pte EXCEPT ![p] = A] \in [Procs -> T]
            BY <3>1, <3>2
        <3>5. \A g \in [Procs -> T] : [g EXCEPT ![c] = B] \in [Procs -> T]
            BY <3>2
        <3>6. PICK g \in [Procs -> T] : pte' = [g EXCEPT ![c] = B] \/ pte' = g
            BY <3>3, <3>4
        <3>7. pte' \in [Procs -> T]
            BY <3>5, <3>6
        <3> QED BY <3>7 DEF T
    <2> QED BY <1>1, <1>6, <2>1, <2>2 DEF TypeOK
<1>9. Slots'
    BY <1>1, <1>7, Ranges DEF Slots, InFork
<1>10. Maps'
    <2>1. LiveMaps'
        BY <1>1, <1>2, <1>4, <1>5, <1>7 DEF Maps, LiveMaps
    <2>2. FaultMaps'
        BY <1>1, <1>2, <1>4, <1>5, <1>7 DEF Maps, FaultMaps, InFault
    <2>3. ForkMaps'
        <3>1. ASSUME NEW q \in Procs, q # p, pc'[q] \in {"copyuvm", "incref"}
              PROVE  /\ np[q] \in Procs /\ pc[q] = pc'[q]
                     /\ \A u \in Pages : pte'[q][u] = pte[q][u] /\ pte'[np[q]][u] = pte[np[q]][u]
            BY <1>1, <1>2, <1>7, <3>1, Ranges DEF Slots, InFork
        <3>2. ASSUME NEW q \in Procs, pc'[q] = "copyuvm"
              PROVE  va'[q] <= sz'[q] /\ \A u \in Pages : pte'[np'[q]][u] # NONE <=> u < va'[q]
            BY <1>1, <1>7, <3>1, <3>2 DEF Maps, ForkMaps
        <3>3. ASSUME NEW q \in Procs, pc'[q] = "incref"
              PROVE  /\ va'[q] < sz'[q]
                     /\ pte'[np'[q]][va'[q]].pa = pte'[q][va'[q]].pa
                     /\ \A u \in Pages : pte'[np'[q]][u] # NONE <=> u <= va'[q]
            <4>1. CASE q = p
                <5>1. \A u \in Pages : pte'[c][u] # NONE <=> u = v \/ pte[c][u] # NONE
                    BY <1>4, <1>5, <1>7, <3>3, <4>1
                <5>2. \A u \in Pages : pte[c][u] # NONE <=> u < v
                    BY <1>1, <1>2, <1>3 DEF Maps, ForkMaps
                <5>3. \A u \in Pages : pte'[c][u] # NONE <=> u <= v
                    BY <5>1, <5>2 DEF Pages
                <5> QED BY <1>1, <1>2, <1>3, <1>7, <3>3, <4>1, <5>3
            <4>2. CASE q # p
                <5>1. va[q] \in Pages /\ pc[q] = "incref"
                    BY <1>7, <3>3, <4>2, IncrefMapped
                <5> QED BY <1>1, <3>1, <3>3, <4>2, <5>1 DEF Maps, ForkMaps
            <4> QED BY <4>1, <4>2
        <3> QED BY <3>2, <3>3 DEF ForkMaps
    <2> QED BY <2>1, <2>2, <2>3 DEF Maps
<1>11. RefcountExact'
    <2>1. ASSUME NEW q \in Procs, NEW w \in Pages, <<q, w>> # <<c, v>>
          PROVE  NotYetCounted(q, w)' <=> NotYetCounted(q, w)
        BY <1>1, <1>2, <1>3, <1>7, <2>1 DEF NotYetCounted
    <2>2. pc'[p] = "incref" => NotYetCounted(c, v)'
        BY <1>1, <1>2, <1>3 DEF NotYetCounted
    <2>3. Counted(c, v)' = NONE
        BY <1>2, <1>4, <1>7, <2>2 DEF Counted
    <2>4. Counted(c, v) = NONE
        BY <1>2, <1>4 DEF Counted
    <2>5. ASSUME NEW q \in Procs, NEW w \in Pages, <<q, w>> # <<c, v>>
          PROVE  Counted(q, w)' = Counted(q, w)
        <3>1. pte'[q][w] = NONE <=> pte[q][w] = NONE
            BY <1>4, <1>5, <1>7, <2>5
        <3>2. pte'[q][w] # NONE => pte'[q][w].pa = pte[q][w].pa
            BY <1>4, <1>5, <1>7, <2>5
        <3>3. pc'[q] \in {"fault_alloc", "fault_copy"} <=> pc[q] \in {"fault_alloc", "fault_copy"}
            BY <1>1, <1>7
        <3> QED BY <1>1, <2>1, <2>5, <3>1, <3>2, <3>3 DEF Counted
    <2>6. \A q \in Procs, w \in Pages : Counted(q, w)' = Counted(q, w)
        BY <2>3, <2>4, <2>5
    <2> QED BY <1>1, <2>6, CountsSame
<1>12. FreeCount' /\ NoPanic'
    BY <1>1, <1>6 DEF FreeCount, NoPanic
<1> QED BY <1>8, <1>9, <1>10, <1>11, <1>12

(* Copyuvm's increase_refcount keeps the inductive invariant.              *)
LEMMA IncrefInductive ==
    ASSUME CoWIInv, NEW p \in Procs, copyuvm_incref(p)
    PROVE  CoWIInv'
<1> USE CoWAssumption DEF CoWIInv
<1>1. /\ UNCHANGED <<freelist, data, pte, sz, tlb, state, parent, np, mem, oops>>
      /\ pc[p] = "incref" /\ state[p] = "RUNNABLE"
    BY DEF copyuvm_incref, increase_refcount, uvm, proc, Running
<1>2. PICK c \in Procs : c = np[p] /\ state[c] = "EMBRYO" /\ pc[c] = "user"
    BY <1>1, Ranges DEF Slots, InFork
<1>3. PICK v \in Pages : v = va[p] /\ pte[p][v] # NONE /\ pte[c][v] # NONE /\ v < sz[p]
    BY <1>1, <1>2, IncrefMapped DEF Maps, ForkMaps
<1>4. PICK f \in Frames : f = pte[p][v].pa /\ f = pte[c][v].pa
    BY <1>1, <1>2, <1>3, Ranges DEF Maps, ForkMaps
<1>5. /\ refcount' = [refcount EXCEPT ![f] = @ + 1]
      /\ va' = [va EXCEPT ![p] = v + 1]
      /\ pc' = [pc EXCEPT ![p] = "copyuvm"]
    BY <1>3, <1>4 DEF copyuvm_incref, increase_refcount, Goto
<1>6. /\ pc'[p] = "copyuvm" /\ va'[p] = v + 1
      /\ \A q \in Procs : q # p => pc'[q] = pc[q] /\ va'[q] = va[q]
      /\ refcount'[f] = refcount[f] + 1 /\ \A g \in Frames \ {f} : refcount'[g] = refcount[g]
    BY <1>5 DEF TypeOK
<1>7. TypeOK'
    <2>1. pc' \in [Procs -> {"user", "copyuvm", "incref", "bad", "reap",
                             "fault_dec", "fault_alloc", "fault_copy"}]
        BY <1>5 DEF TypeOK
    <2>2. v + 1 \in 0 .. NPAGES
        BY DEF Pages
    <2>3. va' \in [Procs -> 0 .. NPAGES]
        <3>1. va \in [Procs -> 0 .. NPAGES]
            BY DEF TypeOK
        <3> QED BY <1>5, <2>2, <3>1
    <2>4. refcount' \in [Frames -> Int]
        BY <1>5 DEF TypeOK
    <2> QED BY <1>1, <2>1, <2>3, <2>4 DEF TypeOK
<1>8. Slots'
    BY <1>1, <1>6, Ranges DEF Slots, InFork
<1>9. Maps'
    <2>1. LiveMaps'
        BY <1>1 DEF Maps, LiveMaps
    <2>2. FaultMaps'
        BY <1>1, <1>6 DEF Maps, FaultMaps, InFault
    <2>3. ForkMaps'
        <3>1. ASSUME NEW q \in Procs, pc'[q] = "copyuvm"
              PROVE  va'[q] <= sz'[q] /\ \A u \in Pages : pte'[np'[q]][u] # NONE <=> u < va'[q]
            <4>1. CASE q = p
                <5>1. \A u \in Pages : pte[c][u] # NONE <=> u <= v
                    BY <1>1, <1>2, <1>3 DEF Maps, ForkMaps
                <5>2. \A u \in Pages : u <= v <=> u < v + 1
                    BY DEF Pages
                <5>3. v + 1 <= sz[p]
                    BY <1>3, Ranges DEF Pages
                <5> QED BY <1>1, <1>2, <1>6, <4>1, <5>1, <5>2, <5>3
            <4>2. CASE q # p
                BY <1>1, <1>6, <3>1, <4>2 DEF Maps, ForkMaps
            <4> QED BY <4>1, <4>2
        <3>2. ASSUME NEW q \in Procs, pc'[q] = "incref"
              PROVE  /\ va'[q] < sz'[q]
                     /\ pte'[np'[q]][va'[q]].pa = pte'[q][va'[q]].pa
                     /\ \A u \in Pages : pte'[np'[q]][u] # NONE <=> u <= va'[q]
            BY <1>1, <1>6, <3>2 DEF Maps, ForkMaps
        <3> QED BY <3>1, <3>2 DEF ForkMaps
    <2> QED BY <2>1, <2>2, <2>3 DEF Maps
<1>10. RefcountExact'
    <2>1. ASSUME NEW q \in Procs, NEW w \in Pages, <<q, w>> # <<c, v>>
          PROVE  NotYetCounted(q, w)' <=> NotYetCounted(q, w)
        BY <1>1, <1>2, <1>3, <1>6, <2>1 DEF NotYetCounted
    <2>2. NotYetCounted(c, v)
        BY <1>1, <1>2, <1>3 DEF NotYetCounted
    <2>3. ~NotYetCounted(c, v)'
        BY <1>1, <1>2, <1>6 DEF NotYetCounted, Slots
    <2>4. Counted(c, v) = NONE
        BY <1>2, <2>2 DEF Counted
    <2>5. Counted(c, v)' = f
        BY <1>1, <1>2, <1>3, <1>4, <1>6, <2>3 DEF Counted
    <2>6. ASSUME NEW q \in Procs, NEW w \in Pages, <<q, w>> # <<c, v>>
          PROVE  Counted(q, w)' = Counted(q, w)
        BY <1>1, <1>6, <2>1, <2>6 DEF Counted
    <2> QED BY <1>6, <2>4, <2>5, <2>6, CountsGain
<1>11. FreeCount'
    <2>1. Counted(p, v) = f
        BY <1>1, <1>3, <1>4, NotYetCountedIsEmbryo DEF EmbryosOnly, Counted
    <2>2. refcount[f] \in Nat \ {0}
        BY <2>1, CountedOnce
    <2>3. f \notin freelist
        BY <2>2 DEF FreeCount
    <2> QED BY <1>1, <1>6, <2>3 DEF FreeCount, TypeOK
<1>12. NoPanic'
    BY <1>1 DEF NoPanic
<1> QED BY <1>7, <1>8, <1>9, <1>10, <1>11, <1>12

(* The end of fork keeps the inductive invariant.                          *)
LEMMA ForkDoneInductive ==
    ASSUME CoWIInv, NEW p \in Procs, fork_done(p)
    PROVE  CoWIInv'
<1> USE CoWAssumption DEF CoWIInv
<1>1. /\ UNCHANGED <<freelist, refcount, data, pte, mem, oops>>
      /\ pc[p] = "copyuvm" /\ state[p] = "RUNNABLE" /\ va[p] >= sz[p]
    BY DEF fork_done, child_created, kmem, Running
<1>2. PICK c \in Procs : c = np[p] /\ state[c] = "EMBRYO" /\ pc[c] = "user"
    BY <1>1, Ranges DEF Slots, InFork
<1>3. /\ sz' = [sz EXCEPT ![c] = sz[p]] /\ state' = [state EXCEPT ![c] = "RUNNABLE"]
      /\ parent' = [parent EXCEPT ![c] = p] /\ np' = [np EXCEPT ![p] = NONE]
      /\ va' = [va EXCEPT ![p] = 0] /\ pc' = [pc EXCEPT ![p] = "user"]
      /\ tlb' = [tlb EXCEPT ![p] = {}]
    BY <1>2 DEF fork_done, child_created, Goto
<1>4. /\ pc'[p] = "user" /\ np'[p] = NONE /\ va'[p] = 0
      /\ \A q \in Procs : q # p => pc'[q] = pc[q] /\ np'[q] = np[q] /\ va'[q] = va[q]
      /\ state'[c] = "RUNNABLE" /\ sz'[c] = sz[p]
      /\ \A q \in Procs : q # c => state'[q] = state[q] /\ sz'[q] = sz[q]
    BY <1>3 DEF TypeOK
<1>5. TypeOK'
    <2>1. pc' \in [Procs -> {"user", "copyuvm", "incref", "bad", "reap",
                             "fault_dec", "fault_alloc", "fault_copy"}]
        BY <1>3 DEF TypeOK
    <2>2. sz' \in [Procs -> 0 .. NPAGES]
        BY <1>3 DEF TypeOK
    <2>3. state' \in [Procs -> States]
        BY <1>3 DEF TypeOK, States
    <2>4. parent' \in [Procs -> Procs \cup {NONE}] /\ np' \in [Procs -> Procs \cup {NONE}]
        BY <1>3 DEF TypeOK
    <2>5. va' \in [Procs -> 0 .. NPAGES]
        <3>1. va \in [Procs -> 0 .. NPAGES]
            BY DEF TypeOK
        <3>2. 0 \in 0 .. NPAGES
            OBVIOUS
        <3> QED BY <1>3, <3>1, <3>2
    <2>6. tlb' \in [Procs -> SUBSET Pages]
        BY <1>3 DEF TypeOK
    <2> QED BY <1>1, <2>1, <2>2, <2>3, <2>4, <2>5, <2>6 DEF TypeOK
<1>6. Slots'
    BY <1>1, <1>2, <1>4, Ranges DEF Slots, InFork
<1>7. Maps'
    <2>1. LiveMaps'
        <3>1. va[p] = sz[p]
            BY <1>1, Ranges DEF Maps, ForkMaps
        <3>2. \A u \in Pages : pte[c][u] # NONE <=> u < sz[p]
            BY <1>1, <1>2, <3>1 DEF Maps, ForkMaps
        <3> QED BY <1>1, <1>4, <3>2 DEF Maps, LiveMaps
    <2>2. FaultMaps'
        BY <1>1, <1>4 DEF Maps, FaultMaps, InFault
    <2>3. ForkMaps'
        <3>1. ASSUME NEW q \in Procs, pc'[q] \in {"copyuvm", "incref"}
              PROVE  pc[q] = pc'[q] /\ va'[q] = va[q] /\ np'[q] = np[q] /\ sz'[q] = sz[q]
            BY <1>1, <1>2, <1>4, <3>1
        <3> QED BY <1>1, <3>1 DEF Maps, ForkMaps
    <2> QED BY <2>1, <2>2, <2>3 DEF Maps
<1>8. RefcountExact'
    <2>1. \A q \in Procs, w \in Pages : Counted(q, w)' = Counted(q, w)
        BY <1>1, <1>4, QuietStep
    <2> QED BY <1>1, <2>1, CountsSame
<1>9. FreeCount' /\ NoPanic'
    BY <1>1 DEF FreeCount, NoPanic
<1> QED BY <1>5, <1>6, <1>7, <1>8, <1>9

(* kfree takes one reference from a counted frame, reaches no panic, and   *)
(* frees the frame exactly when that was the last one.                     *)
LEMMA KfreeDrops ==
    ASSUME TypeOK, FreeCount, NEW f \in Frames, refcount[f] \in Nat \ {0}, kfree(f)
    PROVE  /\ f \notin freelist
           /\ refcount' = [refcount EXCEPT ![f] = @ - 1]
           /\ refcount' \in [Frames -> Int]
           /\ refcount'[f] = refcount[f] - 1 /\ \A g \in Frames \ {f} : refcount'[g] = refcount[g]
           /\ freelist' = (IF refcount'[f] = 0 THEN freelist \cup {f} ELSE freelist)
           /\ data' \in [Frames -> Contents]
           /\ \A g \in Frames \ {f} : data'[g] = data[g]
           /\ refcount'[f] # 0 => data' = data
           /\ oops' = oops /\ FreeCount'
<1>1. f \notin freelist
    BY DEF FreeCount
<1>0. refcount[f] > 0 /\ ~(refcount[f] < 0)
    OBVIOUS
<1>2. refcount' = [refcount EXCEPT ![f] = @ - 1]
    BY <1>0 DEF kfree
<1>3. /\ refcount' \in [Frames -> Int]
      /\ refcount'[f] = refcount[f] - 1 /\ \A g \in Frames \ {f} : refcount'[g] = refcount[g]
    BY <1>2 DEF TypeOK
<1>4. freelist' = (IF refcount'[f] = 0 THEN freelist \cup {f} ELSE freelist)
    BY <1>3 DEF kfree
<1>5. Junk \in Contents
    BY DEF Contents
<1>6. data' \in [Frames -> Contents] /\ \A g \in Frames \ {f} : data'[g] = data[g]
    BY <1>5 DEF kfree, TypeOK
<1>9. refcount'[f] # 0 => data' = data
    BY <1>3 DEF kfree
<1>7. oops' = oops
    BY <1>0, <1>1 DEF kfree
<1>8. FreeCount'
    BY <1>3, <1>4 DEF FreeCount, TypeOK
<1> QED BY <1>1, <1>2, <1>3, <1>4, <1>6, <1>7, <1>8, <1>9

(* Removing the entry of page v of a process c that nobody else works on.  *)
LEMMA Unmapped ==
    ASSUME TypeOK, NEW c \in Procs, NEW v \in Pages, pte' = [pte EXCEPT ![c][v] = NONE]
    PROVE  /\ pte' \in [Procs -> [Pages -> PTE \cup {NONE}]]
           /\ pte'[c][v] = NONE
           /\ \A q \in Procs, w \in Pages : <<q, w>> # <<c, v>> => pte'[q][w] = pte[q][w]
BY DEF TypeOK

(* Freeing one page of a zombie or embryo keeps the inductive invariant.   *)
LEMMA FreevmPageInductive ==
    ASSUME CoWIInv, NEW p \in Procs, freevm_page(p)
    PROVE  CoWIInv'
<1> USE CoWAssumption DEF CoWIInv
<1>1. /\ UNCHANGED <<sz, tlb, state, parent, pc, np, va, mem>>
      /\ pc[p] \in {"reap", "bad"} /\ state[p] = "RUNNABLE"
    BY DEF freevm_page, proc, local, Running
<1>2. PICK c \in Procs : c = np[p] /\ state[c] \in {"EMBRYO", "ZOMBIE"} /\ pc[c] = "user"
    BY <1>1, Ranges DEF Slots, InFork
<1>3. PICK v \in Pages : /\ pte[c][v] # NONE /\ kfree(pte[c][v].pa)
                         /\ pte' = [pte EXCEPT ![c][v] = NONE]
    BY <1>2 DEF freevm_page
<1>4. PICK f \in Frames : f = pte[c][v].pa
    BY <1>3, Ranges
<1>5. ~NotYetCounted(c, v) /\ ~NotYetCounted(c, v)'
    BY <1>1, <1>2 DEF NotYetCounted, Slots
<1>6. Counted(c, v) = f
    BY <1>2, <1>3, <1>4, <1>5 DEF Counted
<1>7. refcount[f] \in Nat \ {0}
    BY <1>6, CountedOnce
<1>8. /\ f \notin freelist
      /\ refcount' \in [Frames -> Int]
      /\ refcount'[f] = refcount[f] - 1 /\ \A g \in Frames \ {f} : refcount'[g] = refcount[g]
      /\ freelist' = (IF refcount'[f] = 0 THEN freelist \cup {f} ELSE freelist)
      /\ data' \in [Frames -> Contents]
      /\ oops' = oops /\ FreeCount'
    BY <1>3, <1>4, <1>7, KfreeDrops
<1>9. /\ pte' \in [Procs -> [Pages -> PTE \cup {NONE}]]
      /\ pte'[c][v] = NONE
      /\ \A q \in Procs, w \in Pages : <<q, w>> # <<c, v>> => pte'[q][w] = pte[q][w]
    BY <1>3, Unmapped
<1>10. TypeOK'
    <2>1. freelist' \subseteq Frames
        BY <1>8 DEF TypeOK
    <2> QED BY <1>1, <1>8, <1>9, <2>1 DEF TypeOK
<1>11. Slots'
    BY <1>1 DEF Slots
<1>12. Maps'
    <2>1. LiveMaps'
        BY <1>1, <1>2, <1>9 DEF Maps, LiveMaps
    <2>2. FaultMaps'
        BY <1>1, <1>2, <1>9 DEF Maps, FaultMaps, InFault
    <2>3. ForkMaps'
        <3>1. ASSUME NEW q \in Procs, pc[q] \in {"copyuvm", "incref"}
              PROVE  \A u \in Pages : pte'[q][u] = pte[q][u] /\ pte'[np[q]][u] = pte[np[q]][u]
            BY <1>1, <1>2, <1>9, <3>1, Ranges DEF Slots, InFork
        <3>2. ASSUME NEW q \in Procs, pc[q] = "incref" PROVE va[q] \in Pages
            BY <3>2, IncrefMapped
        <3> QED BY <1>1, <3>1, <3>2 DEF Maps, ForkMaps
    <2> QED BY <2>1, <2>2, <2>3 DEF Maps
<1>13. RefcountExact'
    <2>1. Counted(c, v)' = NONE
        BY <1>1, <1>2, <1>9 DEF Counted
    <2>2. ASSUME NEW q \in Procs, NEW w \in Pages, <<q, w>> # <<c, v>>
          PROVE  Counted(q, w)' = Counted(q, w)
        BY <1>1, <1>9, <2>2 DEF Counted, NotYetCounted
    <2> QED BY <1>6, <1>8, <2>1, <2>2, CountsLoss
<1>14. NoPanic'
    BY <1>8 DEF NoPanic
<1> QED BY <1>8, <1>10, <1>11, <1>12, <1>13, <1>14

(* The end of freevm keeps the inductive invariant.                        *)
LEMMA FreevmDoneInductive ==
    ASSUME CoWIInv, NEW p \in Procs, freevm_done(p)
    PROVE  CoWIInv'
<1> USE CoWAssumption DEF CoWIInv
<1>1. /\ UNCHANGED <<freelist, refcount, data, pte, mem, oops>>
      /\ pc[p] \in {"reap", "bad"} /\ state[p] = "RUNNABLE"
    BY DEF freevm_done, kmem, Running
<1>2. PICK c \in Procs : c = np[p] /\ state[c] \in {"EMBRYO", "ZOMBIE"} /\ pc[c] = "user"
    BY <1>1, Ranges DEF Slots, InFork
<1>3. /\ sz' = [sz EXCEPT ![c] = 0] /\ state' = [state EXCEPT ![c] = "UNUSED"]
      /\ parent' = [parent EXCEPT ![c] = NONE] /\ np' = [np EXCEPT ![p] = NONE]
      /\ va' = [va EXCEPT ![p] = 0] /\ pc' = [pc EXCEPT ![p] = "user"]
      /\ tlb' = [tlb EXCEPT ![c] = {}]
      /\ \A u \in Pages : pte[c][u] = NONE
    BY <1>2 DEF freevm_done, Goto
<1>4. /\ pc'[p] = "user" /\ np'[p] = NONE /\ va'[p] = 0
      /\ \A q \in Procs : q # p => pc'[q] = pc[q] /\ np'[q] = np[q] /\ va'[q] = va[q]
      /\ state'[c] = "UNUSED"
      /\ \A q \in Procs : q # c => state'[q] = state[q] /\ sz'[q] = sz[q]
    BY <1>3 DEF TypeOK
<1>5. TypeOK'
    <2>0. 0 \in 0 .. NPAGES
        OBVIOUS
    <2>1. pc' \in [Procs -> {"user", "copyuvm", "incref", "bad", "reap",
                             "fault_dec", "fault_alloc", "fault_copy"}]
        BY <1>3 DEF TypeOK
    <2>2. sz' \in [Procs -> 0 .. NPAGES] /\ va' \in [Procs -> 0 .. NPAGES]
        <3>1. sz \in [Procs -> 0 .. NPAGES] /\ va \in [Procs -> 0 .. NPAGES]
            BY DEF TypeOK
        <3> QED BY <1>3, <2>0, <3>1
    <2>3. state' \in [Procs -> States]
        BY <1>3 DEF TypeOK, States
    <2>4. parent' \in [Procs -> Procs \cup {NONE}] /\ np' \in [Procs -> Procs \cup {NONE}]
        BY <1>3 DEF TypeOK
    <2>5. tlb' \in [Procs -> SUBSET Pages]
        BY <1>3 DEF TypeOK
    <2> QED BY <1>1, <2>1, <2>2, <2>3, <2>4, <2>5 DEF TypeOK
<1>6. Slots'
    BY <1>1, <1>2, <1>4, Ranges DEF Slots, InFork
<1>7. Maps'
    <2>1. LiveMaps'
        BY <1>1, <1>3, <1>4 DEF Maps, LiveMaps
    <2>2. FaultMaps'
        BY <1>1, <1>4 DEF Maps, FaultMaps, InFault
    <2>3. ForkMaps'
        <3>1. ASSUME NEW q \in Procs, pc'[q] \in {"copyuvm", "incref"}
              PROVE  pc[q] = pc'[q] /\ va'[q] = va[q] /\ np'[q] = np[q] /\ sz'[q] = sz[q]
            BY <1>1, <1>2, <1>4, <3>1
        <3> QED BY <1>1, <3>1 DEF Maps, ForkMaps
    <2> QED BY <2>1, <2>2, <2>3 DEF Maps
<1>8. RefcountExact'
    <2>1. \A q \in Procs, w \in Pages : Counted(q, w)' = Counted(q, w)
        BY <1>1, <1>4, QuietStep
    <2> QED BY <1>1, <2>1, CountsSame
<1>9. FreeCount' /\ NoPanic'
    BY <1>1 DEF FreeCount, NoPanic
<1> QED BY <1>5, <1>6, <1>7, <1>8, <1>9

(* Sbrk by one page keeps the inductive invariant.                         *)
LEMMA GrowInductive ==
    ASSUME CoWIInv, NEW p \in Procs, sbrk_grow(p)
    PROVE  CoWIInv'
<1> USE CoWAssumption DEF CoWIInv
<1>1. /\ UNCHANGED <<state, parent, pc, np, va, mem>>
      /\ pc[p] = "user" /\ state[p] = "RUNNABLE" /\ sz[p] < NPAGES
      /\ sz' = [sz EXCEPT ![p] = @ + 1] /\ tlb' = [tlb EXCEPT ![p] = {}]
    BY DEF sbrk_grow, proc, local, Running
<1>2. PICK v \in Pages : v = sz[p]
    BY <1>1, Ranges DEF Pages
<1>3. PICK f \in Frames : /\ kalloc(f, Zero)
                          /\ pte' = [pte EXCEPT ![p][v] = [pa |-> f, W |-> TRUE, CoW |-> FALSE, U |-> TRUE]]
    BY <1>2 DEF sbrk_grow
<1>4. PICK e \in PTE : e = [pa |-> f, W |-> TRUE, CoW |-> FALSE, U |-> TRUE] /\ e.pa = f /\ e # NONE
    <2> DEFINE n == [pa |-> f, W |-> TRUE, CoW |-> FALSE, U |-> TRUE]
    <2>1. n \in PTE /\ n.pa = f
        BY DEF PTE
    <2> HIDE DEF n
    <2> QED BY <2>1 DEF n
<1>5. pte[p][v] = NONE
    BY <1>1, <1>2, Ranges DEF Maps, LiveMaps
<1>6. pte' = [pte EXCEPT ![p][v] = e]
    BY <1>3, <1>4
<1>7. /\ pte' \in [Procs -> [Pages -> PTE \cup {NONE}]]
      /\ pte'[p][v] = e
      /\ \A q \in Procs, w \in Pages : <<q, w>> # <<p, v>> => pte'[q][w] = pte[q][w]
    BY <1>6 DEF TypeOK
<1>8. Zero \in Contents
    BY DEF Contents
<1>9. /\ freelist' \subseteq freelist /\ f \notin freelist' /\ f \in freelist
      /\ refcount' \in [Frames -> Int] /\ data' \in [Frames -> Contents]
      /\ refcount'[f] = refcount[f] + 1 /\ \A g \in Frames \ {f} : refcount'[g] = refcount[g]
      /\ oops' = oops /\ FreeCount'
    BY <1>3, <1>8, KallocTakes
<1>10. sz'[p] = sz[p] + 1 /\ \A q \in Procs : q # p => sz'[q] = sz[q]
    BY <1>1 DEF TypeOK
<1>11. TypeOK'
    <2>1. freelist' \subseteq Frames
        BY <1>9 DEF TypeOK
    <2>2. sz' \in [Procs -> 0 .. NPAGES]
        <3>1. sz \in [Procs -> 0 .. NPAGES] /\ sz[p] + 1 \in 0 .. NPAGES
            BY <1>1, Ranges DEF TypeOK
        <3> QED BY <1>1, <3>1
    <2>3. tlb' \in [Procs -> SUBSET Pages]
        BY <1>1 DEF TypeOK
    <2> QED BY <1>1, <1>7, <1>9, <2>1, <2>2, <2>3 DEF TypeOK
<1>12. Slots'
    BY <1>1 DEF Slots
<1>13. Maps'
    <2>1. LiveMaps'
        <3>1. \A u \in Pages : u < sz[p] + 1 <=> u < sz[p] \/ u = v
            BY <1>2, Ranges DEF Pages
        <3>2. \A u \in Pages : pte'[p][u] # NONE <=> u < sz'[p]
            BY <1>1, <1>4, <1>7, <1>10, <3>1 DEF Maps, LiveMaps
        <3> QED BY <1>1, <1>7, <1>10, <3>2 DEF Maps, LiveMaps
    <2>2. FaultMaps'
        BY <1>1, <1>7 DEF Maps, FaultMaps, InFault
    <2>3. ForkMaps'
        <3>1. ASSUME NEW q \in Procs, pc[q] \in {"copyuvm", "incref"}
              PROVE  /\ q # p
                     /\ \A u \in Pages : pte'[q][u] = pte[q][u] /\ pte'[np[q]][u] = pte[np[q]][u]
            BY <1>1, <1>7, <3>1, Ranges DEF Slots, InFork
        <3>2. ASSUME NEW q \in Procs, pc[q] = "incref" PROVE va[q] \in Pages
            BY <3>2, IncrefMapped
        <3> QED BY <1>1, <1>10, <3>1, <3>2 DEF Maps, ForkMaps
    <2> QED BY <2>1, <2>2, <2>3 DEF Maps
<1>14. RefcountExact'
    <2>1. Counted(p, v) = NONE
        BY <1>1, <1>5 DEF Counted
    <2>2. ~NotYetCounted(p, v)'
        BY <1>1, NotYetCountedIsEmbryo DEF EmbryosOnly, NotYetCounted
    <2>3. Counted(p, v)' = f
        BY <1>1, <1>4, <1>7, <2>2 DEF Counted
    <2>4. ASSUME NEW q \in Procs, NEW w \in Pages, <<q, w>> # <<p, v>>
          PROVE  Counted(q, w)' = Counted(q, w)
        BY <1>1, <1>7, <2>4 DEF Counted, NotYetCounted
    <2> QED BY <1>9, <2>1, <2>3, <2>4, CountsGain
<1>15. NoPanic'
    BY <1>9 DEF NoPanic
<1> QED BY <1>9, <1>11, <1>12, <1>13, <1>14, <1>15

(* Sbrk by minus one page keeps the inductive invariant.                   *)
LEMMA ShrinkInductive ==
    ASSUME CoWIInv, NEW p \in Procs, sbrk_shrink(p)
    PROVE  CoWIInv'
<1> USE CoWAssumption DEF CoWIInv
<1>1. /\ UNCHANGED <<state, parent, pc, np, va, mem>>
      /\ pc[p] = "user" /\ state[p] = "RUNNABLE" /\ sz[p] - 1 >= InitPages
      /\ sz' = [sz EXCEPT ![p] = sz[p] - 1] /\ tlb' = [tlb EXCEPT ![p] = {}]
    BY DEF sbrk_shrink, proc, local, Running
<1>2. PICK v \in Pages : v = sz[p] - 1 /\ v < sz[p]
    BY <1>1, Ranges DEF Pages
<1>3. kfree(pte[p][v].pa) /\ pte' = [pte EXCEPT ![p][v] = NONE] /\ pte[p][v] # NONE
    BY <1>1, <1>2 DEF sbrk_shrink, Maps, LiveMaps
<1>4. PICK f \in Frames : f = pte[p][v].pa
    BY <1>3, Ranges
<1>5. Counted(p, v) = f
    BY <1>1, <1>3, <1>4, NotYetCountedIsEmbryo DEF EmbryosOnly, Counted
<1>6. refcount[f] \in Nat \ {0}
    BY <1>5, CountedOnce
<1>7. /\ f \notin freelist
      /\ refcount' \in [Frames -> Int]
      /\ refcount'[f] = refcount[f] - 1 /\ \A g \in Frames \ {f} : refcount'[g] = refcount[g]
      /\ freelist' = (IF refcount'[f] = 0 THEN freelist \cup {f} ELSE freelist)
      /\ data' \in [Frames -> Contents]
      /\ oops' = oops /\ FreeCount'
    BY <1>3, <1>4, <1>6, KfreeDrops
<1>8. /\ pte' \in [Procs -> [Pages -> PTE \cup {NONE}]]
      /\ pte'[p][v] = NONE
      /\ \A q \in Procs, w \in Pages : <<q, w>> # <<p, v>> => pte'[q][w] = pte[q][w]
    BY <1>3, Unmapped
<1>9. sz'[p] = sz[p] - 1 /\ \A q \in Procs : q # p => sz'[q] = sz[q]
    BY <1>1 DEF TypeOK
<1>10. TypeOK'
    <2>1. freelist' \subseteq Frames
        BY <1>7 DEF TypeOK
    <2>2. sz' \in [Procs -> 0 .. NPAGES]
        <3>1. sz \in [Procs -> 0 .. NPAGES]
            BY DEF TypeOK
        <3>2. sz[p] - 1 \in 0 .. NPAGES
            BY <1>1, Ranges
        <3> QED BY <1>1, <3>1, <3>2
    <2>3. tlb' \in [Procs -> SUBSET Pages]
        BY <1>1 DEF TypeOK
    <2> QED BY <1>1, <1>7, <1>8, <2>1, <2>2, <2>3 DEF TypeOK
<1>11. Slots'
    BY <1>1 DEF Slots
<1>12. Maps'
    <2>1. LiveMaps'
        <3>1. \A u \in Pages : u < sz[p] - 1 <=> u < sz[p] /\ u # v
            BY <1>2, Ranges DEF Pages
        <3>2. \A u \in Pages : pte'[p][u] # NONE <=> u < sz'[p]
            BY <1>1, <1>8, <1>9, <3>1 DEF Maps, LiveMaps
        <3> QED BY <1>1, <1>8, <1>9, <3>2 DEF Maps, LiveMaps
    <2>2. FaultMaps'
        BY <1>1, <1>8 DEF Maps, FaultMaps, InFault
    <2>3. ForkMaps'
        <3>1. ASSUME NEW q \in Procs, pc[q] \in {"copyuvm", "incref"}
              PROVE  /\ q # p
                     /\ \A u \in Pages : pte'[q][u] = pte[q][u] /\ pte'[np[q]][u] = pte[np[q]][u]
            BY <1>1, <1>8, <3>1, Ranges DEF Slots, InFork
        <3>2. ASSUME NEW q \in Procs, pc[q] = "incref" PROVE va[q] \in Pages
            BY <3>2, IncrefMapped
        <3> QED BY <1>1, <1>9, <3>1, <3>2 DEF Maps, ForkMaps
    <2> QED BY <2>1, <2>2, <2>3 DEF Maps
<1>13. RefcountExact'
    <2>1. Counted(p, v)' = NONE
        BY <1>1, <1>8 DEF Counted
    <2>2. ASSUME NEW q \in Procs, NEW w \in Pages, <<q, w>> # <<p, v>>
          PROVE  Counted(q, w)' = Counted(q, w)
        BY <1>1, <1>8, <2>2 DEF Counted, NotYetCounted
    <2> QED BY <1>5, <1>7, <2>1, <2>2, CountsLoss
<1>14. NoPanic'
    BY <1>7 DEF NoPanic
<1> QED BY <1>7, <1>10, <1>11, <1>12, <1>13, <1>14

----------------------------------------------------------------------------
(* The first process alone has its frames, each counted once.              *)
LEMMA InitInductive == Init => CoWIInv
<1> SUFFICES ASSUME Init PROVE CoWIInv
    OBVIOUS
<1> USE CoWAssumption
<1> DEFINE First == 0 .. InitPages - 1
<1>1. PICK frame \in [First -> Frames] :
        LET used == {frame[v] : v \in First} IN
        /\ \A v, w \in First : frame[v] = frame[w] => v = w
        /\ freelist = Frames \ used
        /\ refcount = [f \in Frames |-> IF f \in used THEN 1 ELSE 0]
        /\ data = [f \in Frames |-> IF f \in used THEN Zero ELSE Junk]
        /\ pte = [p \in Procs |-> [v \in Pages |->
                    IF p = initproc /\ v < InitPages
                    THEN [pa |-> frame[v], W |-> TRUE, CoW |-> FALSE, U |-> v \notin Guard]
                    ELSE NONE]]
        /\ sz = [p \in Procs |-> IF p = initproc THEN InitPages ELSE 0]
        /\ tlb = [p \in Procs |-> {}]
        /\ state = [p \in Procs |-> IF p = initproc THEN "RUNNABLE" ELSE "UNUSED"]
        /\ parent = [p \in Procs |-> NONE]
        /\ pc = [p \in Procs |-> "user"]
        /\ np = [p \in Procs |-> NONE]
        /\ va = [p \in Procs |-> 0]
        /\ mem = [p \in Procs |-> NONE]
        /\ oops = "none"
    BY DEF Init
<1> DEFINE used == {frame[v] : v \in First}
<1>2. \A v \in Pages : v < InitPages <=> v \in First
    BY DEF Pages
<1>3. First \subseteq Pages
    BY DEF Pages
<1>4. \A p \in Procs, v \in Pages :
        /\ pte[p][v] # NONE <=> p = initproc /\ v < InitPages
        /\ p = initproc /\ v < InitPages => pte[p][v] \in PTE /\ pte[p][v].pa = frame[v]
    <2>1. ASSUME NEW p \in Procs, NEW v \in Pages, p = initproc, v < InitPages
          PROVE  pte[p][v] \in PTE /\ pte[p][v].pa = frame[v]
        <3>1. frame[v] \in Frames
            BY <1>2, <2>1
        <3>2. pte[p][v] = [pa |-> frame[v], W |-> TRUE, CoW |-> FALSE, U |-> v \notin Guard]
            BY <1>1, <2>1
        <3> QED BY <3>1, <3>2 DEF PTE
    <2>2. ASSUME NEW p \in Procs, NEW v \in Pages, ~(p = initproc /\ v < InitPages)
          PROVE  pte[p][v] = NONE
        BY <1>1, <2>2
    <2> QED BY <2>1, <2>2
<1>5. TypeOK
    <2>1. freelist \subseteq Frames
        BY <1>1
    <2>2. refcount \in [Frames -> Int]
        BY <1>1
    <2>3. data \in [Frames -> Contents]
        BY <1>1 DEF Contents
    <2>4. pte \in [Procs -> [Pages -> PTE \cup {NONE}]]
        <3>1. \A p \in Procs, v \in Pages : pte[p][v] \in PTE \cup {NONE}
            BY <1>4
        <3>2. \A p \in Procs : pte[p] = [v \in Pages |-> pte[p][v]]
            BY <1>1
        <3>3. pte = [p \in Procs |-> pte[p]]
            BY <1>1
        <3> QED BY <3>1, <3>2, <3>3
    <2>5. sz \in [Procs -> 0 .. NPAGES] /\ va \in [Procs -> 0 .. NPAGES]
        BY <1>1
    <2>6. state \in [Procs -> States]
        BY <1>1 DEF States
    <2>7. /\ tlb \in [Procs -> SUBSET Pages] /\ parent \in [Procs -> Procs \cup {NONE}]
          /\ np \in [Procs -> Procs \cup {NONE}] /\ mem \in [Procs -> Frames \cup {NONE}]
        BY <1>1
    <2>8. /\ pc \in [Procs -> {"user", "copyuvm", "incref", "bad", "reap",
                               "fault_dec", "fault_alloc", "fault_copy"}]
          /\ oops = "none"
        BY <1>1
    <2> QED BY <2>1, <2>2, <2>3, <2>4, <2>5, <2>6, <2>7, <2>8 DEF TypeOK
<1>6. /\ \A p \in Procs : /\ pc[p] = "user" /\ np[p] = NONE /\ va[p] = 0 /\ mem[p] = NONE
                          /\ state[p] = (IF p = initproc THEN "RUNNABLE" ELSE "UNUSED")
                          /\ sz[p] = (IF p = initproc THEN InitPages ELSE 0)
      /\ oops = "none"
    BY <1>1
<1>7. Slots
    BY <1>6 DEF Slots, InFork
<1>8. Maps
    BY <1>4, <1>6 DEF Maps, LiveMaps, FaultMaps, ForkMaps, InFault
<1>9. RefcountExact
    <2> SUFFICES ASSUME NEW f \in Frames PROVE refcount[f] = Cardinality(References(f))
        BY DEF RefcountExact
    <2>1. \A p \in Procs, v \in Pages : Counted(p, v) = pte[p][v].pa \/ (pte[p][v] = NONE /\ Counted(p, v) = NONE)
        BY <1>6 DEF Counted, NotYetCounted
    <2>2. \A p \in Procs, v \in Pages : Counted(p, v) = f <=> p = initproc /\ v \in First /\ frame[v] = f
        BY <1>2, <1>4, <1>6, <2>1 DEF Counted, NotYetCounted
    <2>3. CASE f \in used
        <3>1. PICK v \in First : frame[v] = f
            BY <2>3
        <3>2. References(f) = {<<initproc, v>>}
            BY <1>1, <1>3, <2>2, <3>1 DEF References
        <3>3. Cardinality(References(f)) = 1
            BY <3>2, FS_Singleton
        <3> QED BY <1>1, <2>3, <3>3
    <2>4. CASE f \notin used
        <3>1. References(f) = {}
            BY <2>2, <2>4 DEF References
        <3> QED BY <1>1, <2>4, <3>1, FS_EmptySet
    <2> QED BY <2>3, <2>4
<1>10. FreeCount
    BY <1>1 DEF FreeCount
<1>11. NoPanic
    BY <1>6 DEF NoPanic, Panics
<1> QED BY <1>5, <1>7, <1>8, <1>9, <1>10, <1>11 DEF CoWIInv

(* Every step preserves the inductive invariant.                           *)
LEMMA NextInductive == CoWIInv /\ [Next]_vars => CoWIInv'
<1>1. ASSUME CoWIInv, UNCHANGED vars PROVE CoWIInv'
    <2>1. UNCHANGED <<freelist, refcount, data, pte, sz, tlb, state, parent, pc, np, va, mem, oops>>
        BY <1>1 DEF vars, kmem, uvm, proc, local
    <2>2. TypeOK' /\ Slots'
        BY <1>1, <2>1 DEF CoWIInv, TypeOK, Slots
    <2>3. Maps'
        BY <1>1, <2>1 DEF CoWIInv, Maps, LiveMaps, FaultMaps, ForkMaps
    <2>4. \A q \in Procs, w \in Pages : Counted(q, w)' = Counted(q, w)
        BY <2>1 DEF Counted, NotYetCounted
    <2>5. RefcountExact'
        BY <1>1, <2>1, <2>4, CountsSame DEF CoWIInv
    <2>6. FreeCount' /\ NoPanic'
        BY <1>1, <2>1 DEF CoWIInv, FreeCount, NoPanic
    <2> QED BY <2>2, <2>3, <2>5, <2>6 DEF CoWIInv
<1>2. ASSUME CoWIInv, NEW p \in Procs, NEW v \in Touched \ {Far}, NEW x \in Vals, user_write(p, v, x)
      PROVE  CoWIInv'
    <2>1. v \in Pages
        BY <1>2 DEF user_write
    <2> QED BY <1>2, <2>1, WriteInductive
<1>3. ASSUME CoWIInv, NEW p \in Procs, page_fault(p) PROVE CoWIInv'
    <2>1. ASSUME NEW v \in Touched \ {Far}, fault_get(p, v) PROVE CoWIInv'
        <3>1. v \in Pages
            BY <2>1 DEF fault_get
        <3> QED BY <1>3, <2>1, <3>1, FaultGetInductive
    <2>2. ASSUME NEW v \in Touched \ {Far}, fault_kill(p, v) PROVE CoWIInv'
        BY <1>3, <2>2, ExitInductive DEF fault_kill
    <2> QED BY <1>3, <2>1, <2>2, FaultFarInductive, FaultDecInductive, FaultAllocInductive,
               FaultCopyInductive DEF page_fault
<1>4. ASSUME CoWIInv, NEW p \in Procs, sys_exit(p) PROVE CoWIInv'
    BY <1>4, ExitInductive DEF sys_exit
<1> QED BY <1>1, <1>2, <1>3, <1>4, ForkInductive, WaitInductive, MapInductive, IncrefInductive,
           ForkDoneInductive, FreevmPageInductive, FreevmDoneInductive, GrowInductive,
           ShrinkInductive DEF Next

(* The inductive invariant holds in every reachable state.                 *)
LEMMA Inductive == Spec => []CoWIInv
BY InitInductive, NextInductive, PTL DEF Spec

(* On any number of processors the count of a frame is the number of       *)
(* page-table entries that refer to it (kalloc.c, copyuvm, the page-fault  *)
(* handler, freevm, growproc).                                             *)
THEOREM CountsAreExact == Spec => []RefcountExact
<1>1. CoWIInv => RefcountExact
    BY DEF CoWIInv
<1> QED BY <1>1, Inductive, PTL

(* On any number of processors no frame on the free list is referenced and *)
(* none of the panics of kalloc.c and copyuvm is reached.                  *)
THEOREM FreeListSound == Spec => []CoWInv
<1>1. CoWIInv => CoWInv
    BY FreeUnreferenced DEF CoWIInv, CoWInv
<1> QED BY <1>1, Inductive, PTL

----------------------------------------------------------------------------
(* One processor.  Nobody else runs while a process is in the fault        *)
(* handler or in wait, so a shared frame stays shared until its owner has  *)
(* its copy.                                                               *)
Alone ==
    /\ \A p, q \in Procs : pc[p] \in NoInterrupts /\ pc[q] \in NoInterrupts => p = q
    /\ \A p \in Procs : pc[p] = "fault_dec" => refcount[pte[p][va[p]].pa] > 1
    /\ \A p \in Procs : pc[p] \in {"fault_alloc", "fault_copy"} => refcount[pte[p][va[p]].pa] > 0

(* The frame the fault handler copies to is nobody else's.                 *)
FreshCopy == \A p \in Procs : pc[p] = "fault_copy" => References(mem[p]) = {<<p, va[p]>>}

MayWrite(p, v) == pte[p][v] # NONE /\ (pte[p][v].W \/ v \in tlb[p])

(* A frame that p may write through page v is mapped by nobody else, but   *)
(* for the child p is creating.                                            *)
Private ==
    \A p, q \in Procs : \A v, w \in Pages :
        /\ MayWrite(p, v)
        /\ pte[q][w] # NONE /\ pte[q][w].pa = pte[p][v].pa
        => <<q, w>> = <<p, v>> \/ (~pte[p][v].W /\ pc[p] \in InFork /\ <<q, w>> = <<np[p], v>>)

(* A process that has never run has no translation in the TLB.             *)
NoStaleTlb == \A p \in Procs : state[p] \in {"UNUSED", "EMBRYO"} => tlb[p] = {}

(* The pages copyuvm has done share the parent's frames.                   *)
ForkShares ==
    \A p \in Procs : pc[p] \in {"copyuvm", "incref"} =>
        \A v \in Pages : pte[np[p]][v] # NONE => pte[np[p]][v].pa = pte[p][v].pa

(* The inductive invariant on one processor, on top of CoWIInv.            *)
OneCpuInv == Alone /\ FreshCopy /\ Private /\ NoStaleTlb /\ ForkShares /\ NoFrameLost

(* On one processor, a process that takes a step is the only one that may  *)
(* have interrupts off.                                                    *)
LEMMA Solo ==
    ASSUME NCPU = 1, NEW p \in Procs, CanRun(p)
    PROVE  \A q \in Procs : q # p => pc[q] \notin NoInterrupts
<1> DEFINE S == {q \in Procs \ {p} : pc[q] \in NoInterrupts}
<1>1. IsFiniteSet(S)
    BY FS_Subset, CoWAssumption
<1>2. Cardinality(S) < 1
    BY DEF CanRun
<1>3. S = {}
    <2> HIDE DEF S
    <2>1. Cardinality(S) \in Nat
        BY <1>1, FS_CardinalityType
    <2>2. Cardinality(S) = 0
        BY <1>2, <2>1
    <2> QED BY <1>1, <2>2, FS_EmptySet
<1> QED BY <1>3

(* Two counted references make a count of at least two.                    *)
LEMMA CountedTwice ==
    ASSUME RefcountExact, NEW f \in Frames,
           NEW p \in Procs, NEW v \in Pages, NEW q \in Procs, NEW w \in Pages,
           Counted(p, v) = f, Counted(q, w) = f, <<p, v>> # <<q, w>>
    PROVE  refcount[f] \in Nat /\ refcount[f] > 1
<1> DEFINE R == References(f)
<1>1. IsFiniteSet(R) /\ <<p, v>> \in R /\ <<q, w>> \in R
    BY ReferencesFinite DEF References
<1> HIDE DEF R
<1>2. IsFiniteSet(R \ {<<p, v>>}) /\ Cardinality(R \ {<<p, v>>}) = Cardinality(R) - 1
    BY <1>1, FS_RemoveElement
<1>3. Cardinality(R \ {<<p, v>>}) \in Nat \ {0}
    BY <1>1, <1>2, FS_CardinalityType, FS_EmptySet
<1>4. Cardinality(R) \in Nat
    BY <1>1, FS_CardinalityType
<1> QED BY <1>2, <1>3, <1>4 DEF RefcountExact, R

(* Whoever maps a frame is counted for it, unless it is between the fault  *)
(* handler's decrease_refcount and its copy, or it is being created and    *)
(* its creator is counted.                                                 *)
LEMMA MapperIsCounted ==
    ASSUME CoWIInv, NEW q \in Procs, NEW w \in Pages, pte[q][w] # NONE,
           pc[q] \notin {"fault_alloc", "fault_copy"} \/ va[q] # w
    PROVE  \/ Counted(q, w) = pte[q][w].pa
           \/ \E x \in Procs : /\ pc[x] = "incref" /\ np[x] = q /\ va[x] = w
                               /\ pte[x][w].pa = pte[q][w].pa
                               /\ Counted(x, w) = pte[q][w].pa
<1> USE DEF CoWIInv
<1>1. CASE ~NotYetCounted(q, w)
    BY <1>1 DEF Counted
<1>2. CASE NotYetCounted(q, w)
    <2>1. PICK x \in Procs : pc[x] = "incref" /\ np[x] = q /\ va[x] = w
        BY <1>2 DEF NotYetCounted
    <2>2. pte[x][w] # NONE /\ pte[x][w].pa = pte[q][w].pa
        BY <2>1, IncrefMapped DEF Maps, ForkMaps
    <2>3. ~NotYetCounted(x, w)
        <3>1. state[x] = "RUNNABLE"
            BY <2>1 DEF Slots
        <3> QED BY <3>1, NotYetCountedIsEmbryo DEF EmbryosOnly
    <2>4. Counted(x, w) = pte[q][w].pa
        BY <2>1, <2>2, <2>3 DEF Counted
    <2> QED BY <2>1, <2>2, <2>4
<1> QED BY <1>1, <1>2

(* On one processor a frame on the free list is mapped by nobody.          *)
LEMMA FreeIsUnmapped ==
    ASSUME CoWIInv, Alone, NEW f \in freelist
    PROVE  \A q \in Procs, w \in Pages : pte[q][w] # NONE => pte[q][w].pa # f
<1> USE DEF CoWIInv
<1> SUFFICES ASSUME NEW q \in Procs, NEW w \in Pages, pte[q][w] # NONE, pte[q][w].pa = f
             PROVE  FALSE
    OBVIOUS
<1>1. f \in Frames /\ refcount[f] = 0
    BY DEF TypeOK, FreeCount
<1>2. \A x \in Procs, u \in Pages : Counted(x, u) # f
    BY <1>1, CountedOnce
<1>3. pc[q] \in {"fault_alloc", "fault_copy"} /\ va[q] = w
    BY <1>2, MapperIsCounted
<1> QED BY <1>1, <1>3 DEF Alone

(* Alone is kept by a step of p that leaves the others where they are.     *)
LEMMA AloneKept ==
    ASSUME NCPU = 1, NEW p \in Procs, CanRun(p),
           \A q \in Procs : q # p => pc'[q] = pc[q],
           pc'[p] = "fault_dec" => refcount'[pte'[p][va'[p]].pa] > 1,
           pc'[p] \in {"fault_alloc", "fault_copy"} => refcount'[pte'[p][va'[p]].pa] > 0
    PROVE  Alone'
<1>1. \A q \in Procs : q # p => pc'[q] \notin NoInterrupts
    BY Solo
<1> QED BY <1>1 DEF Alone, NoInterrupts

(* FreshCopy too, unless p allocates the copy.                             *)
LEMMA FreshCopyKept ==
    ASSUME NCPU = 1, NEW p \in Procs, CanRun(p), pc'[p] # "fault_copy",
           \A q \in Procs : q # p => pc'[q] = pc[q]
    PROVE  FreshCopy'
<1>1. \A q \in Procs : q # p => pc'[q] \notin NoInterrupts
    BY Solo
<1> QED BY <1>1 DEF FreshCopy, NoInterrupts

(* Private is kept while nothing becomes mapped or writable.               *)
LEMMA PrivateKept ==
    ASSUME Private,
           \A q \in Procs, w \in Pages : pte'[q][w] # NONE =>
               pte[q][w] # NONE /\ pte'[q][w].pa = pte[q][w].pa /\ (pte'[q][w].W => pte[q][w].W),
           \A q \in Procs, w \in Pages : w \in tlb'[q] => w \in tlb[q] \/ pte[q][w].W,
           \A q \in Procs : pc[q] \in InFork => \/ pc'[q] \in InFork /\ np'[q] = np[q]
                                                \/ tlb'[q] = {}
                                                \/ \A w \in Pages : pte'[np[q]][w] = NONE
    PROVE  Private'
<1> SUFFICES ASSUME NEW p \in Procs, NEW q \in Procs, NEW v \in Pages, NEW w \in Pages,
                    MayWrite(p, v)', pte'[q][w] # NONE, pte'[q][w].pa = pte'[p][v].pa,
                    <<q, w>> # <<p, v>>
             PROVE  ~pte'[p][v].W /\ pc'[p] \in InFork /\ <<q, w>> = <<np'[p], v>>
    BY DEF Private
<1>1. pte'[p][v] # NONE /\ (pte'[p][v].W \/ v \in tlb'[p])
    BY DEF MayWrite
<1>2. /\ MayWrite(p, v) /\ pte[q][w] # NONE /\ pte[q][w].pa = pte[p][v].pa
      /\ (pte'[p][v].W => pte[p][v].W)
    BY <1>1 DEF MayWrite
<1>3. ~pte[p][v].W /\ pc[p] \in InFork /\ <<q, w>> = <<np[p], v>>
    BY <1>2 DEF Private
<1>4. ~pte'[p][v].W /\ v \in tlb'[p]
    BY <1>1, <1>2, <1>3
<1>5. pc'[p] \in InFork /\ np'[p] = np[p]
    BY <1>3, <1>4
<1> QED BY <1>3, <1>4, <1>5

----------------------------------------------------------------------------
(* One lemma per action: it preserves the invariant of one processor.      *)

(* Exit, called or forced by a fault, keeps the invariant of one           *)
(* processor.                                                              *)
LEMMA ExitOneCpu ==
    ASSUME NCPU = 1, CoWIInv, OneCpuInv, NEW p \in Procs, Running(p, "user"), exit(p)
    PROVE  OneCpuInv'
<1> USE DEF OneCpuInv, CoWIInv, Running
<1>1. UNCHANGED <<freelist, refcount, data, pte, sz, tlb, pc, np, va, mem, oops>>
    BY DEF exit, kmem, uvm, local
<1>2. state'[p] = "ZOMBIE" /\ \A q \in Procs : q # p => state'[q] = state[q]
    BY DEF exit, TypeOK
<1>3. Alone' /\ FreshCopy'
    BY <1>1, AloneKept, FreshCopyKept
<1>4. Private'
    BY <1>1, PrivateKept
<1>5. NoStaleTlb'
    BY <1>1, <1>2 DEF NoStaleTlb
<1>6. ForkShares' /\ NoFrameLost'
    BY <1>1 DEF ForkShares, NoFrameLost
<1> QED BY <1>3, <1>4, <1>5, <1>6

(* A program's write to its page keeps the invariant of one processor.     *)
LEMMA WriteOneCpu ==
    ASSUME NCPU = 1, CoWIInv, OneCpuInv, NEW p \in Procs, NEW v \in Pages, NEW x \in Vals, user_write(p, v, x)
    PROVE  OneCpuInv'
<1> USE DEF OneCpuInv, CoWIInv
<1>1. UNCHANGED <<freelist, refcount, pte, sz, state, parent, pc, np, va, mem, oops>>
    BY DEF user_write, proc, local
<1>2. CanRun(p) /\ pc[p] = "user" /\ state[p] = "RUNNABLE" /\ (pte[p][v].W \/ v \in tlb[p])
    BY DEF user_write, Running, Writable
<1>3. tlb'[p] = tlb[p] \cup {v} /\ \A q \in Procs : q # p => tlb'[q] = tlb[q]
    BY DEF user_write, TypeOK
<1>4. Alone' /\ FreshCopy'
    BY <1>1, <1>2, AloneKept, FreshCopyKept
<1>5. Private'
    BY <1>1, <1>2, <1>3, PrivateKept
<1>6. NoStaleTlb'
    BY <1>1, <1>2, <1>3 DEF NoStaleTlb
<1>7. ForkShares' /\ NoFrameLost'
    BY <1>1 DEF ForkShares, NoFrameLost
<1> QED BY <1>4, <1>5, <1>6, <1>7

(* The last owner of a copy-on-write page keeps the frame: nobody else     *)
(* maps it.                                                                *)
LEMMA LastOwner ==
    ASSUME NCPU = 1, CoWIInv, OneCpuInv, NEW p \in Procs, NEW v \in Pages,
           Running(p, "user"), pte[p][v] # NONE, refcount[pte[p][v].pa] <= 1,
           NEW q \in Procs, NEW w \in Pages, pte[q][w] # NONE, pte[q][w].pa = pte[p][v].pa
    PROVE  <<q, w>> = <<p, v>>
<1> USE DEF OneCpuInv, CoWIInv, Running
<1>1. pte[p][v].pa \in Frames
    BY Ranges
<1>2. Counted(p, v) = pte[p][v].pa
    BY NotYetCountedIsEmbryo DEF EmbryosOnly, Counted
<1>3. \A x \in Procs, u \in Pages : Counted(x, u) = pte[p][v].pa => <<x, u>> = <<p, v>>
    <2> SUFFICES ASSUME NEW x \in Procs, NEW u \in Pages, Counted(x, u) = pte[p][v].pa,
                        <<x, u>> # <<p, v>>
                 PROVE  FALSE
        OBVIOUS
    <2>1. refcount[pte[p][v].pa] \in Nat /\ refcount[pte[p][v].pa] > 1
        BY <1>1, <1>2, CountedTwice
    <2> QED BY <2>1
<1>4. pc[q] \notin {"fault_alloc", "fault_copy"}
    BY Solo DEF NoInterrupts
<1>5. CASE Counted(q, w) = pte[q][w].pa
    BY <1>3, <1>5
<1>6. CASE Counted(q, w) # pte[q][w].pa
    <2>1. PICK x \in Procs : pc[x] = "incref" /\ Counted(x, w) = pte[q][w].pa
        BY <1>4, <1>6, MapperIsCounted
    <2>2. x = p
        BY <1>3, <2>1
    <2> QED BY <2>1, <2>2
<1> QED BY <1>5, <1>6

(* Making (p, v) writable keeps Private when nobody else maps its frame.   *)
LEMMA PrivateGained ==
    ASSUME Private, NEW p \in Procs, NEW v \in Pages, pc[p] \notin InFork, pc'[p] \notin InFork,
           \A q \in Procs, w \in Pages : <<q, w>> # <<p, v>> => pte'[q][w] = pte[q][w],
           \A q \in Procs, w \in Pages :
               <<q, w>> # <<p, v>> /\ pte[q][w] # NONE => pte[q][w].pa # pte'[p][v].pa,
           tlb'[p] = {}, \A q \in Procs : q # p => tlb'[q] = tlb[q],
           \A q \in Procs : q # p => pc'[q] = pc[q] /\ np'[q] = np[q]
    PROVE  Private'
<1> SUFFICES ASSUME NEW x \in Procs, NEW q \in Procs, NEW u \in Pages, NEW w \in Pages,
                    MayWrite(x, u)', pte'[q][w] # NONE, pte'[q][w].pa = pte'[x][u].pa,
                    <<q, w>> # <<x, u>>
             PROVE  ~pte'[x][u].W /\ pc'[x] \in InFork /\ <<q, w>> = <<np'[x], u>>
    BY DEF Private
<1>0. pte'[x][u] # NONE /\ (pte'[x][u].W \/ u \in tlb'[x])
    BY DEF MayWrite
<1>1. <<x, u>> # <<p, v>> /\ <<q, w>> # <<p, v>>
    BY <1>0
<1>2. pte'[x][u] = pte[x][u] /\ pte'[q][w] = pte[q][w]
    BY <1>1
<1>3. MayWrite(x, u)
    BY <1>0, <1>2 DEF MayWrite
<1>4. ~pte[x][u].W /\ pc[x] \in InFork /\ <<q, w>> = <<np[x], u>>
    BY <1>2, <1>3 DEF Private
<1> QED BY <1>2, <1>4

(* The handler's first look at a copy-on-write page keeps the invariant of *)
(* one processor.                                                          *)
LEMMA FaultGetOneCpu ==
    ASSUME NCPU = 1, CoWIInv, OneCpuInv, NEW p \in Procs, NEW v \in Pages, v # Far, fault_get(p, v)
    PROVE  OneCpuInv'
<1> USE DEF OneCpuInv, CoWIInv
<1>1. /\ UNCHANGED <<freelist, refcount, data, state, parent, np, mem, oops>>
      /\ Running(p, "user") /\ CanRun(p) /\ pc[p] = "user" /\ state[p] = "RUNNABLE" /\ pte[p][v] # NONE
    BY DEF fault_get, kmem, proc, Running, faults_as_CoW
<1>2. NoFrameLost'
    BY <1>1 DEF NoFrameLost
<1>3. CASE refcount[pte[p][v].pa] > 1 /\ va' = [va EXCEPT ![p] = v] /\ Goto(p, "fault_dec") /\ UNCHANGED uvm
    <2>1. UNCHANGED <<pte, sz, tlb>>
        BY <1>3 DEF uvm
    <2>2. /\ pc'[p] = "fault_dec" /\ va'[p] = v
          /\ \A q \in Procs : q # p => pc'[q] = pc[q] /\ va'[q] = va[q]
        BY <1>3 DEF Goto, TypeOK
    <2>3. Alone' /\ FreshCopy'
        BY <1>1, <1>3, <2>1, <2>2, AloneKept, FreshCopyKept
    <2>4. Private'
        BY <1>1, <2>1, <2>2, PrivateKept DEF InFork
    <2>5. NoStaleTlb' /\ ForkShares'
        BY <1>1, <2>1, <2>2 DEF NoStaleTlb, ForkShares
    <2> QED BY <1>2, <2>3, <2>4, <2>5
<1>4. CASE refcount[pte[p][v].pa] <= 1 /\ make_writable(p, v, pte[p][v]) /\ UNCHANGED <<va, pc>>
    <2>1. pte[p][v] \in PTE
        BY <1>1, Ranges
    <2>2. /\ pte'[p][v] # NONE /\ pte'[p][v].pa = pte[p][v].pa /\ pte'[p][v].W /\ tlb'[p] = {}
          /\ \A q \in Procs, w \in Pages : <<q, w>> # <<p, v>> => pte'[q][w] = pte[q][w]
          /\ \A q \in Procs : q # p => tlb'[q] = tlb[q]
        BY <1>4, <2>1, MadeWritable
    <2>3. Alone' /\ FreshCopy'
        BY <1>1, <1>4, AloneKept, FreshCopyKept
    <2>4. \A q \in Procs, w \in Pages :
              <<q, w>> # <<p, v>> /\ pte[q][w] # NONE => pte[q][w].pa # pte'[p][v].pa
        BY <1>1, <1>4, <2>2, LastOwner
    <2>5. Private'
        BY <1>1, <1>4, <2>2, <2>4, PrivateGained DEF InFork
    <2>6. NoStaleTlb'
        BY <1>1, <2>2 DEF NoStaleTlb
    <2>7. ForkShares'
        <3> SUFFICES ASSUME NEW q \in Procs, pc[q] \in {"copyuvm", "incref"}, NEW w \in Pages,
                            pte'[np[q]][w] # NONE
                     PROVE  pte'[np[q]][w].pa = pte'[q][w].pa
            BY <1>1, <1>4 DEF ForkShares
        <3>1. np[q] \in Procs /\ q # p /\ np[q] # p
            BY <1>1, Ranges DEF Slots, InFork
        <3> QED BY <2>2, <3>1 DEF ForkShares
    <2> QED BY <1>2, <2>3, <2>5, <2>6, <2>7
<1> QED BY <1>3, <1>4 DEF fault_get

(* The handler's decrease_refcount keeps the invariant of one processor.   *)
LEMMA FaultDecOneCpu ==
    ASSUME NCPU = 1, CoWIInv, OneCpuInv, NEW p \in Procs, fault_dec(p)
    PROVE  OneCpuInv'
<1> USE DEF OneCpuInv, CoWIInv
<1>0. pc[p] = "fault_dec" /\ state[p] = "RUNNABLE" /\ CanRun(p)
    BY DEF fault_dec, Running
<1>1. PICK v \in Pages : v = va[p] /\ pte[p][v] # NONE
    BY <1>0 DEF Maps, FaultMaps, InFault
<1>2. PICK f \in Frames : f = pte[p][v].pa /\ refcount[f] > 1
    BY <1>0, <1>1, Ranges DEF Alone
<1>3. /\ UNCHANGED <<freelist, data, pte, sz, tlb, state, parent, np, va, mem, oops>>
      /\ refcount' = [refcount EXCEPT ![f] = @ - 1]
      /\ pc' = [pc EXCEPT ![p] = "fault_alloc"]
    BY <1>1, <1>2 DEF fault_dec, decrease_refcount, uvm, proc, Goto
<1>4. /\ pc'[p] = "fault_alloc" /\ \A q \in Procs : q # p => pc'[q] = pc[q]
      /\ refcount'[f] = refcount[f] - 1 /\ \A g \in Frames \ {f} : refcount'[g] = refcount[g]
    BY <1>3 DEF TypeOK
<1>5. refcount'[f] > 0
    BY <1>2, <1>4, Ranges
<1>6. Alone' /\ FreshCopy'
    BY <1>0, <1>1, <1>2, <1>3, <1>4, <1>5, AloneKept, FreshCopyKept
<1>7. Private'
    BY <1>0, <1>3, <1>4, PrivateKept DEF InFork
<1>8. NoStaleTlb' /\ ForkShares'
    BY <1>3, <1>4 DEF NoStaleTlb, ForkShares
<1>9. NoFrameLost'
    BY <1>3, <1>4, <1>5 DEF NoFrameLost
<1> QED BY <1>6, <1>7, <1>8, <1>9

(* The handler's kalloc, also when memory is full, keeps the invariant of  *)
(* one processor.                                                          *)
LEMMA FaultAllocOneCpu ==
    ASSUME NCPU = 1, CoWIInv, CoWIInv', OneCpuInv, NEW p \in Procs, fault_alloc(p)
    PROVE  OneCpuInv'
<1> USE CoWAssumption DEF OneCpuInv, CoWIInv
<1>1. /\ UNCHANGED <<pte, sz, tlb, state, parent, np, va>>
      /\ pc[p] = "fault_alloc" /\ state[p] = "RUNNABLE" /\ CanRun(p)
    BY DEF fault_alloc, uvm, proc, Running
<1>2. PICK v \in Pages : v = va[p] /\ pte[p][v] # NONE /\ mem[p] = NONE
    BY <1>1 DEF Maps, FaultMaps, Slots, InFault
<1>3. PICK o \in Frames : o = pte[p][v].pa /\ refcount[o] > 0
    BY <1>1, <1>2, Ranges DEF Alone
<1>4. ASSUME NEW f \in Frames, kalloc(f, Junk), mem' = [mem EXCEPT ![p] = f], Goto(p, "fault_copy")
      PROVE  OneCpuInv'
    <2> Junk \in Contents
        BY DEF Contents
    <2>1. /\ f \in freelist /\ freelist' = freelist \ {f}
          /\ refcount'[f] = refcount[f] + 1 /\ \A g \in Frames \ {f} : refcount'[g] = refcount[g]
        BY <1>4, KallocTakes DEF kalloc
    <2>2. /\ pc'[p] = "fault_copy" /\ mem'[p] = f
          /\ \A q \in Procs : q # p => pc'[q] = pc[q] /\ mem'[q] = mem[q]
        BY <1>4 DEF TypeOK, Goto
    <2>3. refcount[f] = 0
        BY <2>1 DEF FreeCount
    <2>4. refcount'[o] > 0
        BY <1>3, <2>1, <2>3
    <2>5. Alone'
        BY <1>1, <1>2, <1>3, <2>2, <2>4, AloneKept
    <2>6. FreshCopy'
        <3>1. \A q \in Procs : q # p => pc'[q] \notin NoInterrupts
            BY <1>1, <2>2, Solo
        <3>2. References(f) = {}
            BY <2>1, FreeUnreferenced DEF FreeMeansUnreferenced
        <3>3. \A q \in Procs, w \in Pages : NotYetCounted(q, w)' <=> NotYetCounted(q, w)
            BY <1>1, <2>2, NotYetSame
        <3>4. Counted(p, v)' = f
            BY <1>1, <1>2, <2>2 DEF Counted
        <3>5. ASSUME NEW q \in Procs, NEW w \in Pages, <<q, w>> # <<p, v>>
              PROVE  Counted(q, w)' = Counted(q, w)
            BY <1>1, <1>2, <2>2, <3>3, <3>5 DEF Counted
        <3>6. References(f)' = {<<p, v>>}
            BY <3>2, <3>4, <3>5 DEF References
        <3>7. References(mem[p])' = {<<p, v>>}
            BY <2>2, <3>6 DEF References
        <3> QED BY <1>1, <1>2, <3>1, <3>7 DEF FreshCopy, NoInterrupts
    <2>7. Private'
        BY <1>1, <2>2, PrivateKept DEF InFork
    <2>8. NoStaleTlb' /\ ForkShares'
        BY <1>1, <2>2 DEF NoStaleTlb, ForkShares
    <2>9. NoFrameLost'
        BY <2>1, <2>3 DEF NoFrameLost
    <2> QED BY <2>5, <2>6, <2>7, <2>8, <2>9
<1>5. ASSUME oops' = "null frame used", UNCHANGED <<kmem, mem, pc>> PROVE OneCpuInv'
    <2>1. UNCHANGED <<freelist, refcount, mem, pc>>
        BY <1>5 DEF kmem
    <2>2. Alone' /\ FreshCopy'
        BY <1>1, <1>2, <1>3, <2>1, AloneKept, FreshCopyKept
    <2>3. Private'
        BY <1>1, <2>1, PrivateKept
    <2>4. NoStaleTlb' /\ ForkShares' /\ NoFrameLost'
        BY <1>1, <2>1 DEF NoStaleTlb, ForkShares, NoFrameLost
    <2> QED BY <2>2, <2>3, <2>4
<1> QED BY <1>4, <1>5 DEF fault_alloc

(* Nobody but p maps the frame it copies to.                               *)
LEMMA CopyUnmapped ==
    ASSUME NCPU = 1, CoWIInv, OneCpuInv, NEW p \in Procs, Running(p, "fault_copy")
    PROVE  \A q \in Procs, w \in Pages :
               <<q, w>> # <<p, va[p]>> /\ pte[q][w] # NONE => pte[q][w].pa # mem[p]
<1> USE DEF OneCpuInv, CoWIInv, Running
<1> SUFFICES ASSUME NEW q \in Procs, NEW w \in Pages, <<q, w>> # <<p, va[p]>>,
                    pte[q][w] # NONE, pte[q][w].pa = mem[p]
             PROVE  FALSE
    OBVIOUS
<1>1. \A x \in Procs, u \in Pages : Counted(x, u) = mem[p] => <<x, u>> = <<p, va[p]>>
    BY DEF FreshCopy, References
<1>2. pc[q] \notin {"fault_alloc", "fault_copy"} \/ va[q] # w
    BY Solo DEF NoInterrupts
<1>3. Counted(q, w) # pte[q][w].pa
    BY <1>1
<1>4. PICK x \in Procs : pc[x] = "incref" /\ Counted(x, w) = pte[q][w].pa
    BY <1>2, <1>3, MapperIsCounted
<1>5. x = p
    BY <1>1, <1>4
<1> QED BY <1>4, <1>5

(* The handler's copy and new entry keeps the invariant of one processor.  *)
LEMMA FaultCopyOneCpu ==
    ASSUME NCPU = 1, CoWIInv, OneCpuInv, NEW p \in Procs, fault_copy(p)
    PROVE  OneCpuInv'
<1> USE CoWAssumption DEF OneCpuInv, CoWIInv
<1>0. pc[p] = "fault_copy" /\ state[p] = "RUNNABLE" /\ CanRun(p) /\ Running(p, "fault_copy")
    BY DEF fault_copy, Running
<1>1. PICK v \in Pages : v = va[p] /\ pte[p][v] # NONE
    BY <1>0 DEF Maps, FaultMaps, InFault
<1>2. PICK f \in Frames : f = mem[p]
    BY <1>0, Ranges DEF Slots
<1>3. /\ UNCHANGED <<freelist, refcount, state, parent, np, oops>>
      /\ va' = [va EXCEPT ![p] = 0] /\ pc' = [pc EXCEPT ![p] = "user"]
    BY DEF fault_copy, proc, Goto
<1>4. /\ pte'[p][v] # NONE /\ pte'[p][v].pa = f /\ tlb'[p] = {}
      /\ \A q \in Procs, w \in Pages : <<q, w>> # <<p, v>> => pte'[q][w] = pte[q][w]
      /\ \A q \in Procs : q # p => tlb'[q] = tlb[q]
    <2> DEFINE e == [pa |-> f, W |-> FALSE, CoW |-> FALSE, U |-> TRUE]
    <2>1. e \in PTE /\ e.pa = f
        BY DEF PTE
    <2>2. make_writable(p, v, e)
        BY <1>1, <1>2 DEF fault_copy
    <2> HIDE DEF e
    <2> QED BY <2>1, <2>2, MadeWritable
<1>5. /\ pc'[p] = "user" /\ \A q \in Procs : q # p => pc'[q] = pc[q]
    BY <1>3 DEF TypeOK
<1>6. Alone' /\ FreshCopy'
    BY <1>0, <1>5, AloneKept, FreshCopyKept
<1>7. Private'
    <2>1. \A q \in Procs, w \in Pages :
              <<q, w>> # <<p, v>> /\ pte[q][w] # NONE => pte[q][w].pa # pte'[p][v].pa
        BY <1>0, <1>1, <1>2, <1>4, CopyUnmapped
    <2> QED BY <1>0, <1>3, <1>4, <1>5, <2>1, PrivateGained DEF InFork
<1>8. NoStaleTlb'
    BY <1>0, <1>3, <1>4 DEF NoStaleTlb
<1>9. ForkShares'
    <2> SUFFICES ASSUME NEW q \in Procs, pc'[q] \in {"copyuvm", "incref"}, NEW w \in Pages,
                        pte'[np[q]][w] # NONE
                 PROVE  pte'[np[q]][w].pa = pte'[q][w].pa
        BY <1>3 DEF ForkShares
    <2>1. pc[q] = pc'[q] /\ np[q] \in Procs /\ q # p /\ np[q] # p
        BY <1>0, <1>5, Ranges DEF Slots, InFork
    <2> QED BY <1>4, <2>1 DEF ForkShares
<1>10. NoFrameLost'
    BY <1>3 DEF NoFrameLost
<1> QED BY <1>6, <1>7, <1>8, <1>9, <1>10

(* A fault without a page table keeps the invariant of one processor.      *)
LEMMA FaultFarOneCpu ==
    ASSUME NCPU = 1, CoWIInv, OneCpuInv, NEW p \in Procs, fault_far(p)
    PROVE  OneCpuInv'
<1> USE DEF OneCpuInv, CoWIInv
<1>1. UNCHANGED <<freelist, refcount, pte, sz, tlb, state, parent, pc, np, va, mem>>
      /\ CanRun(p) /\ pc[p] = "user"
    BY DEF fault_far, kmem, uvm, proc, local, Running
<1>2. Alone' /\ FreshCopy'
    BY <1>1, AloneKept, FreshCopyKept
<1>3. Private'
    BY <1>1, PrivateKept
<1>4. NoStaleTlb' /\ ForkShares' /\ NoFrameLost'
    BY <1>1 DEF NoStaleTlb, ForkShares, NoFrameLost
<1> QED BY <1>2, <1>3, <1>4

(* The start of fork keeps the invariant of one processor.                 *)
LEMMA ForkOneCpu ==
    ASSUME NCPU = 1, CoWIInv, OneCpuInv, NEW p \in Procs, NEW c \in Procs, fork(p, c)
    PROVE  OneCpuInv'
<1> USE DEF OneCpuInv, CoWIInv
<1>1. /\ UNCHANGED <<freelist, refcount, data, pte, sz, tlb, parent, va, mem, oops>>
      /\ pc[p] = "user" /\ state[p] = "RUNNABLE" /\ state[c] = "UNUSED" /\ CanRun(p)
      /\ state' = [state EXCEPT ![c] = "EMBRYO"]
      /\ np' = [np EXCEPT ![p] = c]
      /\ pc' = [pc EXCEPT ![p] = "copyuvm"]
    BY DEF fork, kmem, uvm, Running, Goto
<1>2. /\ pc'[p] = "copyuvm" /\ np'[p] = c /\ state'[c] = "EMBRYO"
      /\ \A q \in Procs : q # p => pc'[q] = pc[q] /\ np'[q] = np[q]
      /\ \A q \in Procs : q # c => state'[q] = state[q]
    BY <1>1 DEF TypeOK
<1>3. Alone' /\ FreshCopy'
    BY <1>1, <1>2, AloneKept, FreshCopyKept
<1>4. Private'
    BY <1>1, <1>2, PrivateKept DEF InFork
<1>5. NoStaleTlb'
    BY <1>1, <1>2 DEF NoStaleTlb
<1>6. ForkShares'
    <2>1. \A u \in Pages : pte[c][u] = NONE
        BY <1>1 DEF Maps, LiveMaps
    <2> QED BY <1>1, <1>2, <2>1 DEF ForkShares
<1>7. NoFrameLost'
    BY <1>1 DEF NoFrameLost
<1> QED BY <1>3, <1>4, <1>5, <1>6, <1>7

(* Wait finding a zombie keeps the invariant of one processor.             *)
LEMMA WaitOneCpu ==
    ASSUME NCPU = 1, CoWIInv, OneCpuInv, NEW p \in Procs, NEW c \in Procs, wait(p, c)
    PROVE  OneCpuInv'
<1> USE DEF OneCpuInv, CoWIInv
<1>1. /\ UNCHANGED <<freelist, refcount, data, pte, sz, tlb, state, parent, va, mem, oops>>
      /\ pc[p] = "user" /\ state[p] = "RUNNABLE" /\ CanRun(p)
      /\ np' = [np EXCEPT ![p] = c]
      /\ pc' = [pc EXCEPT ![p] = "reap"]
    BY DEF wait, kmem, uvm, proc, Running, Goto
<1>2. /\ pc'[p] = "reap" /\ np'[p] = c
      /\ \A q \in Procs : q # p => pc'[q] = pc[q] /\ np'[q] = np[q]
    BY <1>1 DEF TypeOK
<1>3. Alone' /\ FreshCopy'
    BY <1>1, <1>2, AloneKept, FreshCopyKept
<1>4. Private'
    BY <1>1, <1>2, PrivateKept DEF InFork
<1>5. NoStaleTlb' /\ NoFrameLost'
    BY <1>1 DEF NoStaleTlb, NoFrameLost
<1>6. ForkShares'
    BY <1>1, <1>2 DEF ForkShares
<1> QED BY <1>3, <1>4, <1>5, <1>6

(* Copyuvm's sharing of a page, also when mappages fails, keeps the        *)
(* invariant of one processor.                                             *)
LEMMA MapOneCpu ==
    ASSUME NCPU = 1, CoWIInv, OneCpuInv, NEW p \in Procs, copyuvm_map(p)
    PROVE  OneCpuInv'
<1> USE CoWAssumption DEF OneCpuInv, CoWIInv
<1>1. /\ UNCHANGED <<freelist, refcount, data, sz, tlb, state, parent, np, va, mem>>
      /\ pc[p] = "copyuvm" /\ state[p] = "RUNNABLE" /\ va[p] < sz[p] /\ CanRun(p)
    BY DEF copyuvm_map, kmem, proc, Running
<1>2. PICK c \in Procs : c = np[p] /\ state[c] = "EMBRYO" /\ pc[c] = "user"
    BY <1>1, Ranges DEF Slots, InFork
<1>3. PICK v \in Pages : v = va[p]
    BY <1>1, Ranges DEF Pages
<1>4. pte[p][v] # NONE /\ pte[p][v] \in PTE /\ pte[c][v] = NONE /\ p # c
    BY <1>1, <1>2, <1>3, Ranges DEF Maps, LiveMaps, ForkMaps
<1>5. PICK m \in PTE : m = marked(pte[p][v]) /\ m.pa = pte[p][v].pa /\ ~m.W /\ m # NONE
    BY <1>4, MarkedEntry
<1>6. (pte' = [pte EXCEPT ![p][v] = m, ![c][v] = m] /\ pc' = [pc EXCEPT ![p] = "incref"])
      \/ (pte' = [pte EXCEPT ![p][v] = m] /\ pc' = [pc EXCEPT ![p] = "bad"])
    BY <1>2, <1>3, <1>4, <1>5 DEF copyuvm_map, Goto
<1>7. /\ pte'[p][v] = m
      /\ \A q \in Procs, w \in Pages : <<q, w>> # <<p, v>> /\ <<q, w>> # <<c, v>> => pte'[q][w] = pte[q][w]
      /\ (pc'[p] = "incref" /\ pte'[c][v] = m) \/ (pc'[p] = "bad" /\ pte'[c][v] = NONE)
      /\ \A q \in Procs : q # p => pc'[q] = pc[q]
    BY <1>4, <1>6 DEF TypeOK
<1>8. Alone' /\ FreshCopy'
    BY <1>1, <1>7, AloneKept, FreshCopyKept
<1>9. Private'
    <2> SUFFICES ASSUME NEW x \in Procs, NEW q \in Procs, NEW u \in Pages, NEW w \in Pages,
                        MayWrite(x, u)', pte'[q][w] # NONE, pte'[q][w].pa = pte'[x][u].pa,
                        <<q, w>> # <<x, u>>
                 PROVE  ~pte'[x][u].W /\ pc'[x] \in InFork /\ <<q, w>> = <<np'[x], u>>
        BY DEF Private
    <2>1. pte'[x][u] # NONE /\ (pte'[x][u].W \/ u \in tlb[x])
        BY <1>1 DEF MayWrite
    <2>2. <<x, u>> # <<c, v>>
        BY <1>2, <1>5, <1>7, <2>1 DEF NoStaleTlb
    <2>3. MayWrite(x, u) /\ pte'[x][u].pa = pte[x][u].pa /\ (pte'[x][u].W => pte[x][u].W)
        BY <1>4, <1>5, <1>7, <2>1, <2>2 DEF MayWrite
    <2>4. pc[x] \in InFork => pc'[x] \in InFork /\ np'[x] = np[x]
        BY <1>1, <1>7 DEF InFork
    <2>5. CASE <<q, w>> # <<c, v>>
        <3>1. pte[q][w] # NONE /\ pte[q][w].pa = pte[x][u].pa
            BY <1>4, <1>5, <1>7, <2>3, <2>5
        <3>2. ~pte[x][u].W /\ pc[x] \in InFork /\ <<q, w>> = <<np[x], u>>
            BY <2>3, <3>1 DEF Private
        <3> QED BY <2>3, <2>4, <3>2
    <2>6. CASE <<q, w>> = <<c, v>>
        <3>1. pte[p][v].pa = pte[x][u].pa /\ pte'[q][w] = m
            BY <1>5, <1>7, <2>3, <2>6
        <3>2. <<x, u>> = <<p, v>>
            <4> SUFFICES ASSUME <<p, v>> # <<x, u>> PROVE FALSE
                OBVIOUS
            <4>1. pc[x] \in InFork /\ p = np[x]
                BY <1>4, <2>3, <3>1 DEF Private
            <4> QED BY <1>1, <4>1 DEF Slots
        <3> QED BY <1>1, <1>2, <1>5, <1>7, <2>4, <2>6, <3>2 DEF InFork
    <2> QED BY <2>5, <2>6
<1>10. NoStaleTlb' /\ NoFrameLost'
    BY <1>1 DEF NoStaleTlb, NoFrameLost
<1>11. ForkShares'
    <2> SUFFICES ASSUME NEW q \in Procs, pc'[q] \in {"copyuvm", "incref"}, NEW w \in Pages,
                        pte'[np[q]][w] # NONE
                 PROVE  pte'[np[q]][w].pa = pte'[q][w].pa
        BY <1>1 DEF ForkShares
    <2>1. pc[q] \in {"copyuvm", "incref"} /\ np[q] \in Procs /\ q # c /\ np[q] # p
        BY <1>1, <1>2, <1>7, Ranges DEF Slots, InFork
    <2>2. pte'[q][w].pa = pte[q][w].pa
        BY <1>5, <1>7, <2>1
    <2>3. CASE <<np[q], w>> = <<c, v>>
        BY <1>1, <1>2, <1>5, <1>7, <2>1, <2>3 DEF Slots
    <2>4. CASE <<np[q], w>> # <<c, v>>
        BY <1>7, <2>1, <2>2, <2>4 DEF ForkShares
    <2> QED BY <2>3, <2>4
<1> QED BY <1>8, <1>9, <1>10, <1>11

(* Copyuvm's increase_refcount keeps the invariant of one processor.       *)
LEMMA IncrefOneCpu ==
    ASSUME NCPU = 1, CoWIInv, OneCpuInv, NEW p \in Procs, copyuvm_incref(p)
    PROVE  OneCpuInv'
<1> USE DEF OneCpuInv, CoWIInv
<1>1. /\ UNCHANGED <<freelist, data, pte, sz, tlb, state, parent, np, mem, oops>>
      /\ pc[p] = "incref" /\ state[p] = "RUNNABLE" /\ CanRun(p)
    BY DEF copyuvm_incref, increase_refcount, uvm, proc, Running
<1>2. PICK f \in Frames : f = pte[p][va[p]].pa
    BY <1>1, IncrefMapped, Ranges
<1>3. refcount' = [refcount EXCEPT ![f] = @ + 1] /\ pc' = [pc EXCEPT ![p] = "copyuvm"]
    BY <1>2 DEF copyuvm_incref, increase_refcount, Goto
<1>4. /\ pc'[p] = "copyuvm" /\ \A q \in Procs : q # p => pc'[q] = pc[q]
      /\ refcount'[f] = refcount[f] + 1 /\ \A g \in Frames \ {f} : refcount'[g] = refcount[g]
    BY <1>3 DEF TypeOK
<1>5. Alone' /\ FreshCopy'
    BY <1>1, <1>4, AloneKept, FreshCopyKept
<1>6. Private'
    BY <1>1, <1>4, PrivateKept DEF InFork
<1>7. NoStaleTlb'
    BY <1>1 DEF NoStaleTlb
<1>8. ForkShares'
    BY <1>1, <1>4 DEF ForkShares
<1>9. NoFrameLost'
    <2>1. refcount[f] \in Nat
        BY CountIsNat
    <2>2. refcount'[f] # 0
        BY <1>4, <2>1
    <2> QED BY <1>1, <1>4, <2>2 DEF NoFrameLost
<1> QED BY <1>5, <1>6, <1>7, <1>8, <1>9

(* The end of fork keeps the invariant of one processor.                   *)
LEMMA ForkDoneOneCpu ==
    ASSUME NCPU = 1, CoWIInv, OneCpuInv, NEW p \in Procs, fork_done(p)
    PROVE  OneCpuInv'
<1> USE CoWAssumption DEF OneCpuInv, CoWIInv
<1>1. /\ UNCHANGED <<freelist, refcount, data, pte, mem, oops>>
      /\ pc[p] = "copyuvm" /\ state[p] = "RUNNABLE" /\ CanRun(p)
    BY DEF fork_done, child_created, kmem, Running
<1>2. PICK c \in Procs : c = np[p] /\ state[c] = "EMBRYO" /\ pc[c] = "user"
    BY <1>1, Ranges DEF Slots, InFork
<1>3. /\ state' = [state EXCEPT ![c] = "RUNNABLE"]
      /\ np' = [np EXCEPT ![p] = NONE] /\ pc' = [pc EXCEPT ![p] = "user"]
      /\ tlb' = [tlb EXCEPT ![p] = {}]
    BY <1>2 DEF fork_done, child_created, Goto
<1>4. /\ pc'[p] = "user" /\ tlb'[p] = {}
      /\ \A q \in Procs : q # p => pc'[q] = pc[q] /\ np'[q] = np[q] /\ tlb'[q] = tlb[q]
      /\ state'[c] = "RUNNABLE" /\ \A q \in Procs : q # c => state'[q] = state[q]
    BY <1>3 DEF TypeOK
<1>5. Alone' /\ FreshCopy'
    BY <1>1, <1>4, AloneKept, FreshCopyKept
<1>6. Private'
    BY <1>1, <1>4, PrivateKept
<1>7. NoStaleTlb'
    BY <1>4 DEF NoStaleTlb
<1>8. ForkShares' /\ NoFrameLost'
    BY <1>1, <1>4 DEF ForkShares, NoFrameLost
<1> QED BY <1>5, <1>6, <1>7, <1>8

(* Freeing one page of a zombie or embryo keeps the invariant of one       *)
(* processor.                                                              *)
LEMMA FreevmPageOneCpu ==
    ASSUME NCPU = 1, CoWIInv, OneCpuInv, NEW p \in Procs, freevm_page(p)
    PROVE  OneCpuInv'
<1> USE CoWAssumption DEF OneCpuInv, CoWIInv
<1>1. /\ UNCHANGED <<sz, tlb, state, parent, pc, np, va, mem>>
      /\ pc[p] \in {"reap", "bad"} /\ state[p] = "RUNNABLE" /\ CanRun(p)
    BY DEF freevm_page, proc, local, Running
<1>2. PICK c \in Procs : c = np[p] /\ state[c] \in {"EMBRYO", "ZOMBIE"} /\ pc[c] = "user"
    BY <1>1, Ranges DEF Slots, InFork
<1>3. PICK v \in Pages : /\ pte[c][v] # NONE /\ kfree(pte[c][v].pa)
                         /\ pte' = [pte EXCEPT ![c][v] = NONE]
    BY <1>2 DEF freevm_page
<1>4. PICK f \in Frames : f = pte[c][v].pa
    BY <1>3, Ranges
<1>5. refcount[f] \in Nat \ {0}
    <2>1. ~NotYetCounted(c, v)
        BY <1>1, <1>2 DEF NotYetCounted, Slots
    <2>2. Counted(c, v) = f
        BY <1>2, <1>3, <1>4, <2>1 DEF Counted
    <2> QED BY <2>2, CountedOnce
<1>6. /\ \A g \in Frames \ {f} : refcount'[g] = refcount[g]
      /\ freelist' = (IF refcount'[f] = 0 THEN freelist \cup {f} ELSE freelist)
    BY <1>3, <1>4, <1>5, KfreeDrops
<1>7. /\ pte'[c][v] = NONE
      /\ \A q \in Procs, w \in Pages : <<q, w>> # <<c, v>> => pte'[q][w] = pte[q][w]
    BY <1>3, Unmapped
<1>8. Alone' /\ FreshCopy'
    BY <1>1, AloneKept, FreshCopyKept
<1>9. Private'
    BY <1>1, <1>7, PrivateKept
<1>10. NoStaleTlb'
    BY <1>1 DEF NoStaleTlb
<1>11. ForkShares'
    <2> SUFFICES ASSUME NEW q \in Procs, pc[q] \in {"copyuvm", "incref"}, NEW w \in Pages,
                        pte'[np[q]][w] # NONE
                 PROVE  pte'[np[q]][w].pa = pte'[q][w].pa
        BY <1>1 DEF ForkShares
    <2>1. np[q] \in Procs /\ q # c
        BY <1>2, Ranges DEF Slots, InFork
    <2> QED BY <1>7, <2>1 DEF ForkShares
<1>12. NoFrameLost'
    BY <1>6 DEF NoFrameLost
<1> QED BY <1>8, <1>9, <1>10, <1>11, <1>12

(* The end of freevm keeps the invariant of one processor.                 *)
LEMMA FreevmDoneOneCpu ==
    ASSUME NCPU = 1, CoWIInv, OneCpuInv, NEW p \in Procs, freevm_done(p)
    PROVE  OneCpuInv'
<1> USE CoWAssumption DEF OneCpuInv, CoWIInv
<1>1. /\ UNCHANGED <<freelist, refcount, data, pte, mem, oops>>
      /\ pc[p] \in {"reap", "bad"} /\ state[p] = "RUNNABLE" /\ CanRun(p)
    BY DEF freevm_done, kmem, Running
<1>2. PICK c \in Procs : c = np[p] /\ state[c] \in {"EMBRYO", "ZOMBIE"} /\ pc[c] = "user"
    BY <1>1, Ranges DEF Slots, InFork
<1>3. /\ state' = [state EXCEPT ![c] = "UNUSED"]
      /\ np' = [np EXCEPT ![p] = NONE] /\ pc' = [pc EXCEPT ![p] = "user"]
      /\ tlb' = [tlb EXCEPT ![c] = {}]
      /\ \A u \in Pages : pte[c][u] = NONE
    BY <1>2 DEF freevm_done, Goto
<1>4. /\ pc'[p] = "user" /\ tlb'[c] = {}
      /\ \A q \in Procs : q # p => pc'[q] = pc[q] /\ np'[q] = np[q]
      /\ \A q \in Procs : q # c => state'[q] = state[q] /\ tlb'[q] = tlb[q]
    BY <1>3 DEF TypeOK
<1>5. Alone' /\ FreshCopy'
    BY <1>1, <1>4, AloneKept, FreshCopyKept
<1>6. Private'
    BY <1>1, <1>2, <1>3, <1>4, PrivateKept
<1>7. NoStaleTlb'
    BY <1>4 DEF NoStaleTlb
<1>8. ForkShares' /\ NoFrameLost'
    BY <1>1, <1>4 DEF ForkShares, NoFrameLost
<1> QED BY <1>5, <1>6, <1>7, <1>8

(* Sbrk by one page keeps the invariant of one processor.                  *)
LEMMA GrowOneCpu ==
    ASSUME NCPU = 1, CoWIInv, OneCpuInv, NEW p \in Procs, sbrk_grow(p)
    PROVE  OneCpuInv'
<1> USE CoWAssumption DEF OneCpuInv, CoWIInv
<1>1. /\ UNCHANGED <<state, parent, pc, np, va, mem>>
      /\ pc[p] = "user" /\ state[p] = "RUNNABLE" /\ sz[p] < NPAGES /\ CanRun(p)
      /\ tlb' = [tlb EXCEPT ![p] = {}]
    BY DEF sbrk_grow, proc, local, Running
<1>2. PICK v \in Pages : v = sz[p]
    BY <1>1, Ranges DEF Pages
<1>3. PICK f \in Frames : /\ kalloc(f, Zero)
                          /\ pte' = [pte EXCEPT ![p][v] = [pa |-> f, W |-> TRUE, CoW |-> FALSE, U |-> TRUE]]
    BY <1>2 DEF sbrk_grow
<1>4. /\ pte'[p][v].pa = f
      /\ \A q \in Procs, w \in Pages : <<q, w>> # <<p, v>> => pte'[q][w] = pte[q][w]
    BY <1>3 DEF TypeOK
<1>5. Zero \in Contents
    BY DEF Contents
<1>6. /\ f \in freelist /\ freelist' = freelist \ {f}
      /\ refcount'[f] = refcount[f] + 1 /\ \A g \in Frames \ {f} : refcount'[g] = refcount[g]
    BY <1>3, <1>5, KallocTakes DEF kalloc
<1>7. tlb'[p] = {} /\ \A q \in Procs : q # p => tlb'[q] = tlb[q]
    BY <1>1 DEF TypeOK
<1>8. Alone' /\ FreshCopy'
    BY <1>1, AloneKept, FreshCopyKept
<1>9. Private'
    <2>1. \A q \in Procs, w \in Pages :
              <<q, w>> # <<p, v>> /\ pte[q][w] # NONE => pte[q][w].pa # pte'[p][v].pa
        BY <1>4, <1>6, FreeIsUnmapped
    <2> QED BY <1>1, <1>4, <1>7, <2>1, PrivateGained DEF InFork
<1>10. NoStaleTlb'
    BY <1>1, <1>7 DEF NoStaleTlb
<1>11. ForkShares'
    <2> SUFFICES ASSUME NEW q \in Procs, pc[q] \in {"copyuvm", "incref"}, NEW w \in Pages,
                        pte'[np[q]][w] # NONE
                 PROVE  pte'[np[q]][w].pa = pte'[q][w].pa
        BY <1>1 DEF ForkShares
    <2>1. np[q] \in Procs /\ q # p /\ np[q] # p
        BY <1>1, Ranges DEF Slots, InFork
    <2> QED BY <1>4, <2>1 DEF ForkShares
<1>12. NoFrameLost'
    <2>1. refcount[f] = 0
        BY <1>6 DEF FreeCount
    <2> QED BY <1>6, <2>1 DEF NoFrameLost
<1> QED BY <1>8, <1>9, <1>10, <1>11, <1>12

(* Sbrk by minus one page keeps the invariant of one processor.            *)
LEMMA ShrinkOneCpu ==
    ASSUME NCPU = 1, CoWIInv, OneCpuInv, NEW p \in Procs, sbrk_shrink(p)
    PROVE  OneCpuInv'
<1> USE CoWAssumption DEF OneCpuInv, CoWIInv
<1>1. /\ UNCHANGED <<state, parent, pc, np, va, mem>>
      /\ pc[p] = "user" /\ state[p] = "RUNNABLE" /\ sz[p] - 1 >= InitPages /\ CanRun(p)
      /\ tlb' = [tlb EXCEPT ![p] = {}]
    BY DEF sbrk_shrink, proc, local, Running
<1>2. PICK v \in Pages : v = sz[p] - 1 /\ v < sz[p]
    BY <1>1, Ranges DEF Pages
<1>3. kfree(pte[p][v].pa) /\ pte' = [pte EXCEPT ![p][v] = NONE] /\ pte[p][v] # NONE
    BY <1>1, <1>2 DEF sbrk_shrink, Maps, LiveMaps
<1>4. PICK f \in Frames : f = pte[p][v].pa
    BY <1>3, Ranges
<1>5. refcount[f] \in Nat \ {0}
    <2>1. Counted(p, v) = f
        BY <1>1, <1>3, <1>4, NotYetCountedIsEmbryo DEF EmbryosOnly, Counted
    <2> QED BY <2>1, CountedOnce
<1>6. /\ \A g \in Frames \ {f} : refcount'[g] = refcount[g]
      /\ freelist' = (IF refcount'[f] = 0 THEN freelist \cup {f} ELSE freelist)
    BY <1>3, <1>4, <1>5, KfreeDrops
<1>7. /\ pte'[p][v] = NONE
      /\ \A q \in Procs, w \in Pages : <<q, w>> # <<p, v>> => pte'[q][w] = pte[q][w]
      /\ tlb'[p] = {} /\ \A q \in Procs : q # p => tlb'[q] = tlb[q]
    BY <1>1, <1>3, Unmapped DEF TypeOK
<1>8. Alone' /\ FreshCopy'
    BY <1>1, AloneKept, FreshCopyKept
<1>9. Private'
    BY <1>1, <1>7, PrivateKept
<1>10. NoStaleTlb'
    BY <1>1, <1>7 DEF NoStaleTlb
<1>11. ForkShares'
    <2> SUFFICES ASSUME NEW q \in Procs, pc[q] \in {"copyuvm", "incref"}, NEW w \in Pages,
                        pte'[np[q]][w] # NONE
                 PROVE  pte'[np[q]][w].pa = pte'[q][w].pa
        BY <1>1 DEF ForkShares
    <2>1. np[q] \in Procs /\ q # p /\ np[q] # p
        BY <1>1, Ranges DEF Slots, InFork
    <2> QED BY <1>7, <2>1 DEF ForkShares
<1>12. NoFrameLost'
    BY <1>6 DEF NoFrameLost
<1> QED BY <1>8, <1>9, <1>10, <1>11, <1>12

----------------------------------------------------------------------------
(* The invariant of one processor holds at the start.                      *)
LEMMA OneCpuInit == Init => OneCpuInv
<1> SUFFICES ASSUME Init PROVE OneCpuInv
    OBVIOUS
<1> USE CoWAssumption
<1> DEFINE First == 0 .. InitPages - 1
<1>1. PICK frame \in [First -> Frames] :
        /\ \A v, w \in First : frame[v] = frame[w] => v = w
        /\ freelist = Frames \ {frame[v] : v \in First}
        /\ refcount = [f \in Frames |-> IF f \in {frame[v] : v \in First} THEN 1 ELSE 0]
        /\ pte = [p \in Procs |-> [v \in Pages |->
                    IF p = initproc /\ v < InitPages
                    THEN [pa |-> frame[v], W |-> TRUE, CoW |-> FALSE, U |-> v \notin Guard]
                    ELSE NONE]]
        /\ tlb = [p \in Procs |-> {}]
        /\ pc = [p \in Procs |-> "user"]
    BY DEF Init
<1>2. \A v \in Pages : v < InitPages <=> v \in First
    BY DEF Pages
<1>3. \A p \in Procs, v \in Pages : pte[p][v] # NONE => p = initproc /\ v \in First /\ pte[p][v].pa = frame[v]
    BY <1>1, <1>2
<1>4. \A p \in Procs : pc[p] = "user" /\ tlb[p] = {}
    BY <1>1
<1>5. Alone /\ FreshCopy /\ NoStaleTlb /\ ForkShares
    BY <1>4 DEF Alone, FreshCopy, NoStaleTlb, ForkShares, NoInterrupts
<1>6. Private
    BY <1>1, <1>3 DEF Private, MayWrite
<1>7. NoFrameLost
    BY <1>1 DEF NoFrameLost
<1> QED BY <1>5, <1>6, <1>7 DEF OneCpuInv

(* Every step on one processor preserves its invariant.                    *)
LEMMA OneCpuNext ==
    ASSUME NCPU = 1
    PROVE  CoWIInv /\ CoWIInv' /\ OneCpuInv /\ [Next]_vars => OneCpuInv'
<1>1. ASSUME OneCpuInv, UNCHANGED vars PROVE OneCpuInv'
    <2>1. UNCHANGED <<freelist, refcount, data, pte, sz, tlb, state, parent, pc, np, va, mem, oops>>
        BY <1>1 DEF vars, kmem, uvm, proc, local
    <2>2. Alone' /\ NoStaleTlb' /\ ForkShares' /\ NoFrameLost'
        BY <1>1, <2>1 DEF OneCpuInv, Alone, NoStaleTlb, ForkShares, NoFrameLost
    <2>3. Private'
        BY <1>1, <2>1 DEF OneCpuInv, Private, MayWrite
    <2>4. FreshCopy'
        BY <1>1, <2>1 DEF OneCpuInv, FreshCopy, References, Counted, NotYetCounted
    <2> QED BY <2>2, <2>3, <2>4 DEF OneCpuInv
<1>2. ASSUME CoWIInv, OneCpuInv, NEW p \in Procs, NEW v \in Touched \ {Far}, NEW x \in Vals, user_write(p, v, x)
      PROVE  OneCpuInv'
    <2>1. v \in Pages
        BY <1>2 DEF user_write
    <2> QED BY <1>2, <2>1, WriteOneCpu
<1>3. ASSUME CoWIInv, CoWIInv', OneCpuInv, NEW p \in Procs, page_fault(p) PROVE OneCpuInv'
    <2>1. ASSUME NEW v \in Touched \ {Far}, fault_get(p, v) PROVE OneCpuInv'
        <3>1. v \in Pages
            BY <2>1 DEF fault_get
        <3> QED BY <1>3, <2>1, <3>1, FaultGetOneCpu
    <2>2. ASSUME NEW v \in Touched \ {Far}, fault_kill(p, v) PROVE OneCpuInv'
        BY <1>3, <2>2, ExitOneCpu DEF fault_kill
    <2> QED BY <1>3, <2>1, <2>2, FaultFarOneCpu, FaultDecOneCpu, FaultAllocOneCpu,
               FaultCopyOneCpu DEF page_fault
<1>4. ASSUME CoWIInv, OneCpuInv, NEW p \in Procs, sys_exit(p) PROVE OneCpuInv'
    BY <1>4, ExitOneCpu DEF sys_exit
<1> QED BY <1>1, <1>2, <1>3, <1>4, ForkOneCpu, WaitOneCpu, MapOneCpu, IncrefOneCpu,
           ForkDoneOneCpu, FreevmPageOneCpu, FreevmDoneOneCpu, GrowOneCpu, ShrinkOneCpu DEF Next

(* On one processor both invariants hold in every reachable state.         *)
LEMMA OneCpuInductive ==
    ASSUME NCPU = 1
    PROVE  Spec => [](CoWIInv /\ OneCpuInv)
<1>1. Init => CoWIInv /\ OneCpuInv
    BY InitInductive, OneCpuInit
<1>2. CoWIInv /\ OneCpuInv /\ [Next]_vars => (CoWIInv /\ OneCpuInv)'
    BY NextInductive, OneCpuNext
<1> QED BY <1>1, <1>2, PTL DEF Spec

(* On one processor a page is writable, by its entry or by a translation   *)
(* left in the TLB, only for the process that alone maps its frame.        *)
THEOREM WritesArePrivate ==
    ASSUME NCPU = 1
    PROVE  Spec => []WritableMeansPrivate
<1>1. CoWIInv /\ OneCpuInv => WritableMeansPrivate
    BY DEF OneCpuInv, Private, MayWrite, WritableMeansPrivate, Writable, InFork
<1> QED BY <1>1, OneCpuInductive, PTL

(* On one processor every frame whose count is zero is on the free list.   *)
THEOREM FramesComeBack ==
    ASSUME NCPU = 1
    PROVE  Spec => []NoFrameLost
<1>1. CoWIInv /\ OneCpuInv => NoFrameLost
    BY DEF OneCpuInv
<1> QED BY <1>1, OneCpuInductive, PTL

----------------------------------------------------------------------------
(* The refinement of ForkMem on one processor.                             *)
vmem == [p \in Procs |-> Memory(p)]

(* A live process has a memory of sz pages.                                *)
LEMMA LiveMemory ==
    ASSUME TypeOK, Maps, NEW p \in Procs, state[p] = "RUNNABLE"
    PROVE  /\ vmem[p] = [i \in 1 .. sz[p] |-> data[pte[p][i - 1].pa]]
           /\ vmem[p] \in [1 .. sz[p] -> Contents]
           /\ vmem[p] # NONE
<1>1. vmem[p] = [i \in 1 .. sz[p] |-> data[pte[p][i - 1].pa]]
    BY DEF vmem, Memory
<1>2. ASSUME NEW i \in 1 .. sz[p] PROVE data[pte[p][i - 1].pa] \in Contents
    <2>1. i - 1 \in Pages /\ i - 1 < sz[p]
        BY Ranges, CoWAssumption DEF Pages
    <2>2. pte[p][i - 1].pa \in Frames
        BY <2>1, Ranges DEF Maps, LiveMaps
    <2> QED BY <2>2 DEF TypeOK
<1>3. vmem[p] \in [1 .. sz[p] -> Contents]
    BY <1>1, <1>2
<1>4. sz[p] \in 0 .. NPAGES
    BY Ranges
<1> QED BY <1>1, <1>3, <1>4, MemoryAssumption

(* A function on 1 .. n is a sequence of length n.                         *)
LEMMA FunctionIsSeq ==
    ASSUME NEW S, NEW n \in Nat, NEW s \in [1 .. n -> S]
    PROVE  s \in Seq(S) /\ Len(s) = n
<1>1. s \in Seq(S)
    BY SeqDef
<1>2. Len(s) \in Nat /\ DOMAIN s = 1 .. Len(s)
    BY <1>1
<1> QED BY <1>1, <1>2

(* A process whose pages keep their contents keeps its memory.             *)
LEMMA MemorySame ==
    ASSUME TypeOK, NEW q \in Procs, state'[q] = state[q], sz'[q] = sz[q],
           state[q] = "RUNNABLE" =>
               \A w \in Pages : w < sz[q] => data'[pte'[q][w].pa] = data[pte[q][w].pa]
    PROVE  vmem'[q] = vmem[q]
<1>1. CASE state[q] # "RUNNABLE"
    BY <1>1 DEF vmem, Memory
<1>2. CASE state[q] = "RUNNABLE"
    <2>1. \A i \in 1 .. sz[q] : i - 1 \in Pages /\ i - 1 < sz[q]
        BY Ranges, CoWAssumption DEF Pages
    <2>2. \A i \in 1 .. sz[q] : data'[pte'[q][i - 1].pa] = data[pte[q][i - 1].pa]
        BY <1>2, <2>1
    <2> QED BY <1>2, <2>2 DEF vmem, Memory
<1> QED BY <1>1, <1>2

(* If no process's memory changes, the abstract state does not either.     *)
LEMMA NobodySees ==
    ASSUME \A q \in Procs : vmem'[q] = vmem[q]
    PROVE  vmem' = vmem
<1>1. vmem = [p \in Procs |-> vmem[p]] /\ vmem' = [p \in Procs |-> vmem'[p]]
    BY DEF vmem
<1> QED BY <1>1

(* Only the memory of p changes.                                           *)
LEMMA OnlyOneSees ==
    ASSUME NEW p \in Procs, NEW m, vmem'[p] = m, \A q \in Procs : q # p => vmem'[q] = vmem[q]
    PROVE  vmem' = [vmem EXCEPT ![p] = m]
<1>1. vmem = [q \in Procs |-> vmem[q]] /\ vmem' = [q \in Procs |-> vmem'[q]]
    BY DEF vmem
<1> HIDE DEF vmem
<1> QED BY <1>1

(* A frame whose last counted reference goes is seen by no other live      *)
(* process.                                                                *)
LEMMA LastReference ==
    ASSUME CoWIInv, NEW f \in Frames, NEW c \in Procs, NEW v \in Pages, Counted(c, v) = f,
           refcount[f] = 1,
           NEW q \in Procs, NEW w \in Pages, <<q, w>> # <<c, v>>, state[q] = "RUNNABLE",
           pc[q] \notin {"fault_alloc", "fault_copy"}, pte[q][w] # NONE
    PROVE  pte[q][w].pa # f
<1> USE DEF CoWIInv
<1> SUFFICES ASSUME pte[q][w].pa = f PROVE FALSE
    OBVIOUS
<1>1. Counted(q, w) = f
    BY NotYetCountedIsEmbryo DEF EmbryosOnly, Counted
<1>2. refcount[f] > 1
    BY <1>1, CountedTwice
<1> QED BY <1>2

(* A program's write to its page is the same step of ForkMem.              *)
LEMMA WriteRefines ==
    ASSUME NCPU = 1, CoWIInv, OneCpuInv, NEW p \in Procs, NEW v \in Pages, NEW x \in Vals, user_write(p, v, x)
    PROVE  AbstractMemory!Write(p)
<1> USE DEF CoWIInv, OneCpuInv
<1>1. UNCHANGED <<pte, sz, state>> /\ pc[p] = "user" /\ state[p] = "RUNNABLE" /\ pte[p][v] # NONE /\ MayWrite(p, v)
    BY DEF user_write, proc, Running, Writable, MayWrite
<1>2. PICK f \in Frames : f = pte[p][v].pa
    BY <1>1, Ranges
<1>3. data'[f] = x /\ \A g \in Frames : g # f => data'[g] = data[g]
    BY <1>2 DEF user_write, TypeOK
<1>4. \A q \in Procs, w \in Pages : <<q, w>> # <<p, v>> /\ pte[q][w] # NONE =>
          pte[q][w].pa # f /\ pte[q][w].pa \in Frames
    BY <1>1, <1>2, Ranges DEF Private, InFork
<1>5. ASSUME NEW q \in Procs, q # p PROVE vmem'[q] = vmem[q]
    <2>1. state[q] = "RUNNABLE" => \A w \in Pages : w < sz[q] => data'[pte'[q][w].pa] = data[pte[q][w].pa]
        BY <1>1, <1>3, <1>4, <1>5 DEF Maps, LiveMaps
    <2> QED BY <1>1, <2>1, MemorySame
<1>6. v < sz[p]
    BY <1>1 DEF Maps, LiveMaps
<1>7. PICK i \in 1 .. sz[p] : i = v + 1 /\ i - 1 = v
    BY <1>6, Ranges DEF Pages
<1>8. vmem'[p] = [vmem[p] EXCEPT ![i] = x]
    <2>1. vmem[p] = [j \in 1 .. sz[p] |-> data[pte[p][j - 1].pa]]
        BY <1>1, LiveMemory
    <2>2. vmem'[p] = [j \in 1 .. sz[p] |-> data'[pte[p][j - 1].pa]]
        BY <1>1 DEF vmem, Memory
    <2>3. data'[pte[p][i - 1].pa] = x
        BY <1>2, <1>3, <1>7
    <2>4. ASSUME NEW j \in 1 .. sz[p], j # i PROVE data'[pte[p][j - 1].pa] = data[pte[p][j - 1].pa]
        <3>1. j - 1 \in Pages /\ j - 1 < sz[p] /\ j - 1 # v
            BY <1>7, <2>4, Ranges, CoWAssumption DEF Pages
        <3>2. pte[p][j - 1] # NONE
            BY <1>1, <3>1 DEF Maps, LiveMaps
        <3> QED BY <1>3, <1>4, <3>1, <3>2
    <2>5. \A j \in 1 .. sz[p] : data'[pte[p][j - 1].pa] = IF j = i THEN x ELSE vmem[p][j]
        BY <2>1, <2>3, <2>4
    <2>6. vmem'[p] = [j \in 1 .. sz[p] |-> IF j = i THEN x ELSE vmem[p][j]]
        BY <2>2, <2>5
    <2>7. vmem[p] \in [1 .. sz[p] -> Contents]
        BY <1>1, LiveMemory
    <2> HIDE DEF vmem
    <2> QED BY <2>6, <2>7
<1>9. vmem' = [vmem EXCEPT ![p] = [vmem[p] EXCEPT ![i] = x]]
    BY <1>5, <1>8, OnlyOneSees
<1>10. vmem[p] # NONE /\ i \in DOMAIN vmem[p]
    BY <1>1, LiveMemory
<1>11. vmem' = [vmem EXCEPT ![p][i] = x]
    BY <1>9
<1> QED BY <1>10, <1>11 DEF AbstractMemory!Write, AbstractMemory!Alive, vmem

(* Exit, called or forced by a fault, is the same step of ForkMem.         *)
LEMMA ExitRefines ==
    ASSUME CoWIInv, NEW p \in Procs, Running(p, "user"), exit(p)
    PROVE  AbstractMemory!Exit(p)
<1> USE DEF CoWIInv, Running
<1>1. UNCHANGED <<data, pte, sz>>
    BY DEF exit, kmem, uvm
<1>2. state'[p] = "ZOMBIE" /\ \A q \in Procs : q # p => state'[q] = state[q]
    BY DEF exit, TypeOK
<1>3. vmem'[p] = NONE
    BY <1>2 DEF vmem, Memory
<1>4. \A q \in Procs : q # p => vmem'[q] = vmem[q]
    BY <1>1, <1>2, MemorySame
<1>5. vmem' = [vmem EXCEPT ![p] = NONE]
    BY <1>3, <1>4, OnlyOneSees
<1>6. vmem[p] # NONE
    BY LiveMemory
<1> QED BY <1>5, <1>6 DEF AbstractMemory!Exit, AbstractMemory!Alive, vmem

(* The start of fork is the same step of ForkMem.                          *)
LEMMA ForkRefines ==
    ASSUME CoWIInv, OneCpuInv, NEW p \in Procs, fork_done(p)
    PROVE  \E c \in Procs : AbstractMemory!Fork(p, c)
<1> USE CoWAssumption DEF CoWIInv, OneCpuInv
<1>1. /\ UNCHANGED <<data, pte>>
      /\ pc[p] = "copyuvm" /\ state[p] = "RUNNABLE" /\ va[p] >= sz[p]
    BY DEF fork_done, child_created, kmem, Running
<1>2. PICK c \in Procs : c = np[p] /\ state[c] = "EMBRYO"
    BY <1>1, Ranges DEF Slots, InFork
<1>3. sz' = [sz EXCEPT ![c] = sz[p]] /\ state' = [state EXCEPT ![c] = "RUNNABLE"]
    BY <1>2 DEF fork_done, child_created
<1>4. /\ state'[c] = "RUNNABLE" /\ sz'[c] = sz[p]
      /\ \A q \in Procs : q # c => state'[q] = state[q] /\ sz'[q] = sz[q]
    BY <1>3 DEF TypeOK
<1>5. ASSUME NEW i \in 1 .. sz[p] PROVE pte[c][i - 1].pa = pte[p][i - 1].pa
    <2>1. i - 1 \in Pages /\ i - 1 < va[p]
        BY <1>1, Ranges DEF Pages
    <2>2. pte[c][i - 1] # NONE
        BY <1>1, <1>2, <2>1 DEF Maps, ForkMaps
    <2> QED BY <1>1, <1>2, <2>1, <2>2 DEF ForkShares
<1>6. vmem'[c] = vmem[p]
    <2>1. vmem'[c] = [i \in 1 .. sz[p] |-> data[pte[c][i - 1].pa]]
        BY <1>1, <1>4 DEF vmem, Memory
    <2>2. vmem[p] = [i \in 1 .. sz[p] |-> data[pte[p][i - 1].pa]]
        BY <1>1, LiveMemory
    <2> QED BY <1>5, <2>1, <2>2
<1>7. \A q \in Procs : q # c => vmem'[q] = vmem[q]
    BY <1>1, <1>4, MemorySame
<1>8. vmem' = [vmem EXCEPT ![c] = vmem[p]]
    BY <1>6, <1>7, OnlyOneSees
<1>9. vmem[p] # NONE /\ vmem[c] = NONE
    <2>1. vmem[c] = NONE
        BY <1>2 DEF vmem, Memory
    <2> QED BY <1>1, <2>1, LiveMemory
<1> QED BY <1>8, <1>9 DEF AbstractMemory!Fork, AbstractMemory!Alive, vmem

(* Sbrk by one page is the same step of ForkMem.                           *)
LEMMA GrowRefines ==
    ASSUME NCPU = 1, CoWIInv, OneCpuInv, NEW p \in Procs, sbrk_grow(p)
    PROVE  AbstractMemory!Grow(p)
<1> USE CoWAssumption DEF CoWIInv, OneCpuInv
<1>1. /\ state' = state /\ state[p] = "RUNNABLE" /\ sz[p] < NPAGES
      /\ sz' = [sz EXCEPT ![p] = @ + 1]
    BY DEF sbrk_grow, proc, Running
<1>2. PICK v \in Pages : v = sz[p]
    BY <1>1, Ranges DEF Pages
<1>3. PICK f \in Frames : /\ kalloc(f, Zero)
                          /\ pte' = [pte EXCEPT ![p][v] = [pa |-> f, W |-> TRUE, CoW |-> FALSE, U |-> TRUE]]
    BY <1>2 DEF sbrk_grow
<1>4. /\ pte'[p][v].pa = f
      /\ \A q \in Procs, w \in Pages : <<q, w>> # <<p, v>> => pte'[q][w] = pte[q][w]
    BY <1>3 DEF TypeOK
<1>5. f \in freelist /\ data'[f] = Zero /\ \A g \in Frames : g # f => data'[g] = data[g]
    BY <1>3 DEF kalloc, TypeOK
<1>6. sz'[p] = sz[p] + 1 /\ \A q \in Procs : q # p => sz'[q] = sz[q]
    BY <1>1 DEF TypeOK
<1>7. \A q \in Procs, w \in Pages : pte[q][w] # NONE => pte[q][w].pa # f /\ pte[q][w].pa \in Frames
    BY <1>5, FreeIsUnmapped, Ranges
<1>8. ASSUME NEW q \in Procs, q # p PROVE vmem'[q] = vmem[q]
    <2>1. state[q] = "RUNNABLE" => \A w \in Pages : w < sz[q] => data'[pte'[q][w].pa] = data[pte[q][w].pa]
        BY <1>4, <1>5, <1>7, <1>8 DEF Maps, LiveMaps
    <2> QED BY <1>1, <1>6, <1>8, <2>1, MemorySame
<1>9. vmem'[p] = Append(vmem[p], Zero)
    <2>1. vmem[p] = [i \in 1 .. sz[p] |-> data[pte[p][i - 1].pa]] /\ vmem[p] \in [1 .. sz[p] -> Contents]
        BY <1>1, LiveMemory
    <2>2. vmem'[p] = [i \in 1 .. sz[p] + 1 |-> data'[pte'[p][i - 1].pa]]
        BY <1>1, <1>6 DEF vmem, Memory
    <2>3. ASSUME NEW i \in 1 .. sz[p] PROVE data'[pte'[p][i - 1].pa] = data[pte[p][i - 1].pa]
        <3>1. i - 1 \in Pages /\ i - 1 < sz[p] /\ i - 1 # v
            BY <1>2, Ranges DEF Pages
        <3>2. pte[p][i - 1] # NONE
            BY <1>1, <3>1 DEF Maps, LiveMaps
        <3> QED BY <1>4, <1>5, <1>7, <3>1, <3>2
    <2>4. data'[pte'[p][(sz[p] + 1) - 1].pa] = Zero
        BY <1>2, <1>4, <1>5, Ranges
    <2>5. sz[p] \in Nat
        BY Ranges
    <2>6. vmem[p] \in Seq(Contents) /\ Len(vmem[p]) = sz[p]
        BY <2>1, <2>5, FunctionIsSeq
    <2>7. Append(vmem[p], Zero) = [i \in 1 .. sz[p] + 1 |-> IF i <= sz[p] THEN vmem[p][i] ELSE Zero]
        BY <2>5, <2>6
    <2> QED BY <2>1, <2>2, <2>3, <2>4, <2>5, <2>7
<1>10. vmem' = [vmem EXCEPT ![p] = Append(vmem[p], Zero)]
    BY <1>8, <1>9, OnlyOneSees
<1>11. vmem[p] # NONE
    BY <1>1, LiveMemory
<1> QED BY <1>10, <1>11 DEF AbstractMemory!Grow, AbstractMemory!Alive, vmem

(* Sbrk by minus one page is the same step of ForkMem.                     *)
LEMMA ShrinkRefines ==
    ASSUME NCPU = 1, CoWIInv, OneCpuInv, NEW p \in Procs, sbrk_shrink(p)
    PROVE  AbstractMemory!Shrink(p)
<1> USE CoWAssumption DEF CoWIInv, OneCpuInv
<1>1. /\ state' = state /\ pc[p] = "user" /\ state[p] = "RUNNABLE" /\ sz[p] - 1 >= InitPages /\ CanRun(p)
      /\ sz' = [sz EXCEPT ![p] = sz[p] - 1]
    BY DEF sbrk_shrink, proc, Running
<1>2. PICK v \in Pages : v = sz[p] - 1 /\ v < sz[p]
    BY <1>1, Ranges DEF Pages
<1>3. kfree(pte[p][v].pa) /\ pte' = [pte EXCEPT ![p][v] = NONE] /\ pte[p][v] # NONE
    BY <1>1, <1>2 DEF sbrk_shrink, Maps, LiveMaps
<1>4. PICK f \in Frames : f = pte[p][v].pa
    BY <1>3, Ranges
<1>5. Counted(p, v) = f
    BY <1>1, <1>3, <1>4, NotYetCountedIsEmbryo DEF EmbryosOnly, Counted
<1>6. refcount[f] \in Nat \ {0}
    BY <1>5, CountedOnce
<1>7. /\ refcount'[f] = refcount[f] - 1 /\ \A g \in Frames : g # f => data'[g] = data[g]
      /\ refcount'[f] # 0 => data' = data
    BY <1>3, <1>4, <1>6, KfreeDrops
<1>8. \A q \in Procs, w \in Pages : <<q, w>> # <<p, v>> => pte'[q][w] = pte[q][w]
    BY <1>3, Unmapped
<1>9. sz'[p] = sz[p] - 1 /\ \A q \in Procs : q # p => sz'[q] = sz[q]
    BY <1>1 DEF TypeOK
<1>10. ASSUME NEW q \in Procs, NEW w \in Pages, <<q, w>> # <<p, v>>, state[q] = "RUNNABLE", pte[q][w] # NONE
       PROVE  data'[pte'[q][w].pa] = data[pte[q][w].pa]
    <2>1. pc[q] \notin {"fault_alloc", "fault_copy"}
        BY <1>1, Solo DEF NoInterrupts
    <2>2. pte[q][w].pa \in Frames
        BY <1>10, Ranges
    <2>3. CASE refcount'[f] # 0
        BY <1>7, <1>8, <1>10, <2>3
    <2>4. CASE refcount'[f] = 0
        <3>1. refcount[f] = 1
            BY <1>6, <1>7, <2>4
        <3>2. pte[q][w].pa # f
            BY <1>5, <1>10, <2>1, <3>1, LastReference
        <3> QED BY <1>7, <1>8, <1>10, <2>2, <3>2
    <2> QED BY <2>3, <2>4
<1>11. ASSUME NEW q \in Procs, q # p PROVE vmem'[q] = vmem[q]
    <2>1. state[q] = "RUNNABLE" => \A w \in Pages : w < sz[q] => data'[pte'[q][w].pa] = data[pte[q][w].pa]
        BY <1>10, <1>11 DEF Maps, LiveMaps
    <2> QED BY <1>1, <1>9, <1>11, <2>1, MemorySame
<1>12. sz[p] \in Nat /\ sz[p] > 1
    BY <1>1, Ranges
<1>13. vmem[p] = [i \in 1 .. sz[p] |-> data[pte[p][i - 1].pa]] /\ vmem[p] \in [1 .. sz[p] -> Contents]
    BY <1>1, LiveMemory
<1>14. vmem[p] \in Seq(Contents) /\ Len(vmem[p]) = sz[p]
    BY <1>12, <1>13, FunctionIsSeq
<1>15. vmem'[p] = SubSeq(vmem[p], 1, Len(vmem[p]) - 1)
    <2>1. vmem'[p] = [i \in 1 .. sz[p] - 1 |-> data'[pte'[p][i - 1].pa]]
        BY <1>1, <1>9 DEF vmem, Memory
    <2>2. ASSUME NEW i \in 1 .. sz[p] - 1 PROVE data'[pte'[p][i - 1].pa] = data[pte[p][i - 1].pa]
        <3>1. i - 1 \in Pages /\ i - 1 < sz[p] /\ i - 1 # v
            BY <1>2, Ranges DEF Pages
        <3>2. pte[p][i - 1] # NONE
            BY <1>1, <3>1 DEF Maps, LiveMaps
        <3> QED BY <1>1, <1>10, <3>1, <3>2
    <2>3. SubSeq(vmem[p], 1, sz[p] - 1) = [i \in 1 .. sz[p] - 1 |-> vmem[p][i]]
        BY <1>12, <1>14
    <2> QED BY <1>12, <1>13, <1>14, <2>1, <2>2, <2>3
<1>16. vmem' = [vmem EXCEPT ![p] = SubSeq(vmem[p], 1, Len(vmem[p]) - 1)]
    BY <1>11, <1>15, OnlyOneSees
<1>17. vmem[p] # NONE /\ Len(vmem[p]) > 1
    BY <1>1, <1>12, <1>14, LiveMemory
<1> QED BY <1>16, <1>17 DEF AbstractMemory!Shrink, AbstractMemory!Alive, vmem

(* Freeing a page of a dead or unborn process changes what no program      *)
(* sees.                                                                   *)
LEMMA FreevmPageUnseen ==
    ASSUME NCPU = 1, CoWIInv, OneCpuInv, NEW p \in Procs, freevm_page(p)
    PROVE  vmem' = vmem
<1> USE CoWAssumption DEF CoWIInv, OneCpuInv
<1>1. /\ UNCHANGED <<sz, state>>
      /\ pc[p] \in {"reap", "bad"} /\ state[p] = "RUNNABLE" /\ CanRun(p)
    BY DEF freevm_page, proc, Running
<1>2. PICK c \in Procs : c = np[p] /\ state[c] \in {"EMBRYO", "ZOMBIE"} /\ pc[c] = "user"
    BY <1>1, Ranges DEF Slots, InFork
<1>3. PICK v \in Pages : /\ pte[c][v] # NONE /\ kfree(pte[c][v].pa)
                         /\ pte' = [pte EXCEPT ![c][v] = NONE]
    BY <1>2 DEF freevm_page
<1>4. PICK f \in Frames : f = pte[c][v].pa
    BY <1>3, Ranges
<1>5. Counted(c, v) = f
    <2>1. ~NotYetCounted(c, v)
        BY <1>1, <1>2 DEF NotYetCounted, Slots
    <2> QED BY <1>2, <1>3, <1>4, <2>1 DEF Counted
<1>6. refcount[f] \in Nat \ {0}
    BY <1>5, CountedOnce
<1>7. /\ refcount'[f] = refcount[f] - 1 /\ \A g \in Frames : g # f => data'[g] = data[g]
      /\ refcount'[f] # 0 => data' = data
    BY <1>3, <1>4, <1>6, KfreeDrops
<1>8. \A q \in Procs, w \in Pages : <<q, w>> # <<c, v>> => pte'[q][w] = pte[q][w]
    BY <1>3, Unmapped
<1>9. ASSUME NEW q \in Procs, NEW w \in Pages, state[q] = "RUNNABLE", pte[q][w] # NONE
      PROVE  data'[pte'[q][w].pa] = data[pte[q][w].pa]
    <2>0. <<q, w>> # <<c, v>>
        BY <1>2, <1>9
    <2>1. pc[q] \notin {"fault_alloc", "fault_copy"}
        BY <1>1, Solo DEF NoInterrupts
    <2>2. pte[q][w].pa \in Frames
        BY <1>9, Ranges
    <2>3. CASE refcount'[f] # 0
        BY <1>7, <1>8, <2>0, <2>3
    <2>4. CASE refcount'[f] = 0
        <3>1. refcount[f] = 1
            BY <1>6, <1>7, <2>4
        <3>2. pte[q][w].pa # f
            BY <1>5, <1>9, <2>0, <2>1, <3>1, LastReference
        <3> QED BY <1>7, <1>8, <2>0, <2>2, <3>2
    <2> QED BY <2>3, <2>4
<1>10. ASSUME NEW q \in Procs PROVE vmem'[q] = vmem[q]
    <2>1. state[q] = "RUNNABLE" => \A w \in Pages : w < sz[q] => data'[pte'[q][w].pa] = data[pte[q][w].pa]
        BY <1>9 DEF Maps, LiveMaps
    <2> QED BY <1>1, <2>1, MemorySame
<1> QED BY <1>10, NobodySees

(* Nor does the fault handler: the new frame is filled with what the page  *)
(* had before it takes the old one's place.                                *)
LEMMA FaultAllocUnseen ==
    ASSUME NCPU = 1, CoWIInv, OneCpuInv, NEW p \in Procs, fault_alloc(p)
    PROVE  vmem' = vmem
<1> USE DEF CoWIInv, OneCpuInv
<1>1. UNCHANGED <<pte, sz, state>>
    BY DEF fault_alloc, uvm, proc
<1>2. CASE data' = data
    BY <1>1, <1>2 DEF vmem, Memory
<1>3. ASSUME NEW f \in Frames, kalloc(f, Junk) PROVE vmem' = vmem
    <2>1. f \in freelist /\ \A g \in Frames : g # f => data'[g] = data[g]
        BY <1>3 DEF kalloc, TypeOK
    <2>2. \A q \in Procs, w \in Pages : pte[q][w] # NONE => pte[q][w].pa # f /\ pte[q][w].pa \in Frames
        BY <2>1, FreeIsUnmapped, Ranges
    <2>3. ASSUME NEW q \in Procs PROVE vmem'[q] = vmem[q]
        <3>1. state[q] = "RUNNABLE" => \A w \in Pages : w < sz[q] => data'[pte'[q][w].pa] = data[pte[q][w].pa]
            BY <1>1, <2>1, <2>2 DEF Maps, LiveMaps
        <3> QED BY <1>1, <3>1, MemorySame
    <2> QED BY <2>3, NobodySees
<1> QED BY <1>2, <1>3 DEF fault_alloc, kmem

(* The handler's copy and new entry changes no memory.                     *)
LEMMA FaultCopyUnseen ==
    ASSUME NCPU = 1, CoWIInv, OneCpuInv, NEW p \in Procs, fault_copy(p)
    PROVE  vmem' = vmem
<1> USE CoWAssumption DEF CoWIInv, OneCpuInv
<1>0. pc[p] = "fault_copy" /\ Running(p, "fault_copy")
    BY DEF fault_copy, Running
<1>1. PICK v \in Pages : v = va[p] /\ pte[p][v] # NONE
    BY <1>0 DEF Maps, FaultMaps, InFault
<1>2. PICK f \in Frames : f = mem[p]
    BY <1>0, Ranges DEF Slots
<1>3. PICK o \in Frames : o = pte[p][v].pa
    BY <1>1, Ranges
<1>4. state' = state /\ data'[f] = data[o] /\ \A g \in Frames : g # f => data'[g] = data[g]
    BY <1>1, <1>2, <1>3 DEF fault_copy, proc, TypeOK
<1>5. /\ pte'[p][v].pa = f /\ sz' = sz
      /\ \A q \in Procs, w \in Pages : <<q, w>> # <<p, v>> => pte'[q][w] = pte[q][w]
    <2> DEFINE e == [pa |-> f, W |-> FALSE, CoW |-> FALSE, U |-> TRUE]
    <2>1. e \in PTE /\ e.pa = f
        BY DEF PTE
    <2>2. make_writable(p, v, e)
        BY <1>1, <1>2 DEF fault_copy
    <2> HIDE DEF e
    <2> QED BY <2>1, <2>2, MadeWritable
<1>6. ASSUME NEW q \in Procs, NEW w \in Pages, pte[q][w] # NONE
      PROVE  data'[pte'[q][w].pa] = data[pte[q][w].pa]
    <2>1. CASE <<q, w>> = <<p, v>>
        BY <1>3, <1>4, <1>5, <2>1
    <2>2. CASE <<q, w>> # <<p, v>>
        <3>1. pte[q][w].pa # f /\ pte[q][w].pa \in Frames
            BY <1>0, <1>1, <1>2, <1>6, <2>2, CopyUnmapped, Ranges
        <3> QED BY <1>4, <1>5, <2>2, <3>1
    <2> QED BY <2>1, <2>2
<1>7. ASSUME NEW q \in Procs PROVE vmem'[q] = vmem[q]
    <2>1. state[q] = "RUNNABLE" => \A w \in Pages : w < sz[q] => data'[pte'[q][w].pa] = data[pte[q][w].pa]
        BY <1>6 DEF Maps, LiveMaps
    <2> QED BY <1>4, <1>5, <2>1, MemorySame
<1> QED BY <1>7, NobodySees

(* Marking entries copy-on-write or writable does not change their frames. *)
LEMMA FramesKeptUnseen ==
    ASSUME TypeOK, UNCHANGED <<data, sz, state>>,
           \A q \in Procs, w \in Pages : state[q] = "RUNNABLE" => pte'[q][w].pa = pte[q][w].pa
    PROVE  vmem' = vmem
<1>1. ASSUME NEW q \in Procs PROVE vmem'[q] = vmem[q]
    BY MemorySame
<1> QED BY <1>1, NobodySees

(* The handler's first look at a copy-on-write page changes no memory.     *)
LEMMA FaultGetUnseen ==
    ASSUME CoWIInv, NEW p \in Procs, NEW v \in Pages, v # Far, fault_get(p, v)
    PROVE  vmem' = vmem
<1> USE DEF CoWIInv
<1>1. UNCHANGED <<data, state>> /\ pte[p][v] # NONE
    BY DEF fault_get, kmem, proc, faults_as_CoW
<1>2. CASE make_writable(p, v, pte[p][v])
    <2>1. pte[p][v] \in PTE
        BY <1>1, Ranges
    <2>2. /\ sz' = sz /\ pte'[p][v].pa = pte[p][v].pa
          /\ \A q \in Procs, w \in Pages : <<q, w>> # <<p, v>> => pte'[q][w] = pte[q][w]
        BY <1>2, <2>1, MadeWritable
    <2> QED BY <1>1, <2>2, FramesKeptUnseen
<1>3. CASE UNCHANGED uvm
    BY <1>1, <1>3, FramesKeptUnseen DEF uvm
<1> QED BY <1>2, <1>3 DEF fault_get

(* Copyuvm's sharing of a page, also when mappages fails, changes no       *)
(* memory.                                                                 *)
LEMMA MapUnseen ==
    ASSUME CoWIInv, NEW p \in Procs, copyuvm_map(p)
    PROVE  vmem' = vmem
<1> USE CoWAssumption DEF CoWIInv
<1>1. /\ UNCHANGED <<data, sz, state>>
      /\ pc[p] = "copyuvm" /\ state[p] = "RUNNABLE" /\ va[p] < sz[p]
    BY DEF copyuvm_map, kmem, proc, Running
<1>2. PICK c \in Procs : c = np[p] /\ state[c] = "EMBRYO"
    BY <1>1, Ranges DEF Slots, InFork
<1>3. PICK v \in Pages : v = va[p]
    BY <1>1, Ranges DEF Pages
<1>4. pte[p][v] # NONE /\ pte[p][v] \in PTE /\ p # c
    BY <1>1, <1>2, <1>3, Ranges DEF Maps, LiveMaps
<1>5. PICK m \in PTE : m = marked(pte[p][v]) /\ m.pa = pte[p][v].pa
    BY <1>4, MarkedEntry
<1>6. pte' = [pte EXCEPT ![p][v] = m, ![c][v] = m] \/ pte' = [pte EXCEPT ![p][v] = m]
    BY <1>2, <1>3, <1>4, <1>5 DEF copyuvm_map
<1>7. /\ pte'[p][v] = m
      /\ \A q \in Procs, w \in Pages : <<q, w>> # <<p, v>> /\ q # c => pte'[q][w] = pte[q][w]
    BY <1>4, <1>6 DEF TypeOK
<1> QED BY <1>1, <1>2, <1>5, <1>7, FramesKeptUnseen

(* Slots that neither start nor stop running, with nothing else changed.   *)
LEMMA SlotUnseen ==
    ASSUME TypeOK, UNCHANGED <<data, pte>>, NEW c \in Procs,
           state[c] # "RUNNABLE", state'[c] # "RUNNABLE",
           \A q \in Procs : q # c => state'[q] = state[q] /\ sz'[q] = sz[q]
    PROVE  vmem' = vmem
<1>1. vmem'[c] = vmem[c]
    BY DEF vmem, Memory
<1>2. \A q \in Procs : q # c => vmem'[q] = vmem[q]
    BY MemorySame
<1> QED BY <1>1, <1>2, NobodySees

(* Nor do the steps that touch neither entries nor frames.                 *)
LEMMA OtherUnseen ==
    ASSUME CoWIInv, NEW p \in Procs,
           \/ fault_dec(p) \/ fault_far(p) \/ copyuvm_incref(p) \/ freevm_done(p)
           \/ \E c \in Procs : fork(p, c) \/ wait(p, c)
    PROVE  vmem' = vmem
<1> USE DEF CoWIInv
<1>1. CASE fault_dec(p) \/ fault_far(p) \/ copyuvm_incref(p) \/ \E c \in Procs : wait(p, c)
    <2>1. UNCHANGED <<data, pte, sz, state>>
        BY <1>1 DEF fault_dec, fault_far, copyuvm_incref, wait, decrease_refcount, increase_refcount,
                    kmem, uvm, proc
    <2> QED BY <2>1, FramesKeptUnseen
<1>2. ASSUME NEW c \in Procs, fork(p, c) PROVE vmem' = vmem
    <2>1. UNCHANGED <<data, pte, sz>> /\ state[c] = "UNUSED" /\ state' = [state EXCEPT ![c] = "EMBRYO"]
        BY <1>2 DEF fork, kmem, uvm
    <2>2. state'[c] = "EMBRYO" /\ \A q \in Procs : q # c => state'[q] = state[q]
        BY <2>1 DEF TypeOK
    <2> QED BY <2>1, <2>2, SlotUnseen
<1>3. CASE freevm_done(p)
    <2>1. UNCHANGED <<data, pte>> /\ pc[p] \in {"reap", "bad"}
        BY <1>3 DEF freevm_done, kmem, Running
    <2>2. PICK c \in Procs : c = np[p] /\ state[c] \in {"EMBRYO", "ZOMBIE"}
        BY <2>1, Ranges DEF Slots, InFork
    <2>3. state' = [state EXCEPT ![c] = "UNUSED"] /\ sz' = [sz EXCEPT ![c] = 0]
        BY <1>3, <2>2 DEF freevm_done
    <2>4. state'[c] = "UNUSED" /\ \A q \in Procs : q # c => state'[q] = state[q] /\ sz'[q] = sz[q]
        BY <2>3 DEF TypeOK
    <2> QED BY <2>1, <2>2, <2>4, SlotUnseen
<1> QED BY <1>1, <1>2, <1>3

(* The first process starts with cleared pages.                            *)
LEMMA InitRefines == Init => AbstractMemory!Init
<1> SUFFICES ASSUME Init PROVE AbstractMemory!Init
    OBVIOUS
<1> USE CoWAssumption
<1> DEFINE First == 0 .. InitPages - 1
<1>1. PICK frame \in [First -> Frames] :
        /\ data = [f \in Frames |-> IF f \in {frame[v] : v \in First} THEN Zero ELSE Junk]
        /\ pte = [p \in Procs |-> [v \in Pages |->
                    IF p = initproc /\ v < InitPages
                    THEN [pa |-> frame[v], W |-> TRUE, CoW |-> FALSE, U |-> v \notin Guard]
                    ELSE NONE]]
        /\ sz = [p \in Procs |-> IF p = initproc THEN InitPages ELSE 0]
        /\ state = [p \in Procs |-> IF p = initproc THEN "RUNNABLE" ELSE "UNUSED"]
    BY DEF Init
<1>2. ASSUME NEW i \in 1 .. InitPages PROVE data[pte[initproc][i - 1].pa] = Zero
    <2>1. i - 1 \in First /\ i - 1 \in Pages /\ i - 1 < InitPages
        BY DEF Pages
    <2>2. pte[initproc][i - 1].pa = frame[i - 1]
        BY <1>1, <2>1
    <2> QED BY <1>1, <2>1, <2>2
<1>3. Memory(initproc) = [i \in 1 .. InitPages |-> Zero]
    BY <1>1, <1>2 DEF Memory
<1>4. \A p \in Procs : p # initproc => Memory(p) = NONE
    BY <1>1 DEF Memory
<1> QED BY <1>3, <1>4 DEF AbstractMemory!Init

(* Every step is a step of ForkMem or changes no memory.                   *)
LEMMA StepRefines ==
    ASSUME NCPU = 1, CoWIInv, OneCpuInv, [Next]_vars
    PROVE  AbstractMemory!Next \/ vmem' = vmem
<1>1. CASE UNCHANGED vars
    BY <1>1 DEF vars, kmem, uvm, proc, vmem, Memory
<1>2. ASSUME NEW p \in Procs, NEW v \in Touched \ {Far}, NEW x \in Vals, user_write(p, v, x)
      PROVE  AbstractMemory!Write(p)
    <2>1. v \in Pages
        BY <1>2 DEF user_write
    <2> QED BY <1>2, <2>1, WriteRefines
<1>3. ASSUME NEW p \in Procs, page_fault(p)
      PROVE  AbstractMemory!Exit(p) \/ vmem' = vmem
    <2>1. ASSUME NEW v \in Touched \ {Far}, fault_get(p, v) PROVE vmem' = vmem
        <3>1. v \in Pages
            BY <2>1 DEF fault_get
        <3> QED BY <2>1, <3>1, FaultGetUnseen
    <2>2. ASSUME NEW v \in Touched \ {Far}, fault_kill(p, v) PROVE AbstractMemory!Exit(p)
        BY <2>2, ExitRefines DEF fault_kill
    <2> QED BY <1>3, <2>1, <2>2, OtherUnseen, FaultAllocUnseen, FaultCopyUnseen DEF page_fault
<1>4. ASSUME NEW p \in Procs, sys_exit(p) PROVE AbstractMemory!Exit(p)
    BY <1>4, ExitRefines DEF sys_exit
<1>5. ASSUME NEW p \in Procs, fork_done(p) PROVE \E c \in Procs : AbstractMemory!Fork(p, c)
    BY <1>5, ForkRefines
<1>6. ASSUME NEW p \in Procs, sbrk_grow(p) PROVE AbstractMemory!Grow(p)
    BY <1>6, GrowRefines
<1>7. ASSUME NEW p \in Procs, sbrk_shrink(p) PROVE AbstractMemory!Shrink(p)
    BY <1>7, ShrinkRefines
<1>8. ASSUME NEW p \in Procs,
             \/ \E c \in Procs : fork(p, c) \/ wait(p, c)
             \/ copyuvm_map(p) \/ copyuvm_incref(p) \/ freevm_page(p) \/ freevm_done(p)
      PROVE  vmem' = vmem
    BY <1>8, OtherUnseen, MapUnseen, FreevmPageUnseen
<1>9. ASSUME Next PROVE AbstractMemory!Next \/ vmem' = vmem
    <2>1. PICK p \in Procs :
            \/ \E v \in Touched \ {Far}, x \in Vals : user_write(p, v, x)
            \/ page_fault(p)
            \/ sys_exit(p)
            \/ \E c \in Procs : fork(p, c) \/ wait(p, c)
            \/ copyuvm_map(p) \/ copyuvm_incref(p) \/ fork_done(p)
            \/ freevm_page(p) \/ freevm_done(p)
            \/ sbrk_grow(p) \/ sbrk_shrink(p)
        BY <1>9 DEF Next
    <2>2. \/ AbstractMemory!Write(p) \/ AbstractMemory!Exit(p) \/ AbstractMemory!Grow(p)
          \/ AbstractMemory!Shrink(p) \/ \E c \in Procs : AbstractMemory!Fork(p, c)
          \/ vmem' = vmem
        BY <1>2, <1>3, <1>4, <1>5, <1>6, <1>7, <1>8, <2>1
    <2> QED BY <2>2 DEF AbstractMemory!Next
<1> QED BY <1>1, <1>9

(* On one processor copy-on-write fork implements fork: for any number of  *)
(* processes, frames and pages, every behaviour of the kernel is one of    *)
(* private memories that fork copies.                                      *)
THEOREM CopyOnWriteIsFork ==
    ASSUME NCPU = 1
    PROVE  Spec => ImplementsFork
<1>1. CoWIInv /\ OneCpuInv /\ [Next]_vars => [AbstractMemory!Next]_vmem
    BY StepRefines
<1> QED BY <1>1, InitRefines, OneCpuInductive, PTL DEF Spec, ImplementsFork, AbstractMemory!Spec, vmem
=============================================================================
