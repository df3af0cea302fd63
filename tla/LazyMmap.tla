------------------------------ MODULE LazyMmap ------------------------------
(***************************************************************************)
(* mmap with allocation on demand (the Activity B tree of xv6): mmap only  *)
(* marks page table entries PTE_LAZY; the page-fault handler allocates the *)
(* frame when the page is touched, by the program or by the kernel for it. *)
(*                                                                         *)
(* Sizes are in units of a part of a page, since sbrk need not keep sz     *)
(* page-aligned.  A page table entry is its frame, LAZY or NONE.  Calls of *)
(* different processes meet only at kmem.lock: each call is one action.    *)
(* A panic stops the kernel; what it leaves half done is not looked at.    *)
(***************************************************************************)
EXTENDS Integers, FiniteSets

CONSTANTS Procs, Frames, NONE, LAZY, Vals, Zero,
          Junk,       \* what kfree fills a frame with
          PGSIZE,
          MaxPages,   \* bound: pages of a process, those of its first page table, which
                      \* comes with page 0, so that walkpgdir finds every entry
          Sbrks,      \* bound: what programs pass to sbrk, in units
          Mmaps       \* bound: and to mmap

VARIABLES size,      \* per process: sz, or NONE
          entry,     \* per process and page: the page table entry
          content,   \* per frame
          kfreelist,
          panicked,  \* <<>>, or whose call has panicked, and where
          careless,  \* history: the processes that called mmap with sz inside a page, or gave
                     \* back, with sbrk, pages of mmap they had never touched
          lost       \* history: frames whose entries mmap has overwritten for one of those

lvars == <<size, entry, content, kfreelist, panicked, careless, lost>>

Pages == 0 .. MaxPages - 1
PGROUNDUP(n) == (n + PGSIZE - 1) \div PGSIZE
PGROUNDDOWN(n) == n \div PGSIZE
Unmapped == [i \in Pages |-> NONE]

\* the first process has one page
Init ==
    LET p == CHOOSE p \in Procs : TRUE
        f == CHOOSE f \in Frames : TRUE IN
    /\ size = [q \in Procs |-> IF q = p THEN PGSIZE ELSE NONE]
    /\ entry = [q \in Procs |-> IF q = p THEN [Unmapped EXCEPT ![0] = f] ELSE Unmapped]
    /\ content = [g \in Frames |-> IF g = f THEN Zero ELSE Junk]
    /\ kfreelist = Frames \ {f} /\ panicked = <<>>
    /\ careless = {} /\ lost = {}

Alive(p) == size[p] # NONE /\ panicked = <<>>
Present(p, i) == entry[p][i] \in Frames

panic(p, s) == panicked' = <<p, s>> /\ UNCHANGED <<size, entry, content, kfreelist, careless, lost>>

\* without the memset
MapDirty(p, s, frames) ==
    /\ kfreelist' = kfreelist \ {frames[i] : i \in s}
    /\ entry' = [entry EXCEPT ![p] = [i \in Pages |-> IF i \in s THEN frames[i] ELSE @[i]]]
    /\ UNCHANGED content

\* allocuvm maps zeroed frames at the pages s of process p
Map(p, s, frames) ==
    /\ kfreelist' = kfreelist \ {frames[i] : i \in s}
    /\ content' = [f \in Frames |-> IF \E i \in s : frames[i] = f THEN Zero ELSE content[f]]
    /\ entry' = [entry EXCEPT ![p] = [i \in Pages |-> IF i \in s THEN frames[i] ELSE @[i]]]

\* which frames kalloc returns does not matter: the free list's order is left out
Enough(s) == Cardinality(s) <= Cardinality(kfreelist)
kalloc(s) == CHOOSE g \in [s -> kfreelist] : \A i, j \in s : i # j => g[i] # g[j]

\* the pages of s, in ascending order, for which there are frames
Reached(s) == {i \in s : Enough({j \in s : j <= i})}

\* the frames s are freed
kfree(s) ==
    /\ kfreelist' = kfreelist \cup s
    /\ content' = [f \in Frames |-> IF f \in s THEN Junk ELSE content[f]]

UnmapLeak(p, s, t) ==
    /\ entry' = [entry EXCEPT ![p] = [i \in Pages |-> IF i \in t \/ (i \in s /\ Present(p, i)) THEN NONE ELSE @[i]]]
    /\ UNCHANGED <<content, kfreelist>>

\* deallocuvm of s frees the frames that are present and leaves other entries
\* alone; t are the entries that allocuvm has filled before
Unmap(p, s, t) ==
    /\ kfree({entry[p][i] : i \in {j \in s : Present(p, j)}})
    /\ entry' = [entry EXCEPT ![p] = [i \in Pages |-> IF i \in t \/ (i \in s /\ Present(p, i)) THEN NONE ELSE @[i]]]

Between(old, new) == {i \in Pages : PGROUNDUP(old) <= i /\ i < PGROUNDUP(new)}

----------------------------------------------------------------------------
Grows(p, n) == Alive(p) /\ n > 0 /\ size[p] + n <= MaxPages * PGSIZE

growproc(p, n) ==
    /\ Grows(p, n)
    /\ LET s == Between(size[p], size[p] + n) IN
        /\ Enough(s) /\ \A i \in s : ~Present(p, i)
        /\ Map(p, s, kalloc(s))
    /\ size' = [size EXCEPT ![p] = @ + n]
    /\ UNCHANGED <<panicked, careless, lost>>

\* mappages finds a present page beyond sz
growproc_remap(p, n) ==
    /\ Grows(p, n) /\ \E i \in Reached(Between(size[p], size[p] + n)) : Present(p, i)
    /\ panic(p, "remap")

\* out of memory: what was mapped is given back, and what was present before
growproc_fails(p, n) ==
    /\ Grows(p, n)
    /\ LET s == Between(size[p], size[p] + n) IN
        /\ ~Enough(s) /\ \A i \in Reached(s) : ~Present(p, i)
        /\ Unmap(p, s, Reached(s))
    /\ UNCHANGED <<size, panicked, careless, lost>>

\* sbrk to size 0 returns to a program without memory, which is exit
growproc_shrink(p, n) ==
    /\ Alive(p) /\ n < 0 /\ size[p] + n > 0
    /\ LET s == Between(size[p] + n, size[p]) IN
        /\ Unmap(p, s, {})
        /\ careless' = IF \E i \in s : entry[p][i] = LAZY THEN careless \cup {p} ELSE careless
    /\ size' = [size EXCEPT ![p] = @ + n]
    /\ UNCHANGED <<panicked, lost>>

\* below 0 the new size wraps and is taken for a larger one
growproc_wraps(p, n) == Alive(p) /\ n < 0 /\ size[p] + n < 0 /\ UNCHANGED lvars

\* one entry for every PGSIZE from sz on, whatever it was, turns lazy
mmap_entries(p, n) ==
    {i \in Pages : \E k \in 0 .. (n \div PGSIZE) - 1 : i = PGROUNDDOWN(size[p] + k * PGSIZE)}

sys_mmap(p, n) ==
    /\ Alive(p) /\ n >= 0 /\ n % PGSIZE = 0 /\ size[p] + n <= MaxPages * PGSIZE
    /\ entry' = [entry EXCEPT ![p] = [i \in Pages |-> IF i \in mmap_entries(p, n) THEN LAZY ELSE @[i]]]
    /\ size' = [size EXCEPT ![p] = @ + n]
    /\ careless' = IF n > 0 /\ size[p] % PGSIZE # 0 THEN careless \cup {p} ELSE careless
    /\ lost' = lost \cup {entry[p][i] : i \in {j \in mmap_entries(p, n) : p \in careless' /\ Present(p, j)}}
    /\ UNCHANGED <<content, kfreelist, panicked>>

sys_mmap_invalid(p, n) == Alive(p) /\ (n < 0 \/ n % PGSIZE # 0) /\ UNCHANGED lvars

\* a store to a page that is there
user_write(p, i, v) ==
    /\ Alive(p) /\ Present(p, i)
    /\ content' = [content EXCEPT ![entry[p][i]] = v]
    /\ UNCHANGED <<size, entry, kfreelist, panicked, careless, lost>>

\* the page-fault handler; the store is tried again afterwards
fault(p, i) ==
    /\ Alive(p) /\ entry[p][i] = LAZY
    /\ Enough({i}) /\ Map(p, {i}, kalloc({i}))
    /\ UNCHANGED <<size, panicked, careless, lost>>

\* exit, or a store of the program to an address that is neither present nor
\* lazy, and then the parent's freevm
exit(p) ==
    /\ Alive(p)
    /\ kfree({entry[p][i] : i \in {j \in Pages : Present(p, j)}})
    /\ entry' = [entry EXCEPT ![p] = Unmapped]
    /\ size' = [size EXCEPT ![p] = NONE]
    /\ careless' = careless \ {p}
    /\ UNCHANGED <<panicked, lost>>

\* allocuvm's failure is not noticed, but the entry is no longer lazy, and the
\* next try of the program's store kills it
fault_fails(p, i) == entry[p][i] = LAZY /\ kfreelist = {} /\ exit(p)

\* copyuvm: a lazy page stays lazy in the child, any other must be present
Mine(p) == {i \in Pages : i * PGSIZE < size[p]}
Copied(p) == {i \in Mine(p) : entry[p][i] # LAZY}

\* a system call's access to an argument below sz, where the handler finds no
\* frame, or an entry that is not lazy: the next try panics
fault_in_kernel(p, i) ==
    /\ Alive(p) /\ i \in Mine(p) /\ ~Present(p, i)
    /\ entry[p][i] = LAZY => kfreelist = {}
    /\ panic(p, "trap")

\* the pages copyuvm gets to before the first that is not there
Whole(p) == {i \in Copied(p) : \A j \in Copied(p) : j <= i => Present(p, j)}

fork(p, c) ==
    /\ Alive(p) /\ size[c] = NONE /\ Whole(p) = Copied(p) /\ Enough(Copied(p))
    /\ LET g == kalloc(Copied(p)) IN
        /\ kfreelist' = kfreelist \ {g[i] : i \in Copied(p)}
        /\ content' = [f \in Frames |-> IF \E i \in Copied(p) : g[i] = f
               THEN content[entry[p][CHOOSE i \in Copied(p) : g[i] = f]] ELSE content[f]]
        /\ entry' = [entry EXCEPT ![c] = [i \in Pages |->
               CASE i \in Copied(p) -> g[i] [] i \in Mine(p) \ Copied(p) -> LAZY [] OTHER -> NONE]]
    /\ size' = [size EXCEPT ![c] = size[p]]
    /\ UNCHANGED <<panicked, careless, lost>>

fork_panics(p, c) ==
    /\ Alive(p) /\ size[c] = NONE /\ Whole(p) # Copied(p) /\ Enough(Whole(p))
    /\ panic(p, "copyuvm")

fork_fails(p, c) ==
    /\ Alive(p) /\ size[c] = NONE /\ ~Enough(Whole(p))
    /\ UNCHANGED lvars

Next == \E p \in Procs :
    \/ exit(p)
    \/ \E n \in Sbrks : \/ growproc(p, n) \/ growproc_remap(p, n) \/ growproc_fails(p, n)
                        \/ growproc_shrink(p, n) \/ growproc_wraps(p, n)
    \/ \E n \in Mmaps : sys_mmap(p, n) \/ sys_mmap_invalid(p, n)
    \/ \E i \in Pages : fault(p, i) \/ fault_fails(p, i) \/ fault_in_kernel(p, i) \/ \E v \in Vals : user_write(p, i, v)
    \/ \E c \in Procs : fork(p, c) \/ fork_panics(p, c) \/ fork_fails(p, c)

Spec == Init /\ [][Next]_lvars

----------------------------------------------------------------------------
Mappings == {m \in Procs \X Pages : Present(m[1], m[2])}
Mapped == {entry[m[1]][m[2]] : m \in Mappings}

\* the entries of a process are those of the pages below sz
Exact(p) == \A i \in Pages : entry[p][i] # NONE <=> size[p] # NONE /\ i * PGSIZE < size[p]

\* A frame is free, mapped once, or lost: none is shared between processes or
\* pages or freed while it is mapped, and none is lost by shrinking, failing,
\* exiting or faulting, only by mmap in a careless process (allocuvm, deallocuvm,
\* copyuvm, freevm, sys_mmap).  A process that is not careless has entries for
\* exactly the pages below sz, whatever the others do, and its calls panic only
\* when the kernel finds no frame for a lazy page of its own (mappages, copyuvm,
\* trap).
FramesAccounted ==
    /\ kfreelist \cup Mapped \cup lost = Frames
    /\ Cardinality(kfreelist) + Cardinality(Mappings) + Cardinality(lost) = Cardinality(Frames)
    /\ \A p \in Procs \ careless : Exact(p)
    /\ panicked # <<>> => panicked[1] \in careless \/ (panicked[2] = "trap" /\ kfreelist = {})

\* What a process would read: what it wrote, or zero from a lazy page.
Image(p) == IF size[p] = NONE THEN NONE
    ELSE [i \in Mine(p) |-> IF Present(p, i) THEN content[entry[p][i]] ELSE Zero]

Eager == INSTANCE EagerMem WITH image <- [p \in Procs |-> Image(p)]

\* Programs that are not careless cannot tell lazily allocated memory from
\* memory that was there from the start, in the parent and in the child, and
\* careless ones disturb no memory but their own (mmap, fork, page faults).
ImplementsEagerMem == Eager!Spec
=============================================================================
