------------------------------- MODULE Parts --------------------------------
(***************************************************************************)
(* The smaller components, side by side: a behaviour is one of a component *)
(* chosen at the start, the others stay as they are.  Each has constants   *)
(* of its own, but for NONE and the processes.                             *)
(***************************************************************************)
EXTENDS Alloc, Spinlock

CONSTANTS Procs,
          ElasticPage, ElasticMin, NPAGES, ElasticSizes,
          HeapCore, HeapLimit, HeapRequests, HeapSbrk,
          LazyFrames, LAZY, LazyVals, LazyZero, LazyJunk, PGSIZE, LazyPages, Sbrks, Mmaps,
          INPUT_BUF, UINT, Chars, ReadSizes,
          Files, NDIRECT, NINDIRECT, MAXOPBLOCKS, BSIZE, NBLOCKS, FileVals, FileSizes,
          ExecFrames, ExecPages, ExecSegs

VARIABLES which,
          ready, page_start, page_bits, page_table, refused,
          list, brk, given, own,
          size, entry, content, kfreelist, panicked, careless, lost,
          input, rpc, n, got, rkilled,
          addrs, isize, used, disk, off, todo, broken,
          xpc, image, pgdir, ip, ref, ops, segs, xfree

ealloc == <<ready, page_start, page_bits, page_table, refused>>
umalloc == <<list, brk, given, own>>
lazy == <<size, entry, content, kfreelist, panicked, careless, lost>>
console == <<input, rpc, n, got, rkilled>>
files == <<addrs, isize, used, disk, off, todo, broken>>
exec == <<xpc, image, pgdir, ip, ref, ops, segs, xfree>>

E == INSTANCE Ealloc WITH PAGESIZE <- ElasticPage, MINALLOC <- ElasticMin, Sizes <- ElasticSizes
U == INSTANCE Umalloc WITH CORE <- HeapCore, LIMIT <- HeapLimit, Requests <- HeapRequests, MaxSbrk <- HeapSbrk
L == INSTANCE LazyMmap WITH Frames <- LazyFrames, Vals <- LazyVals, Zero <- LazyZero, Junk <- LazyJunk, MaxPages <- LazyPages
C == INSTANCE Console
F == INSTANCE FileData WITH Vals <- FileVals, Sizes <- FileSizes
X == INSTANCE Exec WITH Frames <- ExecFrames, MaxPages <- ExecPages, MaxSegs <- ExecSegs

\* NULL is no page and no chunk
ASSUME ElasticAssumption ==
    /\ ElasticPage \in Nat \ {0} /\ ElasticMin \in Nat \ {0} /\ NPAGES \in Nat /\ ElasticSizes \subseteq Nat
    /\ NULL \notin {"page", "MAP_FAILED"}
    /\ \A a \in 0 .. ElasticPage - 1, n0 \in 1 .. ElasticPage : [addr |-> a, length |-> n0] # NULL

\* the heap is not empty
ASSUME HeapAssumption ==
    HeapCore \in Nat /\ HeapLimit \in Nat \ {0} /\ HeapRequests \subseteq Nat /\ HeapSbrk \in Nat

\* a process has room for one page at least, and LAZY and NONE are no frames
ASSUME LazyAssumption ==
    /\ Procs # {} /\ IsFiniteSet(Procs) /\ LazyFrames # {} /\ IsFiniteSet(LazyFrames)
    /\ LAZY \notin LazyFrames /\ NONE \notin LazyFrames /\ LAZY # NONE
    /\ PGSIZE \in Nat \ {0} /\ LazyPages \in Nat \ {0}
    /\ Sbrks \subseteq Int /\ Mmaps \subseteq Int /\ NONE \notin Nat

\* NONE is no memory
ASSUME ImageAssumption ==
    \A s \in SUBSET (0 .. LazyPages - 1) : \A m \in [s -> LazyVals \cup {LazyZero, LazyJunk}] : m # NONE

\* the ring's size divides the range of its indices, as 128 divides 2^32
ASSUME ConsoleAssumption ==
    /\ INPUT_BUF \in Nat \ {0} /\ UINT \in Nat /\ UINT > INPUT_BUF /\ UINT % INPUT_BUF = 0
    /\ ReadSizes \subseteq Nat

\* a part of a write is not empty, programs write something, and NONE is no write
ASSUME FileAssumption ==
    /\ IsFiniteSet(Files) /\ NDIRECT \in Nat /\ NINDIRECT \in Nat /\ NBLOCKS \in Nat /\ BSIZE \in Nat \ {0}
    /\ MAXOPBLOCKS \in Nat /\ MAXOPBLOCKS >= 6
    /\ \A i \in Files : FileVals[i] \subseteq Int /\ FileSizes[i] \subseteq Nat \ {0}
    /\ \A i \in Files : \A v \in FileVals[i], m \in FileSizes[i] : \A k \in 1 .. m :
          [file |-> i, n |-> k, v |-> v] # NONE

\* there is a first image, and NONE is no page table and no inode
ASSUME ExecAssumption ==
    /\ ExecFrames # {}
    /\ NONE # "inode" /\ \A s \in SUBSET ExecFrames : s # NONE

PartsInit ==
    /\ Init /\ E!Init /\ U!Init /\ L!Init /\ C!Init /\ F!Init /\ SpinInit /\ X!Init
    /\ which \in {"alloc", "ealloc", "umalloc", "lazy", "console", "files", "spinlock", "exec"}

PartsNext ==
    \/ which = "alloc" /\ Next /\ UNCHANGED <<which, ealloc, umalloc, lazy, console, files, svars, exec>>
    \/ which = "ealloc" /\ E!Next /\ UNCHANGED <<which, vars, umalloc, lazy, console, files, svars, exec>>
    \/ which = "umalloc" /\ U!Next /\ UNCHANGED <<which, vars, ealloc, lazy, console, files, svars, exec>>
    \/ which = "lazy" /\ L!Next /\ UNCHANGED <<which, vars, ealloc, umalloc, console, files, svars, exec>>
    \/ which = "console" /\ C!Next /\ UNCHANGED <<which, vars, ealloc, umalloc, lazy, files, svars, exec>>
    \/ which = "files" /\ F!Next /\ UNCHANGED <<which, vars, ealloc, umalloc, lazy, console, svars, exec>>
    \/ which = "spinlock" /\ SpinNext /\ UNCHANGED <<which, vars, ealloc, umalloc, lazy, console, files, exec>>
    \/ which = "exec" /\ X!Next /\ UNCHANGED <<which, vars, ealloc, umalloc, lazy, console, files, svars>>

PartsSpec == PartsInit /\ [][PartsNext]_<<which, vars, ealloc, umalloc, lazy, console, files, svars, exec>>

\* Ealloc: bytes and chunks agree in every page, and chunks lie in mapped pages.
EallocBytesMatchChunks == E!BytesMatchChunks
\* Ealloc: a page is mapped only when the others have no room, and alloc fails
\* only when there is none to map.
EallocGrowsOnlyWhenFull == E!GrowsOnlyWhenFull
\* Umalloc: free and used blocks tile the heap, and the free ones are joined.
UmallocBlocksTileHeap == U!BlocksTileHeap
\* LazyMmap: frames are free, mapped once or lost by mmap in a careless process;
\* the entries of the others are those below sz, and they panic only for want of
\* memory.
LazyFramesAccounted == L!FramesAccounted
\* LazyMmap: lazy memory looks like memory, but to careless processes.
LazyImplementsEagerMem == L!ImplementsEagerMem
\* Console: readers sleep only while no line is waiting, a full ring is readable.
ConsoleReadersHaveReason == C!ReadersHaveReason
\* Console: the ring is a queue of lines.
ConsoleImplementsLineQueue == C!ImplementsLineQueue
\* FileData: the bitmap marks the blocks of files, each of one file.
FileBlocksAccounted == F!BlocksAccounted
\* FileData: the parts of a write fit a transaction.
FilePartFitsTransaction == F!PartFitsTransaction
\* FileData: files read back as written.
FileImplementsFileStore == F!ImplementsFileStore
\* Exec: every way out gives everything back.
ExecLeaksNothing == X!LeaksNothing
=============================================================================
