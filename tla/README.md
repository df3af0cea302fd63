# A verification project for the CS236 operating-systems solutions

The repository holds the solutions of an operating-systems course: a small
memory allocator, and four copies of the teaching kernel xv6, extended in
different ways (some system calls, lazy mmap, copy-on-write fork). This project
models the parts of that code in which concurrency, crashes, limits or long call
sequences make tests unconvincing, checks them with TLC on small instances, and
proves with TLAPS, for every size, every safety property and every refinement
that the passing runs check (section 5). Liveness stays with TLC (section 6).

Paths below are relative to `src/`. `xv6` is `xv6-public-master/`, `CoW` is
`Lab-Memory Management in xv6/CoW Implement/xv6-public-master/`, `mmap` is
`Lab-Memory Management in xv6/Activity B/xv6-public-master/`, `malloc` is
`Lab-Memory Management/malloc-code/`.

## 1. Inventory

| component | state | operations | interacts with | what is hard | what makes it correct |
|---|---|---|---|---|---|
| one-page allocator, `malloc/alloc.c` | byte flags, chunk table | init_alloc, alloc, dealloc, cleanup | its client | two structures that must agree after any sequence of calls; limits | no byte in two chunks, no byte lost, no refusal while there is room |
| elastic allocator, `malloc/ealloc.c` | four page records | the same, best fit, pages mapped on demand | its client | the same, and partial failure of mmap | the same |
| frames, `CoW/kalloc.c` | free list, reference counts | kalloc, kfree, increase/decrease/get_refcount | page tables | counts read, changed and acted on in separate critical sections | the count is the number of references; freed means unreferenced |
| page tables and faults, `CoW/vm.c`, `trap.c` | page-table entries, TLB | copyuvm, freevm, allocuvm, deallocuvm, the fault handler | frames, processes | two processors faulting on one frame; failure half-way; stale TLB | processes never see each other's writes |
| lazy mmap, `mmap/` | entries marked lazy, sz | mmap, the fault handler, copyuvm | frames, processes | a fault when memory is exhausted, fork of lazy pages | an access behaves as if the page had been there |
| processes, `xv6/proc.c` | the process table, one scheduler per processor | fork, spawn, exit, wait, kill, sleep, wakeup, yield, scheduler | every sleeper | lost wakeups, orphans, kills at any moment | one processor per process, everybody reaped, nobody starved |
| log, `xv6/log.c` | log header in memory and on disk, log blocks | begin_op, log_write, end_op, commit, recovery | buffer cache, disk, every file-system call | crashes between any two writes, also in recovery; group commit | a group of calls takes effect as a whole or not at all |
| pipes, `xv6/pipe.c` | ring buffer, two counters, open flags | piperead, pipewrite, pipeclose | files, sleep and wakeup, kill | wakeups, counters that wrap, simultaneous close | a first-in first-out queue; freed once |
| buffer cache and disk driver, `xv6/bio.c`, `ide.c`, `sleeplock.c` | buffers in LRU order, their sleep locks, request queue | bget, bread, bwrite, brelse, iderw, ideintr, acquiresleep, releasesleep | log, inodes | recycling under one lock, locking under another; an interrupt completes requests | one buffer per block, nobody uses a recycled one |
| inodes and names, `xv6/fs.c`, `sysfile.c` | inode cache, link counts, entries | iget, iput, ilock, create, link, unlink, open, chdir, close | log, buffer cache | calls that hold one lock and want another; last unlink against last close | an inode is freed when neither name nor holder is left; counts match names |
| file contents, `xv6/fs.c`, `file.c` | block bitmap, block numbers of an inode, offsets | balloc, bfree, bmap, itrunc, readi, writei, fileread, filewrite | log | writes in parts, shared offsets, reused blocks | a file reads back as written; every block has one owner |
| spin locks, `xv6/spinlock.c` | owner, nesting of cli | acquire, release, pushcli, popcli | everything | interrupts on the same processor | mutual exclusion, no self-deadlock |
| console, `xv6/console.c` | input ring with three indices | consoleintr, consoleread | interrupt handlers | editing against reading | lines are delivered once and in order |
| exec, `xv6/exec.c` | two page tables, an inode, a transaction | exec | files, frames, log | error paths half-way | nothing leaks, the old image stays until the new one is complete |
| user-level malloc, `xv6/umalloc.c` | a circular list of free blocks | malloc, free, morecore | sbrk | blocks joined from both sides, regions that do not touch | blocks tile what sbrk returned |
| boot, device set-up, user programs, mkfs, tests, handouts | - | - | - | - | not modelled, see section 8 |

The hazards, each at its line and with the properties aimed at it, are listed in
`PROJECT.json`.

## 2. Modules

| module | models | composed of / refines |
|---|---|---|
| `Alloc` | `malloc/alloc.c`, one action per call | |
| `CoW` | `CoW/kalloc.c`, `vm.c`, the page-fault case of `trap.c`, fork, exit, wait, sbrk | refines `ForkMem` |
| `ForkMem` | what fork promises: private memories, a child starts with a copy | |
| `Log` | `xv6/log.c`, crashes, recovery | refines `AtomicDisk` |
| `AtomicDisk` | what the log promises: groups of calls are atomic | |
| `Proc` | `xv6/proc.c`, `sys_sleep`, the timer and the tests of killed in `trap.c`, the loop of `init.c` | |
| `Pipe` | `xv6/pipe.c`, `fileclose`, kill | refines `ByteQueue` |
| `ByteQueue` | what a pipe promises: a bounded queue with end of file | |
| `BufCache` | `xv6/bio.c`, `sleeplock.c`, the queue and the interrupt of `ide.c` | refines `BlockStore` |
| `BlockStore` | what the cache promises: blocks lent to one process at a time | |
| `Fs` | `xv6/fs.c` and `sysfile.c`: inode cache, path lookup, the system calls on names | |
| `FileData` | `xv6/fs.c` and `file.c`: bitmap, direct and indirect blocks, reads and writes | refines `FileStore` |
| `FileStore` | what open files promise: sequences of bytes and shared offsets | |
| `LazyMmap` | `mmap/vm.c`, `proc.c`, `trap.c`, `sysproc.c` | refines `EagerMem` |
| `EagerMem` | memory that is there as soon as it is asked for | |
| `Console` | input in `xv6/console.c` | refines `LineQueue` |
| `LineQueue` | what the console promises: finished lines, in order | |
| `Ealloc` | `malloc/ealloc.c` | |
| `Umalloc` | `xv6/umalloc.c` | |
| `Spinlock` | `xv6/spinlock.c` | |
| `Exec` | `xv6/exec.c` | |
| `Parts` | the smaller components (`Alloc`, `Ealloc`, `Umalloc`, `LazyMmap`, `Console`, `FileData`, `Spinlock`, `Exec`) side by side, with the names their properties are checked and proved under; a behaviour is one of a component chosen at the start | extends `Alloc` and `Spinlock`, instantiates the others |
| `AllocProofs`, `CoWProofs`, `LogProofs`, `ProcProofs`, `PipeProofs`, `BufCacheProofs`, `FsProofs` | theorems, their inductive invariants and lemmas | each extends the module it is named after |
| `PartsProofs` | the same for `Exec`, `LazyMmap`, `Console`, `Spinlock`, `Ealloc`, `FileData` and `Umalloc` | extends `Parts` |
| `MCCoW`, `MCLog`, `MCProc`, `MCPipe`, `MCBufCache`, `MCFs` | the instances TLC checks | |
| `MCParts` | the instance of `Parts` TLC checks | |

Definitions carry the names of the C functions they model. Operators whose
comment begins with "mutant" are plausible mistakes in one of the mapped
definitions; they are in no specification and serve to show that each property
can fail. In particular:

* `Alloc`. `bit_stat` and `table` are the two globals; `ret` is what the last call
  returned; pointers are offsets into the page. The nested loops of `alloc` become
  "the first maximal free run with room" (`FirstFit`) and "the first unused slot"
  (`FirstSlot`).
* `CoW`. A step ends where the code takes `kmem.lock` next. The page-fault handler
  is four steps (read the count, decrement it, allocate, copy), copyuvm two per
  page (map, count), freevm one per page. `NoInterrupts` are the places at which a
  process keeps its processor, since the handler runs behind an interrupt gate;
  with `NCPU = 1` two handlers cannot overlap, with 2 they can, and the Makefile
  boots two. `tlb` are pages whose writable translation the processor may still
  use: fork turns the parent's entries read-only first and reloads `%cr3` only
  when copyuvm is done. Allocation of page tables and kernel stacks is a call that
  may fail. A panic or the use of a null pointer sets `oops` and ends the
  behaviour. `spawn` exists in this tree but no system call reaches it.
* `Log`. One action per critical section of `log.lock` and one per block written.
  `cache` is what `bread` returns; `B_DIRTY` keeps a logged block in memory until
  `install_trans` has written it. `crash` loses everything but the disk and may
  come at any point, also while `recover_from_log` runs.
* `Proc`. One action per critical section of `ptable.lock`. fork is spawn of one
  child: `spawn` (whose system call is commented out in `syscall.c`) repeats
  fork's body, so one set of actions models both, and `MaxSpawn` says how often.
  `sys_sleep` is the one sleeper with a test of `killed`; tickslock is the lock it
  holds between the test and the sleep, and the timer interrupt needs it. `last` is
  where a scheduler's pass over the table has got to; `scheduler_pass` ends a pass, and
  the next one starts at slot 0. When init exits (init.c:27, or killed) exit panics and
  nothing goes on (`panic_loop`).
* `Pipe`. Everything under `p->lock` is one action, except for the window between
  the test of `killed` and the sleep, in which `kill` (which takes only
  `ptable.lock`) may come. The counters wrap at `UINT`, for 2^32.
* `BufCache`. One action per critical section of bcache.lock, idelock and a sleep
  lock's spin lock. `cur` is the buffer a process is at work on between bget and the
  end of bread, or between the two halves of brelse; `held` are the buffers it has
  from bread. `req` is what idestart told the disk; `ideintr` completes it and starts
  the next. `kill` may wake a sleeper at any time, which is why acquiresleep and
  iderw sleep in loops. A bound keeps callers and the log within NBUF buffers
  (`SizeAssumption`), as `param.h` means them to be. The LRU list is a sequence, and
  the pointer assignments at the end of brelse are `ToFront`.
* `Fs`. A step that locks one inode, works on it and unlocks it is one action; where
  a call locks or puts an inode while it holds another lock (create, sys_unlink,
  sys_link), the lock is held across actions. `put` are the inodes a call still has
  to iput, `drop` the one whose iput has released the sleep lock and not yet dropped
  the reference. `entries` are the entries of the inode cache that the rest of the system
  leaves to these processes, anything from 1 to NINODE; ialloc without a free dinode
  and iget without a free entry panic (`ialloc_panics`, `iget_panics`), which `full`
  records. Crashes need no action: `Log` shows that a crash leaves the disk of
  a state in which no call is under way, and `LinkCountExact` is about those.
* `FileData`. A part of filewrite (begin_op, ilock, writei, iunlock, end_op) is one
  action, between which other processes write and read at the same offset. A block is
  a function from positions to integers, so that a data block reused as an indirect
  block would be taken for block numbers, as on the disk. Mutual exclusion and
  atomicity come from `Fs`'s locks and from `Log`.
* `LazyMmap`. Page-table entries are a frame, LAZY or NONE, sizes are in parts of a
  page. The page-fault handler ignores the result of allocuvm, as the code does: the next try
  of the access kills the process (`fault_fails`) or, when the kernel made it for a system
  call, panics (`fault_in_kernel`). Programs make every call the code lets them make. Two kinds break
  it: mmap while sz is inside a page, and sbrk that gives back pages of mmap which were never
  touched. They do what the code does, and two history variables record who made one
  (`careless`) and which frames mmap has overwritten the entries of (`lost`), so that the
  properties say who may suffer from it: nobody else.
* `Console`. One action per character under cons.lock. The indices wrap at `UINT`.
* `Ealloc`, `Umalloc`. Sequential, one action per call. `refused` in `Ealloc` is the size alloc
  has just answered with NULL for want of room. What morecore gets from sbrk
  need not touch what it got before, since the program calls sbrk too.
* `Spinlock`. Each processor has a thread and, above it, an interrupt handler; xchg,
  the assignment of `lk->cpu` and the release are separate steps. Locks are taken in
  ascending order, and handlers take the last one.
* `Exec`. One action per call that can fail. `pgdir`, `ip`, the reference, the
  transaction and the free frames are what each way to `bad` must give back.

Most modules have one invariant that is the conjunction of their named parts
(`CoWInv`, `LogInv`, `ProcInv`, `PipeInv`, `BufInv`, `FsInv`); each part is stated
and commented on its own in the module.

## 3. Runs

| run | instance | what it shows |
|---|---|---|
| `parts` | see the bounds | each small component on its own: both lab allocators and malloc keep their books in step with what they gave out; lazily allocated memory implements `EagerMem` and no frame is lost, except for and by programs that use mmap carelessly; console input implements `LineQueue`; files implement `FileStore` and a part of a write fits a transaction; spin locks exclude and restore interrupts; exec leaks nothing |
| `cow` | 1 processor, 3 processes, 4 frames, 2 pages, accesses to unmapped addresses | copy-on-write fork implements `ForkMem`; a writable page is private, also through the TLB; no frame is lost |
| `cow_smp` | 2 processors, the same without page contents | reference counts are exact in every interleaving, nothing is freed while referenced, no panic |
| `log` | 3 processes, 3 blocks, 2 values, crashes anywhere | the log implements `AtomicDisk`; commits run alone; the reservation suffices for calls that write one block less than they reserve; a process waiting for space is woken |
| `proc` | 4 slots, 2 processors, 4 pids, kills | one processor per process, living parents, one creator per slot, nobody sleeps in wait over a zombie |
| `proc_live` | 3 slots, 2 processors, sleeping and killing | unless init exits: no starvation, adopted zombies are reaped, the killed exit |
| `pipe` | 2 processes with both ends, ring of 2, counters modulo 4 | the pipe implements `ByteQueue`; wakeups, the single free, readers return |
| `bufcache` | 2 processes, 3 buffers, 4 blocks, one pinned, kills | cache, sleep locks and disk queue implement `BlockStore`; counts are exact, no block is cached twice, sleepers have a waker; every request completes |
| `fs` | 2 processes, 3 inodes, 2 names, paths of one and two elements, all calls | reference counts are exact, nothing in use is free, ialloc and iget panic only when all is used up, the inode cache agrees with the disk, link counts with the names |
| `cow_isolation` | 2 processors | *violated*: the handler drops its reference before it copies, and can copy another process's write |
| `fs_deadlock` | create and unlink of the same names | *violated*: iput of the directory, under the file's lock, and unlink wait for each other |
| `fs_lost` | open, create, unlink | *violated*: two processes drop the last two references at once, and neither frees the inode |

The violated runs are findings; `PROJECT.json` quotes the sentence of the
repository each one contradicts.

### Bounds

* `parts`, `Alloc`: a page of 10 bytes with granules of 2 allows every pattern of up
  to five chunks, with runs merged from both sides, a request that fits exactly, a
  ragged one and one longer than the page; the proofs remove the bound. `Ealloc`: two
  pages of three granules, so that a page is mapped while the first still has holes;
  requests of one and two granules, a ragged one and one longer than a page.
  `Umalloc`: a heap of ten Headers, fetched four or five at a time, with the
  program's own sbrk in between. `LazyMmap`: two processes, three frames, two pages of two
  units, so that frames run out, sz lies inside a page and pages are lazy, present or
  neither, below sz and beyond it; an allocuvm that fails after its first page is covered by the
  theorems only. All pages are those of the first page table. `Console`: a ring of two and indices modulo 4, readers of one and two
  characters; lines fit, fill or exceed the ring. `FileData`: one direct and three
  indirect blocks of two positions, five data blocks; one file is written eight
  positions at a time, which is the largest file and takes several parts, the other three,
  which ends inside the indirect block; together they exhaust the disk. `Spinlock`: two processors, three nested locks.
  `Exec`: five frames, programs of up to two segments of up to two pages, so that
  every step meets the empty free list. Processes, and with them processors, are symmetric.
* `cow`, `cow_smp`: three processes are a shared frame's two owners and a third
  that forks, exits or waits meanwhile; four frames run out when everybody has
  two pages; two pages are needed for a copyuvm that fails half-way. Two page
  contents besides the filler suffice to tell whose write a process sees. Frames
  and the processes other than init are symmetric.
* `log`: three processes are one that commits, one in a call and one that
  waits; three blocks fill the log; a log of three data blocks and a reservation
  of two make calls wait for space.
* `proc`: four slots are init, a process, its child and its grandchild, the
  smallest table in which a zombie is adopted by an init that is asleep and is
  not the dying process's own parent. `MaxPid` bounds the pids handed out; after
  the last one allocproc fails, as with a full table. Init is killed too in `proc`; in
  `proc_live` it may exit.
* `pipe`: messages of one and of three bytes on a ring of two, so a write may
  fit, fill or exceed it; counters modulo 4 wrap after two fillings.
* `bufcache`: four blocks for three buffers force recycling; two processes are a
  holder and a waiter; the third buffer is the one the log pins.
* `fs`: three inodes are the root, a directory and a file, or two of either, and
  run out; the paths `a` and `a/b` make one process use a directory that the other
  removes (create, link and unlink take both, the other calls `a`). The cache has one to
  three entries, so that iget panics before ialloc does, or the other way round. One open file
  and one current directory per process.

### Fairness

* `Log!FairSpec`: a call that has begun ends, a commit goes on, a woken process
  is scheduled (round robin, see `NoStarvation`), and recovery goes on. New calls
  need not come.
* `Proc!FairSpec`: each processor's scheduler loop and the clock go on; the timer
  ends each slice (weak fairness of yield); a process makes progress in some of
  its slices (strong fairness, as a slice may end first); init keeps calling wait,
  as `init.c` does unless its fork fails. Programs need do nothing. The properties hold up to
  a panic: once init has exited the kernel stands still.
* `Pipe!FairSpec`: a process inside the kernel goes on whenever it again and again
  could. Strong fairness is needed because `p->lock` may be taken when it looks:
  spin locks promise no order, and the assumption is that xchg does not fail for
  ever.
* `BufCache!FairSpec`: the scheduler runs every process, the disk answers every
  request, and a process gives back the buffers it holds, as every caller of bread
  in `fs.c` and `log.c` does. Callers need not ask for more.
* Deadlock is checked in `log`, `proc` and `proc_live`. It is not checked
  in the CoW runs, where an oops stops the kernel; in `pipe`, where programs
  may all have closed the pipe or wait for each other; in `bufcache`, where callers
  may stop asking; in `fs`, where the code does deadlock (`fs_deadlock`) and the panics stop it; and in
  `parts`, where a lazy process may exit for good, or panic.

## 4. Known defects without a run of their own

Met while modelling. Some are behaviours of the models, which the properties name as
exceptions; the others are kept out of the runs by the bound or the guard named:

* `CoW/vm.c:424`: on two processors two simultaneous faults can take a count to 0
  without freeing the frame (`NoFrameLost` is checked on one processor).
* `CoW/vm.c:427`: the fault handler does not test kalloc's result; `fault_alloc`
  sets `oops`. `CoW/vm.c:417`: a fault on an address without a page table uses a null
  entry (`fault_far`), and after a fork the stack's guard page becomes an ordinary
  page when it is touched (the constant `Guard`, empty in the runs).
* `xv6/log.c:243`: mkfs gives the log as many blocks as the kernel's LOGSIZE and one
  of them is the header, so calls that use all of their reservation can panic; in the
  run a call writes one block less (`OpBlocks`).
* `xv6/proc.c:509`: kill(0) finds an unused slot, and the next process in it is born
  killed; the runs kill pids in use (`KillPids`).
* `xv6/pipe.c:86`, `:107`: a writer killed in pipewrite leaves readers asleep on a pipe
  that is not empty, and a kill between the test of killed and the sleep is not
  noticed until the other side acts (the exceptions stated in `SleepersHaveReason` and
  `ReaderReturns`).
* `xv6/fs.c:665`, `fs.c:570`: `..` of a removed directory can name an inode that is used again;
  a file created in a removed directory keeps its count (the history variable `stray`
  of `Fs`); link of a file to the name `.` locks the directory twice.
* `xv6/ide.c:169`: a read the disk reports as failed leaves the old data in a buffer that
  becomes valid; `BufCache` assumes reads succeed.
* `mmap/vm.c:279`, `mmap/sysproc.c:109`: sbrk leaves PTE_LAZY behind on pages that were
  never touched, and a later sbrk over one panics; mmap while sz is inside a page makes that
  page lazy and loses its frame, and leaves the last page unmarked, at which fork panics. Both
  happen in `LazyMmap` (to the processes in `careless`). `mmap/trap.c:55`: when no frame is left for a lazy
  page that a system call's argument lies in, the kernel panics, whatever the program did (`fault_in_kernel`).
  `mmap/sysproc.c:110`: mmap does not compare sz with KERNBASE, and `mmap/vm.c:360`, `:430` use
  what walkpgdir returns without a test when a new page table is needed (`MaxPages`: the first one is
  there from the start).
* `xv6/fs.c:219`, `:269`: create without a free dinode, and a lookup without a free entry in
  the inode cache, panic instead of failing; both happen in `Fs` (`FullForReal` says: only then).
  `xv6/init.c:29`: when init's fork fails it exits, and the kernel panics (`Proc`).
* `malloc/ealloc.c:71`: after a failed mmap page_start is MAP_FAILED, which the next
  alloc takes for a page (the condition in `ChunksAreMapped`). `malloc/alloc.c:52`:
  alloc(0) records a chunk that shares its address with the next one; the invariants
  proved below hold all the same.
* `xv6/umalloc.c:69`: a request within a Header of 2^32 bytes wraps.

## 5. Proofs

Every theorem holds for every value of the constants that satisfies the assumptions
named here. Each proof module starts with its inductive invariant, proves it of `Init`
and of each action, and derives the theorems; most of these invariants were
model-checked before they were proved.

| theorem | states | beyond the assumptions of the module, under |
|---|---|---|
| `AllocInvariant`, `AllocNoDoubleBooking`, `AllocBitmapMatchesTable` | `[]AllocInv`, `[]NoDoubleBooking`, `[]BitmapMatchesTable` | |
| `AllocRefusedOnlyWhenFull` | `[]RefusedOnlyWhenFull` | positive sizes |
| `CountsAreExact`, `FreeListSound` | `[]RefcountExact`, `[]CoWInv` | |
| `WritesArePrivate`, `FramesComeBack`, `CopyOnWriteIsFork` | `[]WritableMeansPrivate`, `[]NoFrameLost`, `ImplementsFork` | `NCPU = 1` |
| `LogNeverOverflows`, `GroupsAreAtomic` | `[]LogInv`, `ImplementsAtomicDisk` | |
| `FamiliesSound`, `NoProcessRunsTwice`, `NoSharedEmbryo` | `[]ProcInv`, `[]OneProcessorEach`, `[]EmbryoHasOneCreator` | |
| `NoMissedWakeup`, `NoUseAfterFree` | `[]PipeInv`, `[]FreedIsUnused` | |
| `PipeIsFifo` | `ImplementsByteQueue` | no read of zero bytes |
| `CacheIsSound`, `CacheIsBlockStore` | `[]BufInv`, `ImplementsBlockStore` | |
| `NothingInUseIsFree`, `CacheIsWriteThrough`, `LinkCountsAreNames` | `[]FsInv`, `[]CacheCoherent`, `[]LinkCountExact` | |
| `LocksExclude`, `InterruptsAreNested` | `[]SpinlockExclusive`, `[]SpinlockInterruptsNested` | |
| `LazyLosesNoFrame`, `LazyIsEager` | `[]LazyFramesAccounted`, `LazyImplementsEagerMem` | |
| `ConsoleMissesNoLine`, `ConsoleIsLineQueue` | `[]ConsoleReadersHaveReason`, `ConsoleImplementsLineQueue` | |
| `ExecIsCareful` | `[]ExecLeaksNothing` | |
| `ElasticBooksAgree`, `ElasticGrowsLast` | `[]EallocBytesMatchChunks`, `EallocGrowsOnlyWhenFull` | positive sizes |
| `BlocksHaveOneOwner`, `PartsFitTransactions`, `FilesReadBack` | `[]FileBlocksAccounted`, `[]FilePartFitsTransaction`, `FileImplementsFileStore` | |
| `BlocksTile` | `[]UmallocBlocksTileHeap` | |

### Where the hypotheses come from

* Most assumptions only say that sets of processes, blocks or processors are finite,
  that sizes are natural numbers and that NONE is none of the values it is told
  apart from.
* `NCPU = 1`: on two processors the three statements are false; `cow_isolation` shows
  it for the isolation of memories, section 4 says it for lost frames. Exact counts
  and the free list need no such hypothesis.
* Positive sizes: a chunk of size 0 occupies a slot and no byte, so enough
  calls of alloc(0) use up the table while the page is empty. In `Ealloc` it also
  shares its address with another chunk, and dealloc of one takes the first it finds.
* No read of zero bytes: such a read returns 0, which `ByteQueue` reserves for the
  end of the file.
* `Log!SizeAssumption`: a call writes fewer blocks than it reserves, and the header and
  the reservations fit the log. With the numbers of `param.h` it holds for calls of up
  to nine blocks; with ten the panic of section 4 is reachable.
* `BufCache!SizeAssumption`: NBUF is at least what all callers may hold and the log may
  pin. `param.h` makes NBUF, like the log, three times MAXOPBLOCKS to that end; nothing in
  bio.c enforces it, and without it bget panics.
* `Pipe!PipeAssumption`: the ring's size divides the counters' range, as 512 divides 2^32.
  `Parts!ConsoleAssumption`: the same of the console's ring, as 128 divides 2^32.
* `Fs!FsAssumption`: finite sets of processes and names, at least one entry in the inode cache, and paths that
  are not empty. Nothing bounds their number or length.
* `Parts!FileAssumption`: MAXOPBLOCKS is at least 6 (`param.h` has 10), so that filewrite's
  ((MAXOPBLOCKS-1-1-2)/2) blocks are at least one; programs write something; blocks have at least one
  position. `Parts!HeapAssumption`: the heap has room for one Header.
* `Parts!LazyAssumption`, `ImageAssumption`, `ExecAssumption`: there is a process and a frame to
  start with, and LAZY and NONE are no frames, sizes, page tables or memories.

### The arguments

* `Alloc`. `NoDoubleBooking` alone is not inductive. When alloc books bytes that the
  bitmap calls free, only `BitmapMatchesTable` says that no chunk has them; when dealloc
  clears the flags of a chunk, only `NoDoubleBooking` says that no other chunk loses
  its flags; and that an unused slot covers nothing, and no chunk passes the end
  of the page, is `SlotsConsistent`. `RefusedOnlyWhenFull` is a pigeonhole argument: if
  every slot is used, each has a chunk of at least a granule, the chunks are disjoint,
  and a map from pairs of a slot and an offset into the page is injective, so no free
  run of that length is left.
* `CoW`. `CoWIInv` adds to `RefcountExact` what each program counter says about the child, the
  page and the fresh frame (`Slots`, `Maps`): between two critical sections a reference
  is mapped and not yet counted, or counted and not yet unmapped, and `Counted` says which. On one
  processor `OneCpuInv` adds that nobody else runs inside the handler (`Alone`), that its
  copy is not yet shared (`FreshCopy`), who may write (`Private`), what the TLB may still
  hold during a fork (`NoStaleTlb`), and that copyuvm's finished pages share the parent's frames
  (`ForkShares`). The refinement follows step by step: a write is a write, the last step of a
  fork is the fork, sbrk and exit are themselves, and everything else is invisible.
* `Log`. `LogIInv` says where recovery and a commit have got to (`Recovery`, `Stages`: which
  log blocks and which home blocks are already what they will be), that blocks are
  listed once, that outside a commit the disk's header is empty, and counts reservations
  (`Reserved`): the blocks in the header and the slots of the running calls that are
  not yet used fit LOGSIZE. For the refinement, `Recovered`, what a crash now would
  bring back, changes at one step only: the write of the header in commit.
* `Proc`. `ProcIInv` says that a process is RUNNING exactly when one processor has it
  (`OnProcessor`), that the embryos and the processes at work on them are in
  one-to-one correspondence (`Creators`), and that no process is its own parent, slots without a process
  have none, parents live and waiters have no zombie (`Families`); the last two support each other,
  since exit hands children to init and must wake it.
* `Pipe`. `PipeIInv` ties the open flags to the ends that processes hold or are about to
  give back (`Ends`), bounds the distance of the wrapped counters by PIPESIZE, and keeps
  `SleepersHaveReason`. The lemmas on `%` (`Distance` and those before it) show that counters
  that wrap at UINT and a ring that wraps at PIPESIZE agree. The refinement maps the ring
  to the sequence of its bytes; a write step appends, a read step removes a prefix.
* `BufCache`. `BufIInv`: what each process is at (`Cursor`), that a buffer in use is locked
  by its user (`Locks`), that the queue has each awaited request once and the disk works on its head
  (`Queue`), that at most MaxPinned buffers are dirty without being written (`Pins`) and that only dirty buffers
  differ from the disk (`Clean`). That bget finds a buffer is again counting: a
  caller that may ask for one more has a claim left. For the refinement `Shows`
  replaces the choices in `Content` and `Lent` by what follows from them.
* `Spinlock`. `Nesting` says that ncli is the number of pushclis without their popcli and that intena
  is what the outermost found, `Mutex` that somebody who is between xchg and the
  release of a lock is the only one. Mutual exclusion of the handlers' lock needs both: a handler
  comes only where no lock is held.
* `LazyMmap`. `FramesAccounted` counts, and counting is not inductive; `OneEntryEach` says instead that
  the frames without an entry are the free and the lost ones, and no frame has two, and the count follows from a
  bijection between mappings and frames. `UpToSz` says that a process that is not careless has entries for
  exactly the pages below sz, present or lazy: so allocuvm finds no entry in use, copyuvm no hole, and
  mmap no frame to lose. `Excused` says which calls may panic. `UpToSz` rests on arithmetic, that PGROUNDUP of two sizes and the
  steps of PGSIZE in sys_mmap name the same pages (`RoundUp`, `MmapMarks`). For the refinement the one
  observation is `Reads`: a lazy page and the zeroed frame that replaces it read the same, so the
  page-fault handler is invisible, and a fresh frame was nobody's, so filling it changes no
  process's memory. What a careless process does changes its own entries and frames, which are nobody
  else's (`DisturbRefines`).
* `Console`. `InOrder`: from r on, first comes w and then e, all within one ring; with it a full
  ring is a finished one. The refinement reads both sequences off the ring as the cells a number of
  places after r (`RingShown`); the lemmas on `%` show that a cell does not depend on where an index wraps
  (`CellOf`, `CellShift`) and that the cell typed into is none of those shown (`CellsDiffer`).
* `Fs`. `FsInv` is far from inductive: what keeps an inode alive is often a pointer in the hands of
  a call half-way through. The invariant says for each inode and each pointer (an open file, a current
  directory, `dp`, `ip`, the inodes still to put or to drop) that it is one reference (`RefExact`), what each
  program counter holds and has locked (`Locked`, `Kinds`), and that the root stays (`Rooted`).
  `Links` is the exact form of `LinkCountExact` while calls run: the count of an inode is the number of its
  names, a subdirectory's `..` included, plus the calls that have counted a name which is not there
  yet or have removed one they have not counted off (`Owing`), unless `stray`. `Fresh` says that an inode just allocated
  by ialloc belongs to its creator alone. iput frees only when its own reference is the last and the count
  is zero, so by `Links` no name is left, and by `RefExact` no other pointer. The cache agrees with the disk
  because whoever changes an inode holds its lock and writes both, and iput clears `valid` while its reference is
  still the only one. The panics for want of an inode change nothing but `full` (`PanicsInductive`); that the
  inodes with references never outnumber the entries of the cache is a count that each step changes by at most one,
  and upwards only where iget has found an entry (`StepRoom`).
* `Ealloc`. `PageOK` says of each page what `AllocInv` says of the one page of `Alloc`; `MappedFirst` that
  pages are mapped from the first on. That a slot is free whenever a run is long enough is the pigeonhole argument
  again; that the best fit exists needs a least element of pairs of a length and a place. A refusal leaves every
  page mapped, and a place at which nothing fits is one from which a used byte or the end comes too soon.
* `FileData`. `Owned`: a block is marked exactly when one place (an entry of an inode or of an
  indirect block) has its number, and no other place does; so a data block is never taken for an indirect
  block, and a fresh block is nobody's. `Reached`: every position up to the size has a block, offsets lie
  within the size. `Writes`: the part under way. bmaps maps several blocks one after the other, a
  recursive function: that it exists, and what holds of each stage, is shown by taking the least stage
  at which it would fail (`ChainExists`, `Upward`, `LeastOf`), an induction the provers can follow
  because it is about a set. The refinement reads a file's bytes through `Block`.
* `Umalloc`. The list is defined by following pointers from freep. `FreeNodes` are the headers that have a
  pointer; `OrderedRing` says that each points to the next higher one and the last to base, and
  `WalkMeets` that a walk of at most LIMIT steps meets exactly these (`AtStep` is the recursion, upwards from
  freep to the last node, then upwards from base). With it the place where free stops is the last node below
  the block (`PlaceIs`), inserting and cutting out keep the ring (`RingWith`, `RingWithout`), and `HeapTiled`
  follows for each of the four ways to join (`FreedTiled`). morecore adds a region above all blocks and frees it,
  after which the walk finds a block with room (`FitsSomewhere`).
* `Exec`. `ExecFramesKept`: every frame is free, in the old image or in the new one.
  `ExecHolds`: what exec has at each point, by which `bad` can tell from pgdir and ip alone what to undo.

## 6. Checked only by TLC

* The liveness properties (`SleeperIsWoken`, `NoStarvation`, `OrphanReaped`, `KilledExits`,
  `ReaderReturns`, `RequestsComplete`): the prover does not reason about fairness.
* The three violated properties (`CoW`'s isolation on two processors, `NoWaitCycle`, `NoInodeLost`), which are
  false.

Inductions over data (along an interval, around a list) are stated in the proofs as inductions over sets of
numbers, since the library's induction theorems take an operator the provers cannot instantiate.

## 7. What is left

1. Done: the models; proofs of every safety property and refinement of the passing runs.
2. Left to model: absolute paths, `..` and mknod in `Fs`; page tables beyond the first in `LazyMmap`; sched's saved interrupt flag in
   `Spinlock`; read errors of the disk in `BufCache`.

## 8. Not modelled

* Boot code, interrupt-controller and processor discovery, assembly trampolines:
  hardware set-up without a state the properties are about; what it fixes
  (interrupt gates, timer on every processor, number of processors) appears as
  guards and constants.
* User programs, shell, tests: clients of the kernel; their calls are the
  nondeterministic inputs. The warm-up programs call mmap once.
* mkfs: runs once on the host; the log size it chooses is a constant of `Log`.
* The second copy-on-write variant (`Himzu`) and the compiled listings kept beside
  it: another solution of the same exercise.
* Console output, keyboard and serial port, printing, the ELF layout and argument
  stack of exec, and the read-only queries (getpasize, va2pa, numberofprocesses,
  whatsthestatus): they change none of the modelled state.
* In modelled components: the order in which processors see each other's stores
  (`Spinlock` is sequentially consistent, which the barriers of `spinlock.c` are
  there to ensure) and the interrupt flag sched saves across a switch; read errors
  of the disk.

The repository holds four copies of xv6 that differ in a few functions, and
their test programs. Each function is modelled once, from the tree in which it is
interesting, so the share of all source lines that the map names stays small:
one kernel without its user programs is itself about an eighth of what is counted,
and mapping the same definition to every copy would show nothing new.
