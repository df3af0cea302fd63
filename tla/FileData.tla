------------------------------ MODULE FileData ------------------------------
(***************************************************************************)
(* The contents of files in xv6 (fs.c, file.c): the block bitmap, direct   *)
(* and indirect blocks, reading and writing at the offset of an open file  *)
(* that several processes share.  filewrite splits a write into parts that *)
(* fit a transaction; a part is one action, as the inode is locked.        *)
(*                                                                         *)
(* A block is a function from positions to integers: the content of a file *)
(* or, in an indirect block, block numbers.                                *)
(***************************************************************************)
EXTENDS Integers, FiniteSets, FiniteSetsExt

CONSTANTS Files, Procs, NONE,
          NDIRECT, NINDIRECT, MAXOPBLOCKS,
          BSIZE,     \* 512
          NBLOCKS,   \* bound: the data blocks of the disk
          Vals,      \* bound: per file, what programs write
          Sizes      \* bound: per file, how much they write or read in one call

VARIABLES addrs,   \* per file: the block numbers in its inode
          isize,   \* per file: its size
          used,    \* the block bitmap
          disk,    \* the content of the blocks
          off,     \* per file: the offset of the open file
          todo,    \* per process: the write it is in, or NONE
          broken   \* a panic

dvars == <<addrs, isize, used, disk, off, todo, broken>>

Blocks == 1 .. NBLOCKS
BITMAP == 0
INODE == -1
MAXFILE == NDIRECT + NINDIRECT
Positions == 0 .. Max({BSIZE, NINDIRECT}) - 1
Zeroed == [k \in Positions |-> 0]

Init ==
    /\ addrs = [i \in Files |-> [k \in 0 .. NDIRECT |-> 0]]
    /\ isize = [i \in Files |-> 0] /\ off = [i \in Files |-> 0]
    /\ used = {} /\ disk = [b \in Blocks |-> Zeroed]
    /\ todo = [p \in Procs |-> NONE] /\ broken = FALSE

----------------------------------------------------------------------------
(* bmap and balloc on a record [addrs, used, disk, logged, full]           *)

\* the first free block is marked and zeroed
balloc(s) == LET b == Min(Blocks \ s.used) IN
    [s EXCEPT !.used = @ \cup {b}, !.disk[b] = Zeroed, !.logged = @ \cup {BITMAP, b}]

New(s) == Min(Blocks \ s.used)
Full(s) == s.used = Blocks

bmap_addr(s, k) ==
    IF s.addrs[k] # 0 THEN s
    ELSE IF Full(s) THEN [s EXCEPT !.full = TRUE]
    ELSE [balloc(s) EXCEPT !.addrs[k] = New(s)]

bmap_indirect(s, k) ==
    LET a == s.addrs[NDIRECT] IN
    IF s.full \/ s.disk[a][k] # 0 THEN s
    ELSE IF Full(s) THEN [s EXCEPT !.full = TRUE]
    ELSE [balloc(s) EXCEPT !.disk[a][k] = New(s), !.logged = @ \cup {a}]

bmap(s, bn) == IF bn < NDIRECT THEN bmap_addr(s, bn)
    ELSE bmap_indirect(bmap_addr(s, NDIRECT), bn - NDIRECT)

\* blocks first to last of the file have been looked up
bmaps(s, first, last) ==
    LET after[b \in first - 1 .. last] == IF b = first - 1 THEN s ELSE bmap(after[b - 1], b) IN after[last]

\* where unit u of a file is
Block(as, d, u) == LET bn == u \div BSIZE IN
    IF bn < NDIRECT THEN as[bn] ELSE d[as[NDIRECT]][bn - NDIRECT]

----------------------------------------------------------------------------
\* mutant: the whole write in one transaction
part_all(n) == n

\* what filewrite passes to writei at once
part(n) == Min({n, ((MAXOPBLOCKS - 4) \div 2) * BSIZE})

filewrite(p, i, n, v) ==
    /\ ~broken /\ todo[p] = NONE
    /\ todo' = [todo EXCEPT ![p] = [file |-> i, n |-> n, v |-> v]]
    /\ UNCHANGED <<addrs, isize, used, disk, off, broken>>

Writing(p) == ~broken /\ todo[p] # NONE
Fits(i, n) == off[i] <= isize[i] /\ off[i] + n <= MAXFILE * BSIZE

Units(p) == off[todo[p].file] .. off[todo[p].file] + part(todo[p].n) - 1

\* the disk with the blocks of the part looked up
Mapped(p) == bmaps([addrs |-> addrs[todo[p].file], used |-> used, disk |-> disk, logged |-> {}, full |-> FALSE],
                   Min(Units(p)) \div BSIZE, Max(Units(p)) \div BSIZE)

\* the blocks the part logs: also the inode when the file grows
Logged(p) == LET s == Mapped(p) IN
    s.logged \cup {Block(s.addrs, s.disk, u) : u \in Units(p)}
             \cup IF Max(Units(p)) >= isize[todo[p].file] THEN {INODE} ELSE {}

\* writei of one part at the offset, which moves on
writei(p) ==
    LET i == todo[p].file
        n == part(todo[p].n)
        s == Mapped(p) IN
    /\ Writing(p) /\ Fits(i, n)
    /\ IF s.full THEN broken' = TRUE /\ UNCHANGED <<addrs, isize, used, disk, off, todo>>
       ELSE /\ addrs' = [addrs EXCEPT ![i] = s.addrs]
            /\ used' = s.used
            /\ disk' = [b \in Blocks |-> [k \in Positions |->
                  IF \E u \in Units(p) : Block(s.addrs, s.disk, u) = b /\ u % BSIZE = k THEN todo[p].v ELSE s.disk[b][k]]]
            /\ isize' = [isize EXCEPT ![i] = Max({@, off[i] + n})]
            /\ off' = [off EXCEPT ![i] = @ + n]
            /\ todo' = [todo EXCEPT ![p] = IF n = todo[p].n THEN NONE ELSE [todo[p] EXCEPT !.n = todo[p].n - n]]
            /\ UNCHANGED broken

\* past the largest file: the parts written before stay
writei_fails(p) ==
    /\ Writing(p) /\ ~Fits(todo[p].file, part(todo[p].n))
    /\ todo' = [todo EXCEPT ![p] = NONE]
    /\ UNCHANGED <<addrs, isize, used, disk, off, broken>>

\* mutant: the end of the file is not looked at
fileread_past(i, n) ==
    /\ ~broken /\ off[i] <= isize[i]
    /\ off' = [off EXCEPT ![i] = @ + n]
    /\ UNCHANGED <<addrs, isize, used, disk, todo, broken>>

fileread(i, n) ==
    /\ ~broken /\ off[i] <= isize[i]
    /\ off' = [off EXCEPT ![i] = Min({@ + n, isize[i]})]
    /\ UNCHANGED <<addrs, isize, used, disk, todo, broken>>

Idle(i) == ~broken /\ {p \in Procs : todo[p] # NONE /\ todo[p].file = i} = {}

\* opened again
sys_open(i) ==
    /\ Idle(i)
    /\ off' = [off EXCEPT ![i] = 0]
    /\ UNCHANGED <<addrs, isize, used, disk, todo, broken>>

Direct(i) == {addrs[i][k] : k \in 0 .. NDIRECT} \ {0}
Indirect(i) == IF addrs[i][NDIRECT] = 0 THEN {} ELSE {disk[addrs[i][NDIRECT]][k] : k \in 0 .. NINDIRECT - 1} \ {0}

Truncate(i, freed) ==
    /\ Idle(i)
    /\ broken' = ~(freed \subseteq used)
    /\ used' = used \ freed
    /\ addrs' = [addrs EXCEPT ![i] = [k \in 0 .. NDIRECT |-> 0]]
    /\ isize' = [isize EXCEPT ![i] = 0] /\ off' = [off EXCEPT ![i] = 0]
    /\ UNCHANGED <<disk, todo>>

\* mutant: the blocks of the indirect block are forgotten
itrunc_direct(i) == Truncate(i, Direct(i))

\* the file is removed and closed, and its inode used again
itrunc(i) == Truncate(i, Direct(i) \cup Indirect(i))

Next == \E i \in Files :
    \/ \E p \in Procs, n \in Sizes[i], v \in Vals[i] : filewrite(p, i, n, v)
    \/ \E p \in Procs : todo[p] # NONE /\ todo[p].file = i /\ (writei(p) \/ writei_fails(p))
    \/ \E n \in Sizes[i] : fileread(i, n)
    \/ sys_open(i) \/ itrunc(i)

Spec == Init /\ [][Next]_dvars

----------------------------------------------------------------------------
\* the places that hold a block number, and the blocks they hold
Slots == {s \in Files \X (0 .. MAXFILE) : LET i == s[1] k == s[2] IN
    IF k <= NDIRECT THEN addrs[i][k] # 0
    ELSE addrs[i][NDIRECT] # 0 /\ disk[addrs[i][NDIRECT]][k - NDIRECT - 1] # 0}

\* A block is marked in the bitmap exactly when an inode or an indirect block
\* refers to it, and then only one does: files share no block, and removing
\* them leaks none (balloc, bmap, itrunc).
BlocksAccounted ==
    /\ used = UNION {Direct(i) \cup Indirect(i) : i \in Files}
    /\ Cardinality(Slots) = Cardinality(used)

\* A part of a write never logs more blocks than a transaction may hold, at
\* any offset and whatever it has to allocate (filewrite, log_write).
PartFitsTransaction == \A p \in Procs :
    Writing(p) /\ Fits(todo[p].file, part(todo[p].n)) /\ ~Mapped(p).full => Cardinality(Logged(p)) <= MAXOPBLOCKS

Store == INSTANCE FileStore WITH
    content <- [i \in Files |-> [k \in 1 .. isize[i] |-> disk[Block(addrs[i], disk, k - 1)][(k - 1) % BSIZE]]],
    Vals <- UNION {Vals[i] : i \in Files}, Longest <- MAXFILE * BSIZE

\* Every file reads back as what was written to it and to no other file, and
\* processes that share an offset do not overwrite each other's parts (bmap,
\* readi, writei, fileread, filewrite, itrunc).
ImplementsFileStore == Store!Spec
=============================================================================
