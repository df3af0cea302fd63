--------------------------------- MODULE Fs ---------------------------------
(***************************************************************************)
(* Inodes, directories and the system calls on names (fs.c, sysfile.c):    *)
(* the on-disk inodes and entries, the inode cache with its references and *)
(* sleep locks, path lookup, open, create, mkdir, link, unlink, chdir and  *)
(* close, interleaved between processes.                                   *)
(*                                                                         *)
(* A process that locks an inode, works on it and unlocks it, without      *)
(* another lock in between, takes one action.  Where a call locks or puts  *)
(* an inode while it holds another lock, the lock is held across actions.  *)
(* iput, which comes last in most calls, waits in `put'.  The log makes a  *)
(* call's writes durable together (Log.tla): what a crash leaves is the    *)
(* disk of a state in which no call is under way.                          *)
(***************************************************************************)
EXTENDS Integers, Sequences, FiniteSets, FiniteSetsExt, TLC

CONSTANTS Procs, NONE,
          Names,     \* of directory entries other than "." and ".."
          Ninodes,   \* inodes on the disk
          NINODE,    \* entries of the inode cache
          ROOTINO,
          Paths      \* bound: per system call, the relative paths programs give it

Inums == 1 .. Ninodes
NoInode == 0
SysCalls == {"open", "create", "mkdir", "link", "unlink", "chdir"}

ASSUME FsAssumption ==
    /\ Ninodes \in Nat /\ NINODE \in Nat \ {0} /\ ROOTINO \in Inums /\ NONE \notin Procs
    /\ IsFiniteSet(Procs) /\ IsFiniteSet(Names)
    /\ DOMAIN Paths \subseteq SysCalls /\ \A c \in DOMAIN Paths : Paths[c] \subseteq Seq(Names) \ {<<>>}
    /\ NONE \notin SysCalls \cup {"link2"}

VARIABLES disk,    \* per inode: type and nlink of the dinode
          ents,    \* per inode: the entries of a directory
          mem, valid, ref, lock,   \* the inode cache
          fd, cwd,                 \* per process: an open file, the current directory
          pc, call, path, new,     \* per process: where it is in which call, what is left of its path
          dp, ip,                  \* per process: the inodes in hand
          put, drop,               \* per process: the inodes its iputs still have to lock, and to drop
          panic,     \* ilock or unlink has found what must not be
          entries,   \* of the inode cache, that the rest of the system leaves to these processes
          full,      \* "ialloc" or "iget" has panicked for want of an inode, or "no"
          stray      \* history: whether a name was added to a removed directory

cache == <<mem, valid>>
locals == <<call, path, new>>
hands == <<dp, ip, put, drop>>
ghosts == <<panic, full, entries, stray>>
vars == <<disk, ents, cache, ref, lock, fd, cwd, pc, locals, hands, ghosts>>

Free == [type |-> "free", nlink |-> 0]
Empty == [n \in Names |-> NoInode]

Init ==
    /\ disk = [i \in Inums |-> IF i = ROOTINO THEN [type |-> "dir", nlink |-> 1] ELSE Free]
    /\ ents = [i \in Inums |-> Empty]
    /\ mem = [i \in Inums |-> Free] /\ valid = [i \in Inums |-> FALSE]
    /\ ref = [i \in Inums |-> IF i = ROOTINO THEN Cardinality(Procs) ELSE 0]
    /\ lock = [i \in Inums |-> NONE]
    /\ fd = [p \in Procs |-> NoInode] /\ cwd = [p \in Procs |-> ROOTINO]
    /\ pc = [p \in Procs |-> "user"] /\ call = [p \in Procs |-> NONE]
    /\ path = [p \in Procs |-> <<>>] /\ new = [p \in Procs |-> <<>>]
    /\ dp = [p \in Procs |-> NoInode] /\ ip = [p \in Procs |-> NoInode]
    /\ put = [p \in Procs |-> <<>>] /\ drop = [p \in Procs |-> NoInode]
    /\ panic = FALSE /\ full = "no" /\ stray = FALSE
    /\ entries \in 1 .. NINODE

----------------------------------------------------------------------------
(* The inode cache (fs.c).                                                 *)
\* what ilock finds: the cached copy, or the dinode, which it reads
In(i) == IF valid[i] THEN mem[i] ELSE disk[i]

Inodes == [i \in Inums |-> In(i)]

\* the cached copies of the inodes in s become those of f
Load(s, f) ==
    /\ mem' = [i \in Inums |-> IF i \in s THEN f[i] ELSE mem[i]]
    /\ valid' = [i \in Inums |-> valid[i] \/ i \in s]

\* ilock without a change, and iunlock in the same action or a later one
Look(i) == Load({i}, Inodes) /\ UNCHANGED disk

\* ilock, and changes that iupdate writes through
iupdate(s, f) == Load(s, f) /\ disk' = [i \in Inums |-> IF i \in s THEN f[i] ELSE disk[i]]

Linked(i, n) == [Inodes EXCEPT ![i].nlink = @ + n]

InCache == {i \in Inums : ref[i] > 0}

\* iget finds the inode's entry, or one that nobody refers to
HasEntry(i) == i \in InCache \/ Cardinality(InCache) < entries

idup(i) == ref' = [ref EXCEPT ![i] = @ + 1]

iget(i) == HasEntry(i) /\ idup(i)

\* the panics of ilock and of the call
Panics(i, b) == panic' = (In(i).type = "free" \/ b) /\ UNCHANGED <<full, entries>>

Stopped == panic \/ full # "no"

Ready(p, l) == pc[p] = l /\ put[p] = <<>> /\ drop[p] = NoInode /\ ~Stopped

\* the rest of the call does not need its arguments any more
Forget(p) == call' = [call EXCEPT ![p] = NONE] /\ path' = [path EXCEPT ![p] = <<>>] /\ new' = [new EXCEPT ![p] = <<>>]

\* p goes to l with d and i in hand, after it has put the inodes in s
Goto(p, l, d, i, s) ==
    /\ pc' = [pc EXCEPT ![p] = l]
    /\ dp' = [dp EXCEPT ![p] = d] /\ ip' = [ip EXCEPT ![p] = i]
    /\ put' = [put EXCEPT ![p] = s] /\ UNCHANGED drop

Putting(p, i) == put[p] # <<>> /\ i = Head(put[p]) /\ drop[p] = NoInode /\ lock[i] = NONE /\ ~Stopped

\* the part of iput that holds the sleep lock: if(b) it frees the inode, whose
\* cached copy is valid if(v) after that
Iput(p, i, b, v) ==
    /\ Putting(p, i)
    /\ disk' = IF b THEN [disk EXCEPT ![i] = Free] ELSE disk
    /\ ents' = IF b THEN [ents EXCEPT ![i] = Empty] ELSE ents
    /\ mem' = IF b THEN [mem EXCEPT ![i] = Free] ELSE mem
    /\ valid' = IF b THEN [valid EXCEPT ![i] = v] ELSE valid
    /\ put' = [put EXCEPT ![p] = Tail(@)] /\ drop' = [drop EXCEPT ![p] = i]
    /\ UNCHANGED <<ref, lock, fd, cwd, pc, locals, dp, ip, ghosts>>

iput_early(p, i) == Iput(p, i, valid[i] /\ mem[i].nlink = 0, FALSE)

iput_valid(p, i) == Iput(p, i, valid[i] /\ mem[i].nlink = 0 /\ ref[i] = 1, TRUE)

iput(p, i) == Iput(p, i, valid[i] /\ mem[i].nlink = 0 /\ ref[i] = 1, FALSE)

\* and the part under icache.lock; an entry without references is recycled,
\* and iget does not take what it holds for valid
iput_unref(p) ==
    /\ drop[p] # NoInode /\ ~Stopped
    /\ ref' = [ref EXCEPT ![drop[p]] = @ - 1]
    /\ valid' = [valid EXCEPT ![drop[p]] = @ /\ ref'[drop[p]] > 0]
    /\ mem' = [mem EXCEPT ![drop[p]] = IF valid'[drop[p]] THEN @ ELSE Free]
    /\ drop' = [drop EXCEPT ![p] = NoInode]
    /\ UNCHANGED <<disk, ents, lock, fd, cwd, pc, locals, dp, ip, put, ghosts>>

----------------------------------------------------------------------------
(* Path lookup.  pc is the call's name once namei or nameiparent is done.  *)
Start(p, s) == idup(cwd[p]) /\ path' = [path EXCEPT ![p] = s]

system_call(p, c, s, t) ==
    /\ Ready(p, "user") /\ (c \in {"open", "create"} => fd[p] = NoInode)
    /\ call' = [call EXCEPT ![p] = c] /\ new' = [new EXCEPT ![p] = IF c = "link" THEN t ELSE <<>>]
    /\ Start(p, s)
    /\ Goto(p, "namex", cwd[p], NoInode, <<>>)
    /\ UNCHANGED <<disk, ents, cache, lock, fd, cwd, ghosts>>

nameiparent(p) == call[p] \in {"create", "mkdir", "unlink", "link2"}
name(p) == path[p][1]
found(p) == ents[dp[p]][name(p)]

InDir(p) ==
    /\ Ready(p, "namex") /\ lock[dp[p]] = NONE
    /\ Look(dp[p]) /\ Panics(dp[p], FALSE)
    /\ UNCHANGED <<ents, lock, fd, cwd, stray>>

namex_fail(p) ==
    /\ InDir(p)
    /\ \/ In(dp[p]).type # "dir"
       \/ found(p) = NoInode /\ ~(nameiparent(p) /\ Len(path[p]) = 1)
    /\ Goto(p, IF call[p] = "link2" THEN "bad" ELSE "end", NoInode, ip[p], <<dp[p]>>) /\ Forget(p)
    /\ UNCHANGED ref

namex_parent(p) ==
    /\ InDir(p) /\ In(dp[p]).type = "dir" /\ nameiparent(p) /\ Len(path[p]) = 1
    /\ Goto(p, call[p], dp[p], ip[p], <<>>)
    /\ UNCHANGED <<ref, locals>>

\* dirlookup has found the next inode of the path
Descends(p) == In(dp[p]).type = "dir" /\ ~(nameiparent(p) /\ Len(path[p]) = 1) /\ found(p) # NoInode

namex_next(p) ==
    /\ InDir(p) /\ Descends(p)
    /\ iget(found(p)) /\ path' = [path EXCEPT ![p] = Tail(@)]
    /\ IF Len(path[p]) = 1 THEN Goto(p, call[p], NoInode, found(p), <<dp[p]>>)
       ELSE Goto(p, "namex", found(p), ip[p], <<dp[p]>>)
    /\ UNCHANGED <<call, new>>

----------------------------------------------------------------------------
(* The calls.                                                              *)
\* with ip locked just now, or since create made it
At(p, l, i) == Ready(p, l) /\ lock[i] \in {NONE, IF l = "open" THEN p ELSE NONE}

open(p) ==
    /\ At(p, "open", ip[p])
    /\ call[p] = "open" \/ (call[p] = "create" /\ In(ip[p]).type = "file")
    /\ Look(ip[p]) /\ Panics(ip[p], FALSE)
    /\ fd' = [fd EXCEPT ![p] = ip[p]]
    /\ lock' = [lock EXCEPT ![ip[p]] = NONE]
    /\ Goto(p, "user", NoInode, NoInode, <<>>) /\ Forget(p)
    /\ UNCHANGED <<ents, ref, cwd, stray>>

\* a directory that cannot be opened like this, mkdir, or no file is left
open_put(p) ==
    /\ At(p, "open", ip[p])
    /\ Look(ip[p]) /\ Panics(ip[p], FALSE)
    /\ lock' = [lock EXCEPT ![ip[p]] = NONE]
    /\ Goto(p, "end", NoInode, NoInode, <<ip[p]>>) /\ Forget(p)
    /\ UNCHANGED <<ents, ref, fd, cwd, stray>>

create_found(p) ==
    /\ pc[p] \in {"create", "mkdir"} /\ At(p, pc[p], dp[p]) /\ found(p) # NoInode
    /\ Look(dp[p]) /\ Panics(dp[p], FALSE) /\ iget(found(p))
    /\ Goto(p, "open", NoInode, found(p), <<dp[p]>>)
    /\ UNCHANGED <<ents, lock, fd, cwd, locals, stray>>

\* ialloc takes the first free dinode
ialloc == Min({i \in Inums : disk[i].type = "free"})

NoDinode == \A i \in Inums : disk[i].type # "free"

create_new(p) ==
    /\ pc[p] \in {"create", "mkdir"} /\ At(p, pc[p], dp[p]) /\ found(p) = NoInode /\ ~NoDinode
    /\ Load({dp[p]}, Inodes) /\ Panics(dp[p], FALSE)
    /\ disk' = [disk EXCEPT ![ialloc] = [type |-> IF call[p] = "mkdir" THEN "dir" ELSE "file", nlink |-> 0]]
    /\ iget(ialloc)
    /\ lock' = [lock EXCEPT ![dp[p]] = p]
    /\ Goto(p, "create_ip", dp[p], ialloc, <<>>)
    /\ UNCHANGED <<ents, fd, cwd, locals, stray>>

\* "." and ".." count for the parent only
create_ip(p) ==
    /\ At(p, "create_ip", ip[p])
    /\ iupdate({dp[p], ip[p]}, [Linked(dp[p], IF call[p] = "mkdir" THEN 1 ELSE 0) EXCEPT ![ip[p]].nlink = 1])
    /\ Panics(ip[p], FALSE)
    /\ ents' = [ents EXCEPT ![dp[p]][name(p)] = ip[p], ![ip[p]] = Empty]
    /\ stray' = (stray \/ In(dp[p]).nlink = 0)
    /\ lock' = [lock EXCEPT ![dp[p]] = NONE, ![ip[p]] = p]
    /\ Goto(p, "open", NoInode, ip[p], <<dp[p]>>)
    /\ UNCHANGED <<ref, fd, cwd, locals>>

link(p) ==
    /\ At(p, "link", ip[p]) /\ In(ip[p]).type # "dir"
    /\ iupdate({ip[p]}, Linked(ip[p], 1)) /\ Panics(ip[p], FALSE)
    /\ call' = [call EXCEPT ![p] = "link2"]
    /\ Start(p, new[p])
    /\ Goto(p, "namex", cwd[p], ip[p], <<>>)
    /\ UNCHANGED <<ents, lock, fd, cwd, new, stray>>

link_dir(p) ==
    /\ At(p, "link", ip[p]) /\ In(ip[p]).type = "dir"
    /\ Look(ip[p]) /\ Panics(ip[p], FALSE)
    /\ Goto(p, "end", NoInode, NoInode, <<ip[p]>>) /\ Forget(p)
    /\ UNCHANGED <<ents, ref, lock, fd, cwd, stray>>

link_dirlink(p) ==
    /\ At(p, "link2", dp[p]) /\ found(p) = NoInode
    /\ Look(dp[p]) /\ Panics(dp[p], FALSE)
    /\ ents' = [ents EXCEPT ![dp[p]][name(p)] = ip[p]]
    /\ stray' = (stray \/ In(dp[p]).nlink = 0)
    /\ Goto(p, "end", NoInode, NoInode, <<dp[p], ip[p]>>) /\ Forget(p)
    /\ UNCHANGED <<ref, lock, fd, cwd>>

\* dirlink puts the inode that has the name while the directory is locked
link_exists(p) ==
    /\ At(p, "link2", dp[p]) /\ found(p) # NoInode
    /\ Look(dp[p]) /\ Panics(dp[p], FALSE) /\ iget(found(p))
    /\ lock' = [lock EXCEPT ![dp[p]] = p]
    /\ Goto(p, "unlock_dp", dp[p], ip[p], <<found(p)>>)
    /\ UNCHANGED <<ents, fd, cwd, locals, stray>>

\* iunlockput(dp) on the way to bad:
unlock_dp(p) ==
    /\ Ready(p, "unlock_dp")
    /\ lock' = [lock EXCEPT ![dp[p]] = NONE]
    /\ Goto(p, IF call[p] = "link2" THEN "bad" ELSE "end", NoInode, ip[p], <<dp[p]>>) /\ Forget(p)
    /\ UNCHANGED <<disk, ents, cache, ref, fd, cwd, ghosts>>

LinkBad(p, n) ==
    /\ At(p, "bad", ip[p])
    /\ iupdate({ip[p]}, Linked(ip[p], n)) /\ Panics(ip[p], FALSE)
    /\ Goto(p, "end", NoInode, NoInode, <<ip[p]>>) /\ Forget(p)
    /\ UNCHANGED <<ents, ref, lock, fd, cwd, stray>>

link_bad_keeps(p) == LinkBad(p, 0)

link_bad(p) == LinkBad(p, -1)

unlink_none(p) ==
    /\ At(p, "unlink", dp[p]) /\ found(p) = NoInode
    /\ Look(dp[p]) /\ Panics(dp[p], FALSE)
    /\ Goto(p, "end", NoInode, NoInode, <<dp[p]>>) /\ Forget(p)
    /\ UNCHANGED <<ents, ref, lock, fd, cwd, stray>>

unlink(p) ==
    /\ At(p, "unlink", dp[p]) /\ found(p) # NoInode
    /\ Look(dp[p]) /\ Panics(dp[p], FALSE) /\ iget(found(p))
    /\ lock' = [lock EXCEPT ![dp[p]] = p]
    /\ Goto(p, "unlink_ip", dp[p], found(p), <<>>)
    /\ UNCHANGED <<ents, fd, cwd, locals, stray>>

\* The panics for want of an inode stop the machine, in the middle of a
\* transaction that is never committed.
ialloc_panics(p) ==
    /\ pc[p] \in {"create", "mkdir"} /\ At(p, pc[p], dp[p]) /\ found(p) = NoInode /\ NoDinode
    /\ full' = "ialloc"
    /\ UNCHANGED <<disk, ents, cache, ref, lock, fd, cwd, pc, locals, hands, panic, entries, stray>>

\* for the inode of the name found, or for the one that ialloc has taken
iget_panics(p) ==
    /\ \/ pc[p] = "namex" /\ Descends(p) /\ ~HasEntry(found(p))
       \/ pc[p] \in {"create", "mkdir", "link2", "unlink"} /\ found(p) # NoInode /\ ~HasEntry(found(p))
       \/ pc[p] \in {"create", "mkdir"} /\ found(p) = NoInode /\ ~NoDinode /\ ~HasEntry(ialloc)
    /\ At(p, pc[p], dp[p])
    /\ full' = "iget"
    /\ UNCHANGED <<disk, ents, cache, ref, lock, fd, cwd, pc, locals, hands, panic, entries, stray>>

isdirempty(i) == ents[i] = Empty

unlink_full(p) ==
    /\ At(p, "unlink_ip", ip[p]) /\ In(ip[p]).type = "dir" /\ ~isdirempty(ip[p])
    /\ Look(ip[p]) /\ Panics(ip[p], In(ip[p]).nlink < 1)
    /\ Goto(p, "unlock_dp", dp[p], NoInode, <<ip[p]>>) /\ Forget(p)
    /\ UNCHANGED <<ents, ref, lock, fd, cwd, stray>>

unlink_ip(p) ==
    /\ At(p, "unlink_ip", ip[p]) /\ (In(ip[p]).type = "dir" => isdirempty(ip[p]))
    /\ iupdate({dp[p], ip[p]}, Linked(dp[p], IF In(ip[p]).type = "dir" THEN -1 ELSE 0))
    /\ Panics(ip[p], In(ip[p]).nlink < 1)
    /\ ents' = [ents EXCEPT ![dp[p]][name(p)] = NoInode]
    /\ lock' = [lock EXCEPT ![dp[p]] = NONE, ![ip[p]] = p]
    /\ Goto(p, "unlink_dec", NoInode, ip[p], <<dp[p]>>) /\ Forget(p)
    /\ UNCHANGED <<ref, fd, cwd, stray>>

unlink_dec(p) ==
    /\ Ready(p, "unlink_dec")
    /\ iupdate({ip[p]}, Linked(ip[p], -1))
    /\ lock' = [lock EXCEPT ![ip[p]] = NONE]
    /\ Goto(p, "end", NoInode, NoInode, <<ip[p]>>) /\ Forget(p)
    /\ UNCHANGED <<ents, ref, fd, cwd, ghosts>>

chdir(p) ==
    /\ At(p, "chdir", ip[p])
    /\ Look(ip[p]) /\ Panics(ip[p], FALSE)
    /\ IF In(ip[p]).type = "dir" THEN Goto(p, "chdir_end", NoInode, ip[p], <<cwd[p]>>)
       ELSE Goto(p, "end", NoInode, NoInode, <<ip[p]>>)
    /\ Forget(p)
    /\ UNCHANGED <<ents, ref, lock, fd, cwd, stray>>

chdir_end(p) ==
    /\ Ready(p, "chdir_end")
    /\ cwd' = [cwd EXCEPT ![p] = ip[p]]
    /\ Goto(p, "user", NoInode, NoInode, <<>>)
    /\ UNCHANGED <<disk, ents, cache, ref, lock, fd, locals, ghosts>>

close(p) ==
    /\ Ready(p, "user") /\ fd[p] # NoInode
    /\ fd' = [fd EXCEPT ![p] = NoInode]
    /\ Goto(p, "end", NoInode, NoInode, <<fd[p]>>) /\ Forget(p)
    /\ UNCHANGED <<disk, ents, cache, ref, lock, cwd, ghosts>>

end_op(p) ==
    /\ Ready(p, "end")
    /\ Goto(p, "user", NoInode, NoInode, <<>>)
    /\ UNCHANGED <<disk, ents, cache, ref, lock, fd, cwd, locals, ghosts>>

AtRest == \A p \in Procs : Ready(p, "user")

Step(p) ==
    \/ iput_unref(p) \/ (\E i \in Inums : iput(p, i))
    \/ namex_fail(p) \/ namex_parent(p) \/ namex_next(p) \/ open(p) \/ open_put(p)
    \/ create_found(p) \/ create_new(p) \/ create_ip(p)
    \/ ialloc_panics(p) \/ iget_panics(p)
    \/ link(p) \/ link_dir(p) \/ link_dirlink(p) \/ link_exists(p) \/ unlock_dp(p) \/ link_bad(p)
    \/ unlink_none(p) \/ unlink(p) \/ unlink_full(p) \/ unlink_ip(p) \/ unlink_dec(p)
    \/ chdir(p) \/ chdir_end(p) \/ end_op(p)

Next == \E p \in Procs :
    \/ Step(p) \/ close(p)
    \/ pc[p] = "user" /\ \E c \in DOMAIN Paths : \E s, t \in Paths[c] : system_call(p, c, s, t)

Spec == Init /\ [][Next]_vars

----------------------------------------------------------------------------
\* Every variable of the file system has its type.
TypeOK ==
    /\ disk \in [Inums -> [type : {"free", "dir", "file"}, nlink : Nat]]
    /\ mem \in [Inums -> [type : {"free", "dir", "file"}, nlink : Nat]]
    /\ ents \in [Inums -> [Names -> Inums \cup {NoInode}]]
    /\ valid \in [Inums -> BOOLEAN] /\ ref \in [Inums -> Nat] /\ lock \in [Inums -> Procs \cup {NONE}]
    /\ fd \in [Procs -> Inums \cup {NoInode}] /\ cwd \in [Procs -> Inums]

\* how often the calls under way and the processes at rest point to i
Pointing(at, i) == Cardinality({p \in Procs : at[p] = i})
InPut(i) == Cardinality({r \in Procs \X (1 .. 2) : r[2] \in DOMAIN put[r[1]] /\ put[r[1]][r[2]] = i})
InCwd(i) == Cardinality({p \in Procs : cwd[p] = i /\ pc[p] # "chdir_end"})

\* An inode's reference count is the number of pointers to it: open files,
\* current directories, and what system calls under way hold (iget, iput).
RefExact == \A i \in Inums :
    ref[i] = Pointing(fd, i) + Pointing(dp, i) + Pointing(ip, i) + Pointing(drop, i) + InCwd(i) + InPut(i)

\* An inode that a name, an open file, a directory or a call refers to is
\* never free, so ilock never finds a free inode and unlink never a link count
\* of zero (iput's test of ref and nlink against lookups and ialloc on other
\* processors).
InUseIsAllocated ==
    /\ ~panic
    /\ \A d \in Inums, n \in Names : ents[d][n] # NoInode => disk[ents[d][n]].type # "free"
    /\ \A p \in Procs : {fd[p], dp[p], ip[p]} \cap {i \in Inums : disk[i].type = "free"} = {}

\* The inodes that are referred to have an entry each, and the panics of ialloc
\* and iget are for real: every dinode is in use by a name or a call, or every
\* entry of the cache by an open file, a current directory or a call.
FullForReal ==
    /\ full \in {"no", "ialloc", "iget"} /\ entries \in 1 .. NINODE
    /\ IF full = "iget" THEN Cardinality(InCache) = entries ELSE Cardinality(InCache) <= entries
    /\ full = "ialloc" => NoDinode

\* The inode cache's bookkeeping while calls overlap: types, exact reference
\* counts, nothing in use is free, and no panic but for want of inodes.
FsInv == TypeOK /\ RefExact /\ InUseIsAllocated /\ FullForReal

\* The cached copy of an inode that somebody refers to is the one on the disk:
\* the cache is write-through (iupdate) and a freed or recycled entry is read
\* again (iput, iget).
CacheCoherent == \A i \in Inums : valid[i] /\ ref[i] > 0 => mem[i] = disk[i]

Entries(i) == {e \in Inums \X Names : ents[e[1]][e[2]] = i}
Subdirs(i) == {n \in Names : ents[i][n] # NoInode /\ disk[ents[i][n]].type = "dir"}

\* When no call is under way, which is when the log commits and what a crash
\* leaves, every link count is the number of names, a subdirectory's ".."
\* included, unless a name was added to a removed directory (link's count
\* comes before its name, unlink's after it).
LinkCountExact == AtRest /\ ~stray => \A i \in Inums \ {ROOTINO} :
    disk[i].nlink = Cardinality(Entries(i)) + IF Entries(i) = {} THEN 0 ELSE Cardinality(Subdirs(i))

\* When no call is under way an inode without names and references is free
\* (iput frees when the reference and link counts have fallen to zero).
NoInodeLost == AtRest => \A i \in Inums : disk[i].type # "free" => disk[i].nlink > 0 \/ ref[i] > 0

\* p waits for a lock that q has.
Wants(p) == IF drop[p] # NoInode \/ Stopped THEN NoInode
            ELSE IF put[p] # <<>> THEN Head(put[p])
            ELSE IF pc[p] \in {"namex", "create", "mkdir", "link2", "unlink"} THEN dp[p]
            ELSE IF pc[p] \in {"user", "end", "unlock_dp", "unlink_dec", "chdir_end"} THEN NoInode ELSE ip[p]
WaitsFor(p, q) == Wants(p) # NoInode /\ lock[Wants(p)] = q /\ ~(p = q /\ pc[p] = "open" /\ put[p] = <<>>)

\* No two calls wait for each other's inode locks (create and unlink put the
\* directory while they have the file locked, and iput takes its lock).
NoWaitCycle == \A p, q \in Procs : ~(WaitsFor(p, q) /\ WaitsFor(q, p))
=============================================================================
