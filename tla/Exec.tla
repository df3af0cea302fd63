-------------------------------- MODULE Exec --------------------------------
(***************************************************************************)
(* exec of xv6 (exec.c): the new image is built beside the old one, under  *)
(* the lock of the program's inode and inside a transaction for the first  *)
(* part of the way; every step can fail, and leads to bad.  Where a page   *)
(* lies and what is in it is left out: a page table is the set of its      *)
(* frames, the page directory included.                                    *)
(***************************************************************************)
EXTENDS Integers, FiniteSets

CONSTANTS Frames, NONE,
          MaxPages,  \* bound: the pages of a segment
          MaxSegs    \* bound: the segments of a program

VARIABLES xpc,     \* where exec is, or "user"
          image,   \* the frames of the process
          pgdir,   \* the frames of the new image, or NONE
          ip,      \* the local variable: "inode", or NONE for 0
          ref,     \* references exec has to the inode, which it has locked
          ops,     \* transactions exec has begun and not ended
          segs,    \* segments loaded
          xfree    \* free frames

xvars == <<xpc, image, pgdir, ip, ref, ops, segs, xfree>>

Init ==
    /\ xpc = "user" /\ pgdir = NONE /\ ip = NONE
    /\ ref = 0 /\ ops = 0 /\ segs = 0
    /\ image = {CHOOSE f \in Frames : TRUE} /\ xfree = Frames \ image

Goto(at) == xpc' = at

exec == xpc = "user" /\ ops' = ops + 1 /\ Goto("namei") /\ UNCHANGED <<image, pgdir, ip, ref, segs, xfree>>

namei_fails == xpc = "namei" /\ ops' = ops - 1 /\ Goto("user") /\ UNCHANGED <<image, pgdir, ip, ref, segs, xfree>>

namei ==
    /\ xpc = "namei"
    /\ ip' = "inode" /\ ref' = ref + 1 /\ Goto("header")
    /\ UNCHANGED <<image, pgdir, ops, segs, xfree>>

\* n frames, as allocuvm and setupkvm take them
Take(n, s) == s \subseteq xfree /\ Cardinality(s) = n /\ xfree' = xfree \ s

setupkvm ==
    /\ xpc = "header"
    /\ \E s \in SUBSET xfree : Take(1, s) /\ pgdir' = s
    /\ Goto("load")
    /\ UNCHANGED <<image, ip, ref, ops, segs>>

load_segment ==
    /\ xpc = "load" /\ segs < MaxSegs
    /\ \E s \in SUBSET xfree, n \in 0 .. MaxPages : Take(n, s) /\ pgdir' = pgdir \cup s
    /\ segs' = segs + 1
    /\ UNCHANGED <<xpc, image, ip, ref, ops>>

\* mutant: ip = 0 is forgotten
loaded_keeps_ip ==
    /\ xpc = "load"
    /\ ref' = ref - 1 /\ ops' = ops - 1 /\ Goto("stack")
    /\ UNCHANGED <<image, pgdir, ip, segs, xfree>>

loaded ==
    /\ xpc = "load"
    /\ ref' = ref - 1 /\ ops' = ops - 1 /\ ip' = NONE /\ Goto("stack")
    /\ UNCHANGED <<image, pgdir, segs, xfree>>

\* the stack and the page below it, then the arguments
stack ==
    /\ xpc = "stack"
    /\ \E s \in SUBSET xfree : Take(2, s) /\ pgdir' = pgdir \cup s
    /\ Goto("args")
    /\ UNCHANGED <<image, ip, ref, ops, segs>>

commit ==
    /\ xpc = "args"
    /\ image' = pgdir /\ xfree' = xfree \cup image
    /\ pgdir' = NONE /\ segs' = 0 /\ Goto("user")
    /\ UNCHANGED <<ip, ref, ops>>

\* a bad header or segment, no memory, too many or too long arguments; what
\* an allocuvm that fails has taken it has given back
bad ==
    /\ xpc \in {"header", "load", "stack", "args"}
    /\ xfree' = IF pgdir = NONE THEN xfree ELSE xfree \cup pgdir
    /\ IF ip = NONE THEN UNCHANGED <<ref, ops>> ELSE ref' = ref - 1 /\ ops' = ops - 1
    /\ pgdir' = NONE /\ ip' = NONE /\ segs' = 0 /\ Goto("user")
    /\ UNCHANGED image

Next == exec \/ namei_fails \/ namei \/ setupkvm \/ load_segment \/ loaded \/ stack \/ commit \/ bad

Spec == Init /\ [][Next]_xvars

----------------------------------------------------------------------------
\* On whichever step exec fails, or succeeds, it has given back the inode and
\* its lock, ended its transaction once, and lost no frame; meanwhile the old
\* image stays whole (exec, bad).
LeaksNothing ==
    /\ ref >= 0 /\ ops >= 0
    /\ xpc = "user" => ref = 0 /\ ops = 0 /\ xfree = Frames \ image
    /\ image # {} /\ image \cap xfree = {} /\ (pgdir # NONE => image \cap pgdir = {})
=============================================================================
