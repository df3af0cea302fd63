-------------------------------- MODULE MCFs --------------------------------
(* The file system's names and inodes on a small instance, for TLC. *)
EXTENDS Fs

CONSTANTS p1, p2, a, b

\* processes are interchangeable
Symmetric == Permutations(Procs)

\* a directory and what it contains, for the calls on names and for those on
\* inodes
Deep == [c \in SysCalls |-> IF c \in {"create", "link", "unlink"} THEN {<<a>>, <<a, b>>} ELSE {<<a>>}]

\* the calls of the lock cycle and of the lost inode, on two names
Cycle == [c \in {"create", "unlink"} |-> {<<a>>, <<b>>}]
Lost == [c \in {"open", "create", "unlink"} |-> {<<a>>, <<b>>}]
=============================================================================
