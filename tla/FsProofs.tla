------------------------------ MODULE FsProofs ------------------------------
(***************************************************************************)
(* Theorems about inodes, directories and the system calls on names (Fs),  *)
(* for any number of processes, names and inodes and for paths of any      *)
(* length.                                                                 *)
(*                                                                         *)
(* A free inode is never in use because iput frees one only when its       *)
(* reference count is the caller's own (so RefExact must hold for every    *)
(* pointer of every call under way) and its link count is zero (so Links   *)
(* must account for names, and for the calls that have counted a name they *)
(* have not written yet, or removed one they have not uncounted).  The     *)
(* inode a create has just allocated has no name yet and nothing but its   *)
(* creator refers to it (Fresh).                                           *)
(***************************************************************************)
EXTENDS Fs, TLAPS, FiniteSetTheorems, WellFoundedInduction

----------------------------------------------------------------------------
(* Where a process has a directory, or another inode, in hand.             *)
HasDir == {"namex", "create", "mkdir", "link2", "unlink", "create_ip", "unlink_ip", "unlock_dp"}
HasIno == {"open", "link", "chdir", "create_ip", "unlink_ip", "unlink_dec", "bad", "chdir_end"}
(* Where it still needs a name of its path, and where that directory is    *)
(* known to be one.                                                        *)
InParent == {"create", "mkdir", "link2", "unlink", "create_ip", "unlink_ip"}
Searching == InParent \cup {"namex"}
InCalls == SysCalls \cup {"link2"}
Labels == HasDir \cup HasIno \cup {"user", "end"}
Maybe == Inums \cup {NoInode}

(* A call's own variables: which of them mean something at which point.    *)
Local(p) ==
    /\ Len(put[p]) <= 2
    /\ dp[p] # NoInode <=> pc[p] \in HasDir
    /\ ip[p] # NoInode <=> (pc[p] \in HasIno \/ call[p] = "link2")
    /\ pc[p] \in Searching => path[p] # <<>>
    /\ pc[p] \in {"create", "mkdir", "link", "link2", "unlink"} => call[p] = pc[p]
    /\ pc[p] = "namex" => call[p] \in InCalls
    /\ pc[p] = "create_ip" => call[p] \in {"create", "mkdir"}
    /\ call[p] = "link" => new[p] # <<>>
    /\ call[p] \in {"open", "create"} => fd[p] = NoInode
    /\ call[p] = "link2" => pc[p] \in {"namex", "link2", "unlock_dp"}

Allocated(i) == disk[i].type # "free"

(* What a process refers to is allocated, except what it is about to drop. *)
Held(p) ==
    /\ fd[p] # NoInode => Allocated(fd[p])
    /\ dp[p] # NoInode => Allocated(dp[p])
    /\ ip[p] # NoInode => Allocated(ip[p])
    /\ pc[p] # "chdir_end" => Allocated(cwd[p])

(* What a call has seen of an inode's type stays true.                     *)
Kinds(p) ==
    /\ pc[p] \in InParent => disk[dp[p]].type = "dir"
    /\ call[p] = "link2" \/ pc[p] = "bad" => disk[ip[p]].type = "file"

(* What a call has seen in a directory it holds the lock of.               *)
Locked(p) ==
    /\ pc[p] \in {"create_ip", "unlock_dp", "unlink_ip"} => lock[dp[p]] = p
    /\ pc[p] = "unlink_dec" => lock[ip[p]] = p /\ ents[ip[p]] = Empty
    /\ pc[p] = "unlink_ip" => ents[dp[p]][path[p][1]] = ip[p]
    /\ pc[p] = "create_ip" => ents[dp[p]][path[p][1]] = NoInode

(* An inode without a name yet is known to its creator only.               *)
Fresh(p) == pc[p] = "create_ip" =>
    /\ disk[ip[p]].type = (IF call[p] = "mkdir" THEN "dir" ELSE "file") /\ disk[ip[p]].nlink = 0
    /\ ents[ip[p]] = Empty /\ dp[p] # ip[p]
    /\ \A d \in Inums, n \in Names : ents[d][n] # ip[p]
    /\ \A q \in Procs \ {p} : dp[q] # ip[p] /\ ip[q] # ip[p] /\ (pc[q] # "chdir_end" => cwd[q] # ip[p])

(* A valid cache entry is in use, and is what the disk holds.              *)
Coherent == \A i \in Inums : valid[i] => mem[i] = disk[i] /\ ref[i] > 0 /\ Allocated(i)

(* Only directories have entries, none of itself, and none of a free       *)
(* inode; the root stays.                                                  *)
Tree ==
    /\ disk[ROOTINO].type = "dir"
    /\ \A d \in Inums :
          /\ disk[d].type # "dir" => ents[d] = Empty
          /\ \A n \in Names : ents[d][n] # NoInode => Allocated(ents[d][n]) /\ ents[d][n] # d

(* The calls that have counted a name of i which is not there.             *)
Owing(i) == {p \in Procs : ip[p] = i /\ (pc[p] \in {"unlink_dec", "bad"} \/ call[p] = "link2")}
Counted(i) == Cardinality(Entries(i)) + Cardinality(Subdirs(i)) + Cardinality(Owing(i)) + (IF i = ROOTINO THEN 1 ELSE 0)

(* The link count is never too low, and exact unless a name was added to a *)
(* removed directory.                                                      *)
Links == \A i \in Inums : disk[i].nlink >= Counted(i) /\ (~stray => disk[i].nlink = Counted(i))

(* A directory that is not empty has a name itself.                        *)
Rooted == ~stray => \A d \in Inums : ents[d] # Empty => d = ROOTINO \/ Entries(d) # {}

(* The types of the variables of the calls.                                *)
Types ==
    /\ TypeOK /\ panic = FALSE /\ stray \in BOOLEAN
    /\ dp \in [Procs -> Maybe] /\ ip \in [Procs -> Maybe] /\ drop \in [Procs -> Maybe]
    /\ put \in [Procs -> Seq(Inums)] /\ pc \in [Procs -> Labels] /\ call \in [Procs -> InCalls \cup {NONE}]
    /\ path \in [Procs -> Seq(Names)] /\ new \in [Procs -> Seq(Names)]

(* The inductive invariant.                                                *)
FsIInv ==
    /\ Types
    /\ \A p \in Procs : Local(p) /\ Held(p) /\ Kinds(p) /\ Locked(p) /\ Fresh(p)
    /\ RefExact /\ Coherent /\ Tree /\ Links /\ Rooted

----------------------------------------------------------------------------
(* Finite sets.                                                            *)
B(b) == IF b THEN 1 ELSE 0

(* A finite set of numbers that is not empty has a least element.          *)
LEMMA Least ==
    ASSUME NEW S, S \subseteq Inums, S # {}
    PROVE  Min(S) \in S
<1> DEFINE below(x) == {y \in S : y <= x}
           T == {below(x) : x \in S}
           R == StrictSubsetOrdering(S)
<1>1. Ninodes \in Nat /\ S \subseteq Int
    BY FsAssumption DEF Inums
<1>2. IsFiniteSet(S)
  <2>1. IsFiniteSet(1 .. Ninodes)
      BY <1>1, FS_Interval
  <2> QED BY <2>1, FS_Subset DEF Inums
<1>3. T \subseteq FiniteSubsetsOf(S)
  <2> SUFFICES ASSUME NEW x \in S PROVE below(x) \in FiniteSubsetsOf(S)
      OBVIOUS
  <2> QED BY <1>2, FS_Subset DEF FiniteSubsetsOf
<1>4. IsWellFoundedOn(R, FiniteSubsetsOf(S))
    BY FS_StrictSubsetOrderingWellFounded
<1>5. T # {}
    OBVIOUS
<1>6. \E m \in T : \A t \in T : ~(<<t, m>> \in R)
  <2> HIDE DEF T, R
  <2> QED BY <1>3, <1>4, <1>5, WFMin
<1>7. PICK m \in S : \A x \in S : ~(<<below(x), below(m)>> \in R)
    BY <1>6
<1>8. ASSUME NEW x \in S PROVE m <= x
  <2> SUFFICES ASSUME x < m PROVE FALSE
      BY <1>1
  <2>1. below(x) \subseteq below(m) /\ m \in below(m) /\ m \notin below(x)
    <3>1. x \in Int /\ m \in Int /\ \A y \in S : y \in Int
        BY <1>1
    <3>2. \A y \in S : y <= x => y <= m
        BY <3>1
    <3>3. m <= m /\ ~(m <= x)
        BY <3>1
    <3> QED BY <3>2, <3>3
  <2>2. below(x) \in SUBSET S /\ below(m) \in SUBSET S /\ below(x) # below(m)
      BY <2>1
  <2>3. <<below(x), below(m)>> \in R
    <3> HIDE DEF below
    <3> QED BY <2>1, <2>2 DEF StrictSubsetOrdering
  <2> QED BY <2>3, <1>7
<1> QED BY <1>8 DEF Min

(* Sets of processes that differ at p at most.                             *)
LEMMA OneDiffers ==
    ASSUME NEW S \in SUBSET Procs, NEW T \in SUBSET Procs, NEW p \in Procs,
           \A q \in Procs \ {p} : q \in S <=> q \in T
    PROVE  /\ Cardinality(S) \in Nat /\ Cardinality(T) \in Nat
           /\ Cardinality(T) = Cardinality(S) + B(p \in T) - B(p \in S)
<1>1. IsFiniteSet(S) /\ IsFiniteSet(T)
    BY FS_Subset, FsAssumption
<1>2. Cardinality(S) \in Nat /\ Cardinality(T) \in Nat
    BY <1>1, FS_CardinalityType
<1>3. Cardinality(S \ {p}) = Cardinality(S) - B(p \in S)
  <2>1. Cardinality(S \ {p}) = IF p \in S THEN Cardinality(S) - 1 ELSE Cardinality(S)
      BY <1>1, FS_RemoveElement
  <2> QED BY <1>2, <2>1 DEF B
<1>4. Cardinality(T \ {p}) = Cardinality(T) - B(p \in T)
  <2>1. Cardinality(T \ {p}) = IF p \in T THEN Cardinality(T) - 1 ELSE Cardinality(T)
      BY <1>1, FS_RemoveElement
  <2> QED BY <1>2, <2>1 DEF B
<1>5. S \ {p} = T \ {p}
    OBVIOUS
<1> QED BY <1>2, <1>3, <1>4, <1>5 DEF B

----------------------------------------------------------------------------
(* Reference counts.                                                       *)
Hold(s, i) == B(1 \in DOMAIN s /\ s[1] = i) + B(2 \in DOMAIN s /\ s[2] = i)

(* How often process p refers to i.                                        *)
Share(p, i) == B(fd[p] = i) + B(dp[p] = i) + B(ip[p] = i) + B(drop[p] = i)
               + B(cwd[p] = i /\ pc[p] # "chdir_end") + Hold(put[p], i)

PutPairs(i) == {r \in Procs \X (1 .. 2) : r[2] \in DOMAIN put[r[1]] /\ put[r[1]][r[2]] = i}
CwdOf(i) == {p \in Procs : cwd[p] = i /\ pc[p] # "chdir_end"}
Pointers(i) == Pointing(fd, i) + Pointing(dp, i) + Pointing(ip, i) + Pointing(drop, i) + InCwd(i) + InPut(i)

(* A step of p leaves the variables of the other processes alone.          *)
Others(p) == \A q \in Procs \ {p} :
    /\ fd'[q] = fd[q] /\ cwd'[q] = cwd[q] /\ pc'[q] = pc[q] /\ call'[q] = call[q]
    /\ path'[q] = path[q] /\ new'[q] = new[q] /\ dp'[q] = dp[q] /\ ip'[q] = ip[q]
    /\ put'[q] = put[q] /\ drop'[q] = drop[q]

LEMMA PairsFinite == \A R \in SUBSET (Procs \X (1 .. 2)) : IsFiniteSet(R) /\ Cardinality(R) \in Nat
<1>1. IsFiniteSet(1 .. 2)
  <2>1. 1 \in Int /\ 2 \in Int
      OBVIOUS
  <2> QED BY ONLY <2>1, FS_Interval
<1>2. IsFiniteSet(Procs \X (1 .. 2))
    BY <1>1, FS_Product, FsAssumption
<1> QED BY <1>2, FS_Subset, FS_CardinalityType

(* Sets of pairs that differ at p at most.                                 *)
LEMMA PairsDiffer ==
    ASSUME NEW S \in SUBSET (Procs \X (1 .. 2)), NEW T \in SUBSET (Procs \X (1 .. 2)), NEW p \in Procs,
           \A q \in Procs \ {p}, k \in 1 .. 2 : <<q, k>> \in S <=> <<q, k>> \in T
    PROVE  /\ Cardinality(S) \in Nat /\ Cardinality(T) \in Nat
           /\ Cardinality(T) = Cardinality(S) + B(<<p, 1>> \in T) + B(<<p, 2>> \in T)
                                              - B(<<p, 1>> \in S) - B(<<p, 2>> \in S)
<1>1. ASSUME NEW R \in SUBSET (Procs \X (1 .. 2))
      PROVE  /\ Cardinality(R) \in Nat
             /\ Cardinality((R \ {<<p, 1>>}) \ {<<p, 2>>}) = Cardinality(R) - B(<<p, 1>> \in R) - B(<<p, 2>> \in R)
  <2>1. IsFiniteSet(R) /\ Cardinality(R) \in Nat
      BY PairsFinite
  <2>2. IsFiniteSet(R \ {<<p, 1>>})
        /\ Cardinality(R \ {<<p, 1>>}) = IF <<p, 1>> \in R THEN Cardinality(R) - 1 ELSE Cardinality(R)
      BY <2>1, FS_RemoveElement
  <2>3. Cardinality((R \ {<<p, 1>>}) \ {<<p, 2>>}) = IF <<p, 2>> \in R \ {<<p, 1>>}
            THEN Cardinality(R \ {<<p, 1>>}) - 1 ELSE Cardinality(R \ {<<p, 1>>})
      BY <2>2, FS_RemoveElement
  <2>4. <<p, 2>> \in R \ {<<p, 1>>} <=> <<p, 2>> \in R
      OBVIOUS
  <2> QED BY <2>1, <2>2, <2>3, <2>4 DEF B
<1>2. (S \ {<<p, 1>>}) \ {<<p, 2>>} = (T \ {<<p, 1>>}) \ {<<p, 2>>}
  <2>1. ASSUME NEW r \in Procs \X (1 .. 2), r # <<p, 1>>, r # <<p, 2>> PROVE r \in S <=> r \in T
    <3>1. PICK q \in Procs, k \in 1 .. 2 : r = <<q, k>>
        OBVIOUS
    <3>2. q # p
        BY <2>1, <3>1
    <3> QED BY <3>1, <3>2
  <2> QED BY <2>1
<1>3. Cardinality(S) \in Nat
      /\ Cardinality((S \ {<<p, 1>>}) \ {<<p, 2>>}) = Cardinality(S) - B(<<p, 1>> \in S) - B(<<p, 2>> \in S)
    BY <1>1
<1>4. Cardinality(T) \in Nat
      /\ Cardinality((T \ {<<p, 1>>}) \ {<<p, 2>>}) = Cardinality(T) - B(<<p, 1>> \in T) - B(<<p, 2>> \in T)
    BY <1>1
<1> QED BY <1>2, <1>3, <1>4 DEF B

(* A step of p changes the pointers to i as it changes p's.                *)
LEMMA SharesMoved ==
    ASSUME NEW p \in Procs, NEW i \in Inums, Others(p)
    PROVE  /\ Pointers(i) \in Nat /\ Pointers(i)' \in Nat
           /\ Pointers(i)' = Pointers(i) + Share(p, i)' - Share(p, i)
<1> DEFINE P(at) == {q \in Procs : at[q] = i}
<1>1. /\ Cardinality(P(fd)) \in Nat /\ Cardinality(P(fd')) \in Nat
      /\ Cardinality(P(fd')) = Cardinality(P(fd)) + B(fd'[p] = i) - B(fd[p] = i)
  <2>1. \A q \in Procs \ {p} : q \in P(fd) <=> q \in P(fd')
      BY DEF Others
  <2>2. p \in P(fd) <=> fd[p] = i
      OBVIOUS
  <2>3. p \in P(fd') <=> fd'[p] = i
      OBVIOUS
  <2> HIDE DEF P
  <2>4. P(fd) \in SUBSET Procs /\ P(fd') \in SUBSET Procs
      BY DEF P
  <2> QED BY <2>1, <2>2, <2>3, <2>4, OneDiffers
<1>2. /\ Cardinality(P(dp)) \in Nat /\ Cardinality(P(dp')) \in Nat
      /\ Cardinality(P(dp')) = Cardinality(P(dp)) + B(dp'[p] = i) - B(dp[p] = i)
  <2>1. \A q \in Procs \ {p} : q \in P(dp) <=> q \in P(dp')
      BY DEF Others
  <2>2. p \in P(dp) <=> dp[p] = i
      OBVIOUS
  <2>3. p \in P(dp') <=> dp'[p] = i
      OBVIOUS
  <2> HIDE DEF P
  <2>4. P(dp) \in SUBSET Procs /\ P(dp') \in SUBSET Procs
      BY DEF P
  <2> QED BY <2>1, <2>2, <2>3, <2>4, OneDiffers
<1>3. /\ Cardinality(P(ip)) \in Nat /\ Cardinality(P(ip')) \in Nat
      /\ Cardinality(P(ip')) = Cardinality(P(ip)) + B(ip'[p] = i) - B(ip[p] = i)
  <2>1. \A q \in Procs \ {p} : q \in P(ip) <=> q \in P(ip')
      BY DEF Others
  <2>2. p \in P(ip) <=> ip[p] = i
      OBVIOUS
  <2>3. p \in P(ip') <=> ip'[p] = i
      OBVIOUS
  <2> HIDE DEF P
  <2>4. P(ip) \in SUBSET Procs /\ P(ip') \in SUBSET Procs
      BY DEF P
  <2> QED BY <2>1, <2>2, <2>3, <2>4, OneDiffers
<1>4. /\ Cardinality(P(drop)) \in Nat /\ Cardinality(P(drop')) \in Nat
      /\ Cardinality(P(drop')) = Cardinality(P(drop)) + B(drop'[p] = i) - B(drop[p] = i)
  <2>1. \A q \in Procs \ {p} : q \in P(drop) <=> q \in P(drop')
      BY DEF Others
  <2>2. p \in P(drop) <=> drop[p] = i
      OBVIOUS
  <2>3. p \in P(drop') <=> drop'[p] = i
      OBVIOUS
  <2> HIDE DEF P
  <2>4. P(drop) \in SUBSET Procs /\ P(drop') \in SUBSET Procs
      BY DEF P
  <2> QED BY <2>1, <2>2, <2>3, <2>4, OneDiffers
<1>5. /\ Cardinality(CwdOf(i)) \in Nat /\ Cardinality(CwdOf(i)') \in Nat
      /\ Cardinality(CwdOf(i)') = Cardinality(CwdOf(i)) + B(cwd'[p] = i /\ pc'[p] # "chdir_end")
                                                        - B(cwd[p] = i /\ pc[p] # "chdir_end")
  <2>1. \A q \in Procs \ {p} : q \in CwdOf(i) <=> q \in CwdOf(i)'
      BY DEF Others, CwdOf
  <2>2. p \in CwdOf(i) <=> (cwd[p] = i /\ pc[p] # "chdir_end")
      BY DEF CwdOf
  <2>3. p \in CwdOf(i)' <=> (cwd'[p] = i /\ pc'[p] # "chdir_end")
      BY DEF CwdOf
  <2>4. CwdOf(i) \in SUBSET Procs /\ CwdOf(i)' \in SUBSET Procs
      BY DEF CwdOf
  <2>5. /\ Cardinality(CwdOf(i)) \in Nat /\ Cardinality(CwdOf(i)') \in Nat
        /\ Cardinality(CwdOf(i)') = Cardinality(CwdOf(i)) + B(p \in CwdOf(i)') - B(p \in CwdOf(i))
      BY <2>1, <2>4, OneDiffers
  <2> QED BY <2>2, <2>3, <2>5 DEF B
<1>6. /\ Cardinality(PutPairs(i)) \in Nat /\ Cardinality(PutPairs(i)') \in Nat
      /\ Cardinality(PutPairs(i)') = Cardinality(PutPairs(i)) + Hold(put'[p], i) - Hold(put[p], i)
  <2>1. \A q \in Procs \ {p}, k \in 1 .. 2 : <<q, k>> \in PutPairs(i) <=> <<q, k>> \in PutPairs(i)'
      BY DEF Others, PutPairs
  <2>2. <<p, 1>> \in PutPairs(i) <=> (1 \in DOMAIN put[p] /\ put[p][1] = i)
      BY DEF PutPairs
  <2>3. <<p, 2>> \in PutPairs(i) <=> (2 \in DOMAIN put[p] /\ put[p][2] = i)
      BY DEF PutPairs
  <2>4. <<p, 1>> \in PutPairs(i)' <=> (1 \in DOMAIN put'[p] /\ put'[p][1] = i)
      BY DEF PutPairs
  <2>5. <<p, 2>> \in PutPairs(i)' <=> (2 \in DOMAIN put'[p] /\ put'[p][2] = i)
      BY DEF PutPairs
  <2>6. PutPairs(i) \in SUBSET (Procs \X (1 .. 2)) /\ PutPairs(i)' \in SUBSET (Procs \X (1 .. 2))
      BY DEF PutPairs
  <2>7. /\ Cardinality(PutPairs(i)) \in Nat /\ Cardinality(PutPairs(i)') \in Nat
        /\ Cardinality(PutPairs(i)') = Cardinality(PutPairs(i)) + B(<<p, 1>> \in PutPairs(i)') + B(<<p, 2>> \in PutPairs(i)')
                                          - B(<<p, 1>> \in PutPairs(i)) - B(<<p, 2>> \in PutPairs(i))
      BY <2>1, <2>6, PairsDiffer
  <2> QED BY <2>2, <2>3, <2>4, <2>5, <2>7 DEF Hold, B
<1>7. Pointers(i) = Cardinality(P(fd)) + Cardinality(P(dp)) + Cardinality(P(ip)) + Cardinality(P(drop))
                    + Cardinality(CwdOf(i)) + Cardinality(PutPairs(i))
    BY DEF Pointers, Pointing, InCwd, InPut, CwdOf, PutPairs
<1>8. Pointers(i)' = Cardinality(P(fd')) + Cardinality(P(dp')) + Cardinality(P(ip')) + Cardinality(P(drop'))
                    + Cardinality(CwdOf(i)') + Cardinality(PutPairs(i)')
    BY DEF Pointers, Pointing, InCwd, InPut, CwdOf, PutPairs
<1>9. Share(p, i) = B(fd[p] = i) + B(dp[p] = i) + B(ip[p] = i) + B(drop[p] = i)
               + B(cwd[p] = i /\ pc[p] # "chdir_end") + Hold(put[p], i)
      /\ Share(p, i)' = B(fd'[p] = i) + B(dp'[p] = i) + B(ip'[p] = i) + B(drop'[p] = i)
               + B(cwd'[p] = i /\ pc'[p] # "chdir_end") + Hold(put'[p], i)
    BY DEF Share
<1>10. /\ B(fd[p] = i) \in Int /\ B(dp[p] = i) \in Int /\ B(ip[p] = i) \in Int /\ B(drop[p] = i) \in Int
       /\ B(fd'[p] = i) \in Int /\ B(dp'[p] = i) \in Int /\ B(ip'[p] = i) \in Int /\ B(drop'[p] = i) \in Int
       /\ B(cwd[p] = i /\ pc[p] # "chdir_end") \in Int /\ B(cwd'[p] = i /\ pc'[p] # "chdir_end") \in Int
    BY DEF B
<1>11. Hold(put[p], i) \in Int /\ Hold(put'[p], i) \in Int
    BY DEF Hold, B
<1> HIDE DEF P
<1>12. Pointers(i) \in Nat /\ Pointers(i)' \in Nat
    BY <1>1, <1>2, <1>3, <1>4, <1>5, <1>6, <1>7, <1>8
<1>13. Pointers(i)' = Pointers(i) + Share(p, i)' - Share(p, i)
    BY ONLY <1>1, <1>2, <1>3, <1>4, <1>5, <1>6, <1>7, <1>8, <1>9, <1>10, <1>11
<1> QED BY <1>12, <1>13

(* So the counts stay exact when they change as p's pointers do.           *)
LEMMA RefKept ==
    ASSUME NEW p \in Procs, Others(p), RefExact,
           \A i \in Inums : ref'[i] = ref[i] + Share(p, i)' - Share(p, i)
    PROVE  RefExact' /\ \A i \in Inums : ref'[i] \in Nat
<1> SUFFICES ASSUME NEW i \in Inums PROVE ref'[i] = Pointers(i)' /\ ref'[i] \in Nat
    BY DEF RefExact, Pointers
<1>1. ref[i] = Pointers(i)
    BY DEF RefExact, Pointers
<1> QED BY <1>1, SharesMoved

LEMMA SomeIn ==
    ASSUME NEW S \in SUBSET Procs
    PROVE  Cardinality(S) \in Nat /\ (Cardinality(S) = 0 => S = {})
<1>1. IsFiniteSet(S)
    BY FS_Subset, FsAssumption
<1> QED BY <1>1, FS_CardinalityType, FS_EmptySet

(* Every pointer to an inode counts.                                       *)
LEMMA EachCounts ==
    ASSUME NEW i \in Inums
    PROVE  /\ Pointing(fd, i) \in Nat /\ \A q \in Procs : fd[q] = i => Pointing(fd, i) > 0
           /\ Pointing(dp, i) \in Nat /\ \A q \in Procs : dp[q] = i => Pointing(dp, i) > 0
           /\ Pointing(ip, i) \in Nat /\ \A q \in Procs : ip[q] = i => Pointing(ip, i) > 0
           /\ Pointing(drop, i) \in Nat /\ \A q \in Procs : drop[q] = i => Pointing(drop, i) > 0
           /\ InCwd(i) \in Nat /\ \A q \in Procs : cwd[q] = i /\ pc[q] # "chdir_end" => InCwd(i) > 0
           /\ InPut(i) \in Nat /\ \A q \in Procs : 1 \in DOMAIN put[q] /\ put[q][1] = i => InPut(i) > 0
<1>1. ASSUME NEW at PROVE Pointing(at, i) \in Nat /\ \A q \in Procs : at[q] = i => Pointing(at, i) > 0
  <2> DEFINE S == {q \in Procs : at[q] = i}
  <2>1. \A q \in Procs : at[q] = i => S # {}
      OBVIOUS
  <2>2. Pointing(at, i) = Cardinality(S) /\ S \in SUBSET Procs
      BY DEF Pointing
  <2> HIDE DEF S
  <2>3. Cardinality(S) \in Nat /\ (Cardinality(S) = 0 => S = {})
      BY <2>2, SomeIn
  <2> QED BY <2>1, <2>2, <2>3
<1>2. InCwd(i) \in Nat /\ \A q \in Procs : cwd[q] = i /\ pc[q] # "chdir_end" => InCwd(i) > 0
  <2>1. \A q \in Procs : cwd[q] = i /\ pc[q] # "chdir_end" => CwdOf(i) # {}
      BY DEF CwdOf
  <2>2. InCwd(i) = Cardinality(CwdOf(i)) /\ CwdOf(i) \in SUBSET Procs
      BY DEF InCwd, CwdOf
  <2>3. Cardinality(CwdOf(i)) \in Nat /\ (Cardinality(CwdOf(i)) = 0 => CwdOf(i) = {})
      BY <2>2, SomeIn
  <2> QED BY <2>1, <2>2, <2>3
<1>3. InPut(i) \in Nat /\ \A q \in Procs : 1 \in DOMAIN put[q] /\ put[q][1] = i => InPut(i) > 0
  <2>1. ASSUME NEW q \in Procs, 1 \in DOMAIN put[q], put[q][1] = i PROVE PutPairs(i) # {}
    <3>1. <<q, 1>> \in PutPairs(i)
        BY <2>1 DEF PutPairs
    <3> QED BY <3>1
  <2>2. InPut(i) = Cardinality(PutPairs(i)) /\ PutPairs(i) \in SUBSET (Procs \X (1 .. 2))
      BY DEF InPut, PutPairs
  <2>3. IsFiniteSet(PutPairs(i)) /\ Cardinality(PutPairs(i)) \in Nat
      BY <2>2, PairsFinite
  <2>4. Cardinality(PutPairs(i)) = 0 => PutPairs(i) = {}
      BY <2>3, FS_EmptySet
  <2> QED BY <2>1, <2>2, <2>3, <2>4
<1> QED BY <1>1, <1>2, <1>3

(* What somebody has in hand is counted.                                   *)
LEMMA Referred ==
    ASSUME RefExact, NEW q \in Procs, NEW i \in Inums,
           fd[q] = i \/ dp[q] = i \/ ip[q] = i \/ drop[q] = i \/ (cwd[q] = i /\ pc[q] # "chdir_end")
    PROVE  ref[i] > 0
<1>1. ref[i] = Pointing(fd, i) + Pointing(dp, i) + Pointing(ip, i) + Pointing(drop, i) + InCwd(i) + InPut(i)
    BY DEF RefExact
<1> QED BY <1>1, EachCounts

(* When the one reference is that of the process that puts the inode,      *)
(* nobody has it in hand.                                                  *)
LEMMA OnlyPut ==
    ASSUME RefExact, NEW p \in Procs, NEW i \in Inums,
           1 \in DOMAIN put[p], put[p][1] = i, ref[i] = 1
    PROVE  \A q \in Procs : fd[q] # i /\ dp[q] # i /\ ip[q] # i /\ drop[q] # i /\ (pc[q] # "chdir_end" => cwd[q] # i)
<1>1. 1 = Pointing(fd, i) + Pointing(dp, i) + Pointing(ip, i) + Pointing(drop, i) + InCwd(i) + InPut(i)
    BY DEF RefExact
<1>2. Pointing(fd, i) = 0 /\ Pointing(dp, i) = 0 /\ Pointing(ip, i) = 0 /\ Pointing(drop, i) = 0 /\ InCwd(i) = 0
  <2>1. /\ Pointing(fd, i) \in Nat /\ Pointing(dp, i) \in Nat /\ Pointing(ip, i) \in Nat /\ Pointing(drop, i) \in Nat
        /\ InCwd(i) \in Nat /\ InPut(i) \in Nat
      BY EachCounts
  <2>2. InPut(i) > 0
      BY EachCounts
  <2> QED BY ONLY <1>1, <2>1, <2>2
<1> QED BY <1>2, EachCounts

(* The lists of inodes to put.                                             *)
LEMMA Holds ==
    ASSUME NEW i \in Inums
    PROVE  /\ Hold(<<>>, i) = 0
           /\ \A a \in Inums : Hold(<<a>>, i) = B(a = i)
           /\ \A a, b \in Inums : Hold(<<a, b>>, i) = B(a = i) + B(b = i)
           /\ \A s \in Seq(Inums) : s # <<>> /\ Len(s) <= 2 => Hold(s, i) = B(Head(s) = i) + Hold(Tail(s), i)
<1>1. ASSUME NEW s \in Seq(Inums), s # <<>>, Len(s) <= 2 PROVE Hold(s, i) = B(Head(s) = i) + Hold(Tail(s), i)
  <2>1. Len(s) \in {1, 2} /\ DOMAIN s = 1 .. Len(s) /\ Head(s) = s[1]
    <3>1. Len(s) \in Nat /\ Len(s) # 0
        BY <1>1
    <3>2. DOMAIN s = 1 .. Len(s)
        BY <1>1
    <3>3. Head(s) = s[1]
        BY <1>1
    <3> QED BY <3>1, <3>2, <3>3, <1>1
  <2>2. Tail(s) \in Seq(Inums) /\ Len(Tail(s)) = Len(s) - 1
      BY <1>1
  <2>3. DOMAIN Tail(s) = 1 .. Len(s) - 1
      BY <2>2
  <2>4. 2 \notin DOMAIN Tail(s) /\ 1 \in DOMAIN s /\ (1 \in DOMAIN Tail(s) <=> 2 \in DOMAIN s)
      BY <2>1, <2>3
  <2>5. 1 \in DOMAIN Tail(s) => Tail(s)[1] = s[2]
      BY <1>1, <2>2, <2>3
  <2> HIDE <1>1
  <2> QED BY <2>1, <2>4, <2>5 DEF Hold, B
<1>2. Hold(<<>>, i) = 0
    BY DEF Hold, B
<1>3. \A a \in Inums : Hold(<<a>>, i) = B(a = i)
    BY DEF Hold, B
<1>4. \A a, b \in Inums : Hold(<<a, b>>, i) = B(a = i) + B(b = i)
    BY DEF Hold, B
<1> QED BY <1>1, <1>2, <1>3, <1>4

----------------------------------------------------------------------------
(* What a step of one process leaves to the others.                        *)
Uses(q, i) == fd[q] = i \/ dp[q] = i \/ ip[q] = i \/ (cwd[q] = i /\ pc[q] # "chdir_end")
Near(q, i) == dp[q] = i \/ ip[q] = i \/ (cwd[q] = i /\ pc[q] # "chdir_end")

(* It leaves the kind of what they use, what they have locked, the inodes  *)
(* they have in hand and the step's own process has not; and it gets to    *)
(* inodes through what it has, through names or from ialloc.               *)
Kept(p) ==
    /\ Others(p)
    /\ \A q \in Procs \ {p}, i \in Inums : Uses(q, i) => disk'[i].type = disk[i].type
    /\ \A i \in Inums, q \in Procs \ {p} : lock[i] = q => lock'[i] = q /\ ents'[i] = ents[i]
    /\ \A i \in Inums, q \in Procs \ {p} :
          Allocated(i) /\ i # dp[p] /\ i # ip[p] /\ ip[q] = i => disk'[i] = disk[i] /\ ents'[i] = ents[i]
    /\ \A d \in Inums, n \in Names : ents'[d][n] \in {ents[d][n], NoInode, ip[p]}
    /\ \A i \in Inums : Near(p, i)' => Near(p, i) \/ ~Allocated(i) \/ \E d \in Inums, n \in Names : ents[d][n] = i

Own(q) == Local(q) /\ Held(q) /\ Kinds(q) /\ Locked(q) /\ Fresh(q)

LEMMA OthersKept ==
    ASSUME FsIInv, NEW p \in Procs, Kept(p)
    PROVE  \A q \in Procs \ {p} : Own(q)'
<1> SUFFICES ASSUME NEW q \in Procs \ {p} PROVE Own(q)'
    OBVIOUS
<1>1. /\ fd'[q] = fd[q] /\ cwd'[q] = cwd[q] /\ pc'[q] = pc[q] /\ call'[q] = call[q]
      /\ path'[q] = path[q] /\ new'[q] = new[q] /\ dp'[q] = dp[q] /\ ip'[q] = ip[q]
      /\ put'[q] = put[q] /\ drop'[q] = drop[q]
    BY DEF Kept, Others
<1>2. Local(q) /\ Held(q) /\ Kinds(q) /\ Locked(q) /\ Fresh(q)
    BY DEF FsIInv
<1>3. /\ fd[q] \in Maybe /\ dp[q] \in Maybe /\ ip[q] \in Maybe /\ cwd[q] \in Inums
      /\ pc[q] \in Labels
    BY DEF FsIInv, Types, TypeOK, Maybe
<1>4. \A i \in Inums : Uses(q, i) => disk'[i].type = disk[i].type
    BY DEF Kept
<1>5. \A i \in Inums : lock[i] = q => lock'[i] = q /\ ents'[i] = ents[i]
    BY DEF Kept
<1>6. Local(q)'
    BY <1>1, <1>2 DEF Local
<1>7. Held(q)'
    BY <1>1, <1>2, <1>3, <1>4 DEF Held, Uses, Allocated, Maybe
<1>8. Kinds(q)'
    BY <1>1, <1>2, <1>3, <1>4 DEF Kinds, Uses, Maybe, Local, InParent, HasDir, HasIno, NoInode
<1>9. Locked(q)'
    BY <1>1, <1>2, <1>3, <1>5 DEF Locked, Maybe, Local, HasDir, HasIno, NoInode
<1>10. Fresh(q)'
  <2> SUFFICES ASSUME pc[q] = "create_ip" PROVE Fresh(q)'
      BY <1>1 DEF Fresh
  <2>0. PICK x \in Inums : x = ip[q]
    <3>1. pc[q] \in HasIno
        BY DEF HasIno
    <3> QED BY <3>1, <1>2, <1>3 DEF Local, Maybe
  <2>1. /\ disk[x].type = (IF call[q] = "mkdir" THEN "dir" ELSE "file") /\ disk[x].nlink = 0
        /\ ents[x] = Empty /\ dp[q] # x
        /\ \A d \in Inums, n \in Names : ents[d][n] # x
        /\ \A r \in Procs \ {q} : dp[r] # x /\ ip[r] # x /\ (pc[r] # "chdir_end" => cwd[r] # x)
      BY <1>2, <2>0 DEF Fresh
  <2>2. Allocated(x)
      BY <2>1 DEF Allocated
  <2>3. x # dp[p] /\ x # ip[p] /\ ~Near(p, x)
      BY <2>1 DEF Near
  <2>5. disk'[x] = disk[x] /\ ents'[x] = ents[x]
      BY <2>2, <2>3, <2>0 DEF Kept
  <2>6. ~Near(p, x)'
      BY <2>1, <2>2, <2>3 DEF Kept
  <2>7. \A d \in Inums, n \in Names : ents'[d][n] # x
    <3>1. x # NoInode
        BY DEF Inums, NoInode
    <3> QED BY <3>1, <2>1, <2>3 DEF Kept
  <2>8. \A r \in Procs \ {q} : dp'[r] # x /\ ip'[r] # x /\ (pc'[r] # "chdir_end" => cwd'[r] # x)
    <3> SUFFICES ASSUME NEW r \in Procs \ {q} PROVE dp'[r] # x /\ ip'[r] # x /\ (pc'[r] # "chdir_end" => cwd'[r] # x)
        OBVIOUS
    <3>1. CASE r = p
        BY <3>1, <2>6 DEF Near
    <3>2. CASE r # p
        BY <3>2, <2>1 DEF Kept, Others
    <3> QED BY <3>1, <3>2
  <2>9. Empty' = Empty
      BY DEF Empty
  <2> QED BY <1>1, <2>1, <2>0, <2>5, <2>7, <2>8, <2>9 DEF Fresh
<1> QED BY <1>6, <1>7, <1>8, <1>9, <1>10 DEF Own

(* An invariant of a step of p, put together from its parts.               *)
LEMMA Assemble ==
    ASSUME FsIInv, NEW p \in Procs, Kept(p), Types', Own(p)', RefExact', Coherent', Tree', Links', Rooted'
    PROVE  FsIInv'
<1>1. \A q \in Procs : Own(q)'
    BY OthersKept
<1> QED BY <1>1 DEF FsIInv, Own

(* ilock finds what the disk holds.                                        *)
LEMMA InIsDisk == Coherent => \A i \in Inums : In(i) = disk[i]
BY DEF Coherent, In

----------------------------------------------------------------------------
(* Steps that leave the disk alone.                                        *)
LEMMA NamesSame ==
    ASSUME Tree, Links, Rooted, disk' = disk, ents' = ents, stray' = stray,
           \A i \in Inums : Owing(i)' = Owing(i)
    PROVE  Tree' /\ Links' /\ Rooted'
<1>1. Empty' = Empty
    BY DEF Empty
<1>2. Tree'
    BY <1>1 DEF Tree, Allocated
<1>3. \A i \in Inums : Entries(i)' = Entries(i) /\ Subdirs(i)' = Subdirs(i)
    BY DEF Entries, Subdirs
<1>4. \A i \in Inums : Counted(i)' = Counted(i)
    BY <1>3 DEF Counted
<1>5. Links'
    BY <1>4 DEF Links
<1>6. Rooted'
    BY <1>1, <1>3 DEF Rooted
<1> QED BY <1>2, <1>5, <1>6

LEMMA LookCoherent ==
    ASSUME FsIInv, NEW x \in Inums, Load({x}, Inodes), disk' = disk, Allocated(x), ref'[x] > 0,
           \A i \in Inums : ref[i] > 0 => ref'[i] > 0
    PROVE  /\ Coherent'
           /\ mem' \in [Inums -> [type : {"free", "dir", "file"}, nlink : Nat]] /\ valid' \in [Inums -> BOOLEAN]
<1>1. Coherent
    BY DEF FsIInv
<1>2. \A i \in Inums : In(i) = disk[i]
    BY <1>1, InIsDisk
<1>3. mem' = [i \in Inums |-> IF i \in {x} THEN disk[i] ELSE mem[i]]
    BY <1>2 DEF Load, Inodes
<1>4. valid' = [i \in Inums |-> valid[i] \/ i \in {x}]
    BY DEF Load
<1>5. \A i \in Inums : valid'[i] => i = x \/ valid[i]
    BY <1>4
<1>6. Coherent'
  <2> SUFFICES ASSUME NEW i \in Inums, valid'[i] PROVE mem'[i] = disk'[i] /\ ref'[i] > 0 /\ disk'[i].type # "free"
      BY DEF Coherent, Allocated
  <2>1. CASE i = x
      BY <2>1, <1>3 DEF Allocated
  <2>2. CASE i # x
    <3>1. mem[i] = disk[i] /\ ref[i] > 0 /\ disk[i].type # "free"
        BY <2>2, <1>1, <1>5 DEF Coherent, Allocated
    <3> QED BY <2>2, <3>1, <1>3
  <2> QED BY <2>1, <2>2
<1>7. mem' \in [Inums -> [type : {"free", "dir", "file"}, nlink : Nat]]
    BY <1>3 DEF FsIInv, Types, TypeOK
<1>8. valid' \in [Inums -> BOOLEAN]
    BY <1>4
<1> QED BY <1>6, <1>7, <1>8

(* The variables of p that Goto does not set.                              *)
Rest(p) ==
    /\ call' \in [Procs -> InCalls \cup {NONE}] /\ path' \in [Procs -> Seq(Names)] /\ new' \in [Procs -> Seq(Names)]
    /\ fd' \in [Procs -> Maybe] /\ cwd' \in [Procs -> Inums]
    /\ \A q \in Procs \ {p} : call'[q] = call[q] /\ path'[q] = path[q] /\ new'[q] = new[q] /\ fd'[q] = fd[q] /\ cwd'[q] = cwd[q]

LEMMA Went ==
    ASSUME FsIInv, NEW p \in Procs, NEW l \in Labels, NEW d \in Maybe, NEW i \in Maybe, NEW s \in Seq(Inums),
           Goto(p, l, d, i, s), Rest(p)
    PROVE  /\ pc' \in [Procs -> Labels] /\ dp' \in [Procs -> Maybe] /\ ip' \in [Procs -> Maybe]
           /\ put' \in [Procs -> Seq(Inums)] /\ drop' \in [Procs -> Maybe]
           /\ pc'[p] = l /\ dp'[p] = d /\ ip'[p] = i /\ put'[p] = s /\ drop'[p] = drop[p]
           /\ Others(p)
<1>1. /\ pc \in [Procs -> Labels] /\ dp \in [Procs -> Maybe] /\ ip \in [Procs -> Maybe]
      /\ put \in [Procs -> Seq(Inums)] /\ drop \in [Procs -> Maybe]
    BY DEF FsIInv, Types
<1>2. pc' = [pc EXCEPT ![p] = l] /\ dp' = [dp EXCEPT ![p] = d] /\ ip' = [ip EXCEPT ![p] = i]
      /\ put' = [put EXCEPT ![p] = s] /\ drop' = drop
    BY DEF Goto
<1>3. /\ pc' \in [Procs -> Labels] /\ dp' \in [Procs -> Maybe] /\ ip' \in [Procs -> Maybe] /\ drop' \in [Procs -> Maybe]
    BY <1>1, <1>2
<1>4. put' \in [Procs -> Seq(Inums)]
    BY <1>1, <1>2
<1>5. pc'[p] = l /\ dp'[p] = d /\ ip'[p] = i /\ put'[p] = s /\ drop'[p] = drop[p]
    BY <1>1, <1>2
<1>6. \A q \in Procs \ {p} : pc'[q] = pc[q] /\ dp'[q] = dp[q] /\ ip'[q] = ip[q] /\ put'[q] = put[q] /\ drop'[q] = drop[q]
    BY <1>1, <1>2
<1>7. Others(p)
    BY <1>6 DEF Others, Rest
<1> QED BY <1>3, <1>4, <1>5, <1>7

(* How the step changes p's pointers to j.                                 *)
Change(p, l, d, i, s, j) ==
    B(fd'[p] = j) - B(fd[p] = j) + B(d = j) - B(dp[p] = j) + B(i = j) - B(ip[p] = j)
    + B(cwd'[p] = j /\ l # "chdir_end") - B(cwd[p] = j /\ pc[p] # "chdir_end") + Hold(s, j)

LEMMA WentRefs ==
    ASSUME FsIInv, NEW p \in Procs, NEW l \in Labels, NEW d \in Maybe, NEW i \in Maybe, NEW s \in Seq(Inums),
           Goto(p, l, d, i, s), Rest(p), put[p] = <<>>,
           ref' \in [Inums -> Int], \A j \in Inums : ref'[j] = ref[j] + Change(p, l, d, i, s, j)
    PROVE  RefExact' /\ ref' \in [Inums -> Nat]
<1>1. pc'[p] = l /\ dp'[p] = d /\ ip'[p] = i /\ put'[p] = s /\ drop'[p] = drop[p] /\ Others(p)
    BY Went
<1>2. ASSUME NEW j \in Inums PROVE ref'[j] = ref[j] + Share(p, j)' - Share(p, j)
  <2>1. Share(p, j) = B(fd[p] = j) + B(dp[p] = j) + B(ip[p] = j) + B(drop[p] = j)
               + B(cwd[p] = j /\ pc[p] # "chdir_end") + Hold(<<>>, j)
      BY DEF Share
  <2>2. Share(p, j)' = B(fd'[p] = j) + B(d = j) + B(i = j) + B(drop[p] = j)
               + B(cwd'[p] = j /\ l # "chdir_end") + Hold(s, j)
      BY <1>1 DEF Share
  <2>3. Hold(<<>>, j) = 0
      BY Holds
  <2>4. Hold(s, j) \in Int
      BY DEF Hold, B
  <2>5. ref'[j] = ref[j] + Change(p, l, d, i, s, j) /\ ref[j] \in Int
      BY DEF FsIInv, Types, TypeOK
  <2> QED BY ONLY <2>1, <2>2, <2>3, <2>4, <2>5 DEF Change, B
<1>3. RefExact
    BY DEF FsIInv
<1>4. RefExact' /\ \A j \in Inums : ref'[j] \in Nat
    BY <1>1, <1>2, <1>3, RefKept
<1> QED BY <1>4

Owe(l, c) == l \in {"unlink_dec", "bad"} \/ c = "link2"

(* The owing calls, when p's part in them does not change.                 *)
LEMMA OwingSame ==
    ASSUME NEW p \in Procs, Others(p),
           Owe(pc'[p], call'[p]) <=> Owe(pc[p], call[p]), Owe(pc[p], call[p]) => ip'[p] = ip[p]
    PROVE  \A j \in Inums : Owing(j)' = Owing(j)
<1> SUFFICES ASSUME NEW j \in Inums, NEW q \in Procs
             PROVE  (ip'[q] = j /\ Owe(pc'[q], call'[q])) <=> (ip[q] = j /\ Owe(pc[q], call[q]))
    BY DEF Owing, Owe
<1>1. CASE q = p
    BY <1>1
<1>2. CASE q # p
    BY <1>2 DEF Others
<1> QED BY <1>1, <1>2

(* A step of p from l with everything that was to be put put, to where it  *)
(* has d and i in hand and s to put, by which no link count is affected.   *)
QuietStep(p, l, d, i, s) ==
    /\ Goto(p, l, d, i, s) /\ Rest(p) /\ put[p] = <<>>
    /\ disk' = disk /\ ents' = ents /\ stray' = stray /\ panic' = FALSE
    /\ lock' \in [Inums -> Procs \cup {NONE}]
    /\ \A j \in Inums : lock'[j] = lock[j] \/ lock[j] \in {NONE, p}
    /\ (mem' = mem /\ valid' = valid) \/ \E x \in Inums : (x = dp[p] \/ x = ip[p]) /\ Load({x}, Inodes)
    /\ ref' \in [Inums -> Int]
    /\ \A j \in Inums : ref'[j] = ref[j] + Change(p, l, d, i, s, j) /\ ref'[j] >= ref[j]
    /\ \A j \in Inums : d = j \/ i = j \/ (cwd'[p] = j /\ l # "chdir_end") =>
           Near(p, j) \/ \E e \in Inums, n \in Names : ents[e][n] = j
    /\ Owe(l, call'[p]) <=> Owe(pc[p], call[p])
    /\ Owe(pc[p], call[p]) => i = ip[p]
    /\ l # "create_ip"
    /\ Local(p)' /\ Held(p)' /\ Kinds(p)' /\ Locked(p)'

LEMMA Quiet ==
    ASSUME FsIInv, NEW p \in Procs, NEW l \in Labels, NEW d \in Maybe, NEW i \in Maybe, NEW s \in Seq(Inums),
           QuietStep(p, l, d, i, s)
    PROVE  FsIInv'
<1> USE DEF QuietStep
<1>1. /\ pc' \in [Procs -> Labels] /\ dp' \in [Procs -> Maybe] /\ ip' \in [Procs -> Maybe]
      /\ put' \in [Procs -> Seq(Inums)] /\ drop' \in [Procs -> Maybe]
      /\ pc'[p] = l /\ dp'[p] = d /\ ip'[p] = i /\ put'[p] = s /\ drop'[p] = drop[p]
      /\ Others(p)
    BY Went
<1>2. RefExact' /\ ref' \in [Inums -> Nat]
    BY WentRefs
<1>3. Types /\ TypeOK /\ RefExact /\ Coherent /\ Tree /\ Links /\ Rooted /\ Held(p)
    BY DEF FsIInv, Types
<1>4. /\ Coherent'
      /\ mem' \in [Inums -> [type : {"free", "dir", "file"}, nlink : Nat]] /\ valid' \in [Inums -> BOOLEAN]
  <2>1. \A j \in Inums : ref[j] \in Nat /\ ref'[j] \in Nat /\ ref'[j] >= ref[j]
      BY <1>2, <1>3 DEF TypeOK
  <2>2. \A j \in Inums : ref[j] > 0 => ref'[j] > 0
      BY <2>1
  <2>3. CASE mem' = mem /\ valid' = valid
      BY <2>2, <2>3, <1>3 DEF Coherent, TypeOK, Allocated
  <2>4. ASSUME NEW x \in Inums, x = dp[p] \/ x = ip[p], Load({x}, Inodes)
        PROVE  /\ Coherent'
               /\ mem' \in [Inums -> [type : {"free", "dir", "file"}, nlink : Nat]] /\ valid' \in [Inums -> BOOLEAN]
    <3>1. Allocated(x)
      <4>1. x # NoInode
          BY DEF Inums, NoInode
      <4> QED BY <4>1, <2>4, <1>3 DEF Held
    <3>2. ref[x] > 0
        BY <2>4, <1>3, Referred
    <3> QED BY <2>2, <2>4, <3>1, <3>2, LookCoherent
  <2> QED BY <2>3, <2>4
<1>5. Types'
    BY <1>1, <1>2, <1>3, <1>4 DEF Types, TypeOK, Rest, Maybe
<1>6. Fresh(p)'
    BY <1>1 DEF Fresh
<1>7. Kept(p)
  <2>1. \A j \in Inums, q \in Procs \ {p} : lock[j] = q => lock'[j] = q
      BY FsAssumption
  <2>2. \A j \in Inums : Near(p, j)' => Near(p, j) \/ \E e \in Inums, n \in Names : ents[e][n] = j
      BY <1>1 DEF Near
  <2> QED BY <1>1, <2>1, <2>2 DEF Kept
<1>8. Tree' /\ Links' /\ Rooted'
  <2>1. \A j \in Inums : Owing(j)' = Owing(j)
      BY <1>1, OwingSame
  <2> QED BY <1>3, <2>1, NamesSame
<1> QED BY <1>2, <1>4, <1>5, <1>6, <1>7, <1>8, Assemble DEF Own

----------------------------------------------------------------------------
(* The calls that leave the disk alone, one lemma for each step.           *)
LEMMA Here ==
    ASSUME FsIInv, NEW p \in Procs
    PROVE  /\ pc[p] \in Labels /\ call[p] \in InCalls \cup {NONE} /\ path[p] \in Seq(Names) /\ new[p] \in Seq(Names)
           /\ fd[p] \in Maybe /\ dp[p] \in Maybe /\ ip[p] \in Maybe /\ cwd[p] \in Inums
           /\ Local(p) /\ Held(p) /\ Kinds(p) /\ Locked(p) /\ Fresh(p)
           /\ \A i \in Inums : In(i) = disk[i]
           /\ \A i \in Inums : i # NoInode
           /\ ref \in [Inums -> Nat] /\ lock \in [Inums -> Procs \cup {NONE}]
           /\ fd \in [Procs -> Maybe] /\ cwd \in [Procs -> Inums]
           /\ call \in [Procs -> InCalls \cup {NONE}] /\ path \in [Procs -> Seq(Names)] /\ new \in [Procs -> Seq(Names)]
<1>1. Coherent
    BY DEF FsIInv
<1>2. \A i \in Inums : In(i) = disk[i]
    BY <1>1, InIsDisk
<1>3. \A i \in Inums : i # NoInode
    BY DEF Inums, NoInode
<1>4. /\ ref \in [Inums -> Nat] /\ lock \in [Inums -> Procs \cup {NONE}]
      /\ fd \in [Procs -> Maybe] /\ cwd \in [Procs -> Inums]
      /\ call \in [Procs -> InCalls \cup {NONE}] /\ path \in [Procs -> Seq(Names)] /\ new \in [Procs -> Seq(Names)]
      /\ pc \in [Procs -> Labels] /\ dp \in [Procs -> Maybe] /\ ip \in [Procs -> Maybe]
    BY DEF FsIInv, Types, TypeOK, Maybe
<1> QED BY <1>2, <1>3, <1>4 DEF FsIInv

LEMMA NoPanic ==
    ASSUME FsIInv, NEW x \in Inums, NEW b, Panics(x, b), Allocated(x), ~b
    PROVE  panic' = FALSE
<1>1. \A i \in Inums : In(i) = disk[i]
    BY InIsDisk DEF FsIInv
<1> QED BY <1>1 DEF Panics, Allocated

(* The counts, when nothing is counted, or x once.                         *)
LEMMA RefsSame ==
    ASSUME FsIInv, ref' = ref
    PROVE  ref' \in [Inums -> Int] /\ \A j \in Inums : ref'[j] = ref[j] + 0 /\ ref'[j] >= ref[j]
BY DEF FsIInv, Types, TypeOK

LEMMA RefsGot ==
    ASSUME FsIInv, NEW x \in Inums, idup(x)
    PROVE  ref' \in [Inums -> Int] /\ \A j \in Inums : ref'[j] = ref[j] + B(x = j) /\ ref'[j] >= ref[j]
<1>1. ref \in [Inums -> Nat] /\ ref' = [ref EXCEPT ![x] = @ + 1]
    BY DEF FsIInv, Types, TypeOK, idup
<1>2. ref' \in [Inums -> Int]
    BY <1>1
<1>3. ASSUME NEW j \in Inums PROVE ref'[j] = ref[j] + B(x = j) /\ ref'[j] >= ref[j]
    BY <1>1 DEF B
<1> QED BY <1>2, <1>3

LEMMA Forgotten ==
    ASSUME FsIInv, NEW p \in Procs, Forget(p), fd' \in [Procs -> Maybe], cwd' \in [Procs -> Inums],
           \A q \in Procs \ {p} : fd'[q] = fd[q] /\ cwd'[q] = cwd[q]
    PROVE  Rest(p) /\ call'[p] = NONE /\ path'[p] = <<>> /\ new'[p] = <<>>
<1>1. call \in [Procs -> InCalls \cup {NONE}] /\ path \in [Procs -> Seq(Names)] /\ new \in [Procs -> Seq(Names)]
    BY DEF FsIInv, Types
<1>2. call' = [call EXCEPT ![p] = NONE] /\ path' = [path EXCEPT ![p] = <<>>] /\ new' = [new EXCEPT ![p] = <<>>]
    BY DEF Forget
<1>3. call' \in [Procs -> InCalls \cup {NONE}] /\ call'[p] = NONE /\ \A q \in Procs \ {p} : call'[q] = call[q]
    BY <1>1, <1>2
<1>4. <<>> \in Seq(Names)
    OBVIOUS
<1>5. path' \in [Procs -> Seq(Names)] /\ path'[p] = <<>> /\ \A q \in Procs \ {p} : path'[q] = path[q]
    BY <1>1, <1>2, <1>4
<1>6. new' \in [Procs -> Seq(Names)] /\ new'[p] = <<>> /\ \A q \in Procs \ {p} : new'[q] = new[q]
    BY <1>1, <1>2, <1>4
<1> QED BY <1>3, <1>5, <1>6 DEF Rest

(* The inode that has the name a call looks for.                           *)
LEMMA FoundInode ==
    ASSUME FsIInv, NEW p \in Procs, dp[p] \in Inums, path[p] # <<>>
    PROVE  /\ name(p) \in Names /\ found(p) \in Maybe
           /\ found(p) # NoInode => /\ found(p) \in Inums /\ Allocated(found(p)) /\ found(p) # dp[p]
                                    /\ \E e \in Inums, n \in Names : ents[e][n] = found(p)
<1>1. path[p] \in Seq(Names) /\ ents \in [Inums -> [Names -> Maybe]] /\ Tree
    BY DEF FsIInv, Types, TypeOK, Maybe
<1>2. name(p) \in Names
    BY <1>1 DEF name
<1>3. found(p) \in Maybe
    BY <1>1, <1>2 DEF found
<1> QED BY <1>1, <1>2, <1>3 DEF found, Tree, Maybe

LEMMA EntriesFinite == \A R \in SUBSET (Inums \X Names) : IsFiniteSet(R) /\ Cardinality(R) \in Nat
<1>1. IsFiniteSet(Inums)
  <2>1. 1 \in Int /\ Ninodes \in Int
      BY FsAssumption
  <2> QED BY <2>1, FS_Interval DEF Inums
<1>2. IsFiniteSet(Inums \X Names)
    BY <1>1, FS_Product, FsAssumption
<1> QED BY <1>2, FS_Subset, FS_CardinalityType

(* The parts of a link count.                                              *)
LEMMA CountParts ==
    ASSUME FsIInv, NEW i \in Inums
    PROVE  /\ IsFiniteSet(Entries(i)) /\ Cardinality(Entries(i)) \in Nat
           /\ IsFiniteSet(Subdirs(i)) /\ Cardinality(Subdirs(i)) \in Nat
           /\ IsFiniteSet(Owing(i)) /\ Cardinality(Owing(i)) \in Nat
           /\ disk[i].nlink \in Nat /\ disk[i].nlink >= Counted(i) /\ (~stray => disk[i].nlink = Counted(i))
<1>1. Entries(i) \in SUBSET (Inums \X Names) /\ Subdirs(i) \in SUBSET Names /\ Owing(i) \in SUBSET Procs
    BY DEF Entries, Subdirs, Owing
<1>2. IsFiniteSet(Entries(i)) /\ Cardinality(Entries(i)) \in Nat
    BY <1>1, EntriesFinite
<1>3. IsFiniteSet(Subdirs(i)) /\ Cardinality(Subdirs(i)) \in Nat
    BY <1>1, FS_Subset, FS_CardinalityType, FsAssumption
<1>4. IsFiniteSet(Owing(i)) /\ Cardinality(Owing(i)) \in Nat
    BY <1>1, FS_Subset, FS_CardinalityType, FsAssumption
<1> QED BY <1>2, <1>3, <1>4 DEF FsIInv, Types, TypeOK, Links

(* An inode with a name, or to which a call owes one, has a link.          *)
LEMMA NamedIsLinked ==
    ASSUME FsIInv, NEW i \in Inums,
           (\E d \in Inums, n \in Names : ents[d][n] = i) \/ Subdirs(i) # {} \/ Owing(i) # {} \/ i = ROOTINO
    PROVE  disk[i].nlink >= 1
<1>1. (\E d \in Inums, n \in Names : ents[d][n] = i) => Entries(i) # {}
  <2> SUFFICES ASSUME NEW d \in Inums, NEW n \in Names, ents[d][n] = i PROVE Entries(i) # {}
      OBVIOUS
  <2>1. <<d, n>> \in Entries(i)
      BY DEF Entries
  <2> QED BY <2>1
<1>2. Entries(i) # {} => Cardinality(Entries(i)) # 0
    BY CountParts, FS_EmptySet
<1>3. Subdirs(i) # {} => Cardinality(Subdirs(i)) # 0
    BY CountParts, FS_EmptySet
<1>4. Owing(i) # {} => Cardinality(Owing(i)) # 0
    BY CountParts, FS_EmptySet
<1>5. /\ Cardinality(Entries(i)) \in Nat /\ Cardinality(Subdirs(i)) \in Nat /\ Cardinality(Owing(i)) \in Nat
      /\ disk[i].nlink \in Nat /\ disk[i].nlink >= Counted(i)
    BY CountParts
<1> HIDE DEF Counted
<1>6. Counted(i) = Cardinality(Entries(i)) + Cardinality(Subdirs(i)) + Cardinality(Owing(i)) + (IF i = ROOTINO THEN 1 ELSE 0)
    BY DEF Counted
<1> QED BY <1>1, <1>2, <1>3, <1>4, <1>5, <1>6

(* end_op, with everything put.                                            *)
LEMMA EndOpInductive ==
    ASSUME FsIInv, NEW p \in Procs, end_op(p)
    PROVE  FsIInv'
<1>1. /\ pc[p] = "end" /\ put[p] = <<>> /\ Goto(p, "user", NoInode, NoInode, <<>>) /\ disk' = disk
      /\ ents' = ents /\ stray' = stray /\ mem' = mem /\ valid' = valid /\ panic' = FALSE /\ ref' = ref
      /\ lock' = lock /\ fd' = fd /\ cwd' = cwd /\ call' = call /\ path' = path /\ new' = new
    BY DEF end_op, Ready, cache, locals, ghosts, FsIInv, Types
<1>2. /\ dp[p] = NoInode /\ ip[p] = NoInode /\ call[p] # "link2"
    BY <1>1, Here DEF Local, Held, Kinds, Locked, HasDir, HasIno, Maybe, Labels, InCalls, SysCalls, InParent, Searching
<1>3. Rest(p)
    BY <1>1, <1>2, Here  DEF Rest
<1>4. "user" \in Labels /\ NoInode \in Maybe /\ NoInode \in Maybe /\ <<>> \in Seq(Inums)
    BY <1>1, <1>2, Here DEF Labels, HasDir, HasIno, Maybe
<1>5. pc'[p] = "user" /\ dp'[p] = NoInode /\ ip'[p] = NoInode /\ put'[p] = <<>>
  <2>1. Goto(p, "user", NoInode, NoInode, <<>>) /\ Rest(p)
      BY <1>1, <1>3
  <2> QED BY <2>1, <1>4, Went
<1>6. \A j \in Inums : Change(p, "user", NoInode, NoInode, <<>>, j) = 0
  <2> SUFFICES ASSUME NEW j \in Inums PROVE Change(p, "user", NoInode, NoInode, <<>>, j) = 0
      OBVIOUS
  <2>1. Hold(<<>>, j) = 0
      BY <1>2, Holds
  <2>2. fd'[p] = fd[p] /\ cwd'[p] = cwd[p] /\ j # NoInode
      BY <1>1, Here
  <2> QED BY <1>1, <1>2, <2>1, <2>2 DEF Change, B
<1>7. Local(p)' /\ Held(p)' /\ Kinds(p)' /\ Locked(p)'
  <2>1. Len(<<>>) <= 2
      OBVIOUS
  <2>2. /\ fd'[p] = fd[p] /\ cwd'[p] = cwd[p] /\ call'[p] = call[p] /\ path'[p] = path[p] /\ new'[p] = new[p]
      BY <1>1, <1>2, Here
  <2>3. Local(p)'
      BY <1>1, <1>2, <1>3, <1>5, <2>1, <2>2, Here, FsAssumption DEF Local, HasDir, HasIno, Searching, InParent, Labels, InCalls, SysCalls
  <2>4. Held(p)'
      BY <1>1, <1>2, <1>5, <2>2, Here DEF Held, Allocated, Maybe
  <2>5. Kinds(p)'
      BY <1>1, <1>2, <1>3, <1>5, <2>2, Here, FsAssumption DEF Kinds, InParent
  <2>6. Locked(p)'
      BY <1>1, <1>2, <1>5, <2>2, Here DEF Locked
  <2> QED BY <2>3, <2>4, <2>5, <2>6
<1>8. lock' \in [Inums -> Procs \cup {NONE}] /\ \A j \in Inums : lock'[j] = lock[j] \/ lock[j] \in {NONE, p}
    BY <1>1, <1>2, Here
<1>9. ref' \in [Inums -> Int] /\ \A j \in Inums : ref'[j] = ref[j] + Change(p, "user", NoInode, NoInode, <<>>, j) /\ ref'[j] >= ref[j]
    BY <1>1, <1>6, RefsSame
<1>10. \A j \in Inums : NoInode = j \/ NoInode = j \/ (cwd'[p] = j /\ "user" # "chdir_end") => Near(p, j) \/ \E e \in Inums, n \in Names : ents[e][n] = j
    BY <1>1, <1>2, Here DEF Near
<1>11. ~Owe("user", call'[p]) /\ ~Owe(pc[p], call[p])
    BY <1>1, <1>2, <1>3, Here, FsAssumption DEF Owe
<1>14. QuietStep(p, "user", NoInode, NoInode, <<>>)
    BY <1>1, <1>2, <1>3, <1>7, <1>8, <1>9, <1>10, <1>11 DEF QuietStep
<1> QED BY <1>4, <1>14, Quiet

(* close puts the file.                                                    *)
LEMMA CloseInductive ==
    ASSUME FsIInv, NEW p \in Procs, close(p)
    PROVE  FsIInv'
<1>1. /\ pc[p] = "user" /\ put[p] = <<>> /\ Goto(p, "end", NoInode, NoInode, <<fd[p]>>) /\ disk' = disk
      /\ ents' = ents /\ stray' = stray /\ mem' = mem /\ valid' = valid /\ panic' = FALSE /\ ref' = ref
      /\ lock' = lock /\ Forget(p) /\ fd' = [fd EXCEPT ![p] = NoInode] /\ cwd' = cwd
    BY DEF close, Ready, cache, locals, ghosts, FsIInv, Types
<1>2. /\ dp[p] = NoInode /\ ip[p] = NoInode /\ call[p] # "link2" /\ fd[p] \in Inums /\ NoInode \in Maybe
    BY <1>1, Here DEF Local, Held, Kinds, Locked, HasDir, HasIno, Maybe, Labels, InCalls, SysCalls, InParent, Searching, close
<1>3. Rest(p) /\ call'[p] = NONE /\ path'[p] = <<>> /\ new'[p] = <<>>
  <2>1. fd' \in [Procs -> Maybe] /\ cwd' \in [Procs -> Inums] /\ \A q \in Procs \ {p} : fd'[q] = fd[q] /\ cwd'[q] = cwd[q]
      BY <1>1, <1>2, Here
  <2> QED BY <1>1, <2>1, Forgotten
<1>4. "end" \in Labels /\ NoInode \in Maybe /\ NoInode \in Maybe /\ <<fd[p]>> \in Seq(Inums)
    BY <1>1, <1>2, Here DEF Labels, HasDir, HasIno, Maybe
<1>5. pc'[p] = "end" /\ dp'[p] = NoInode /\ ip'[p] = NoInode /\ put'[p] = <<fd[p]>>
  <2>1. Goto(p, "end", NoInode, NoInode, <<fd[p]>>) /\ Rest(p)
      BY <1>1, <1>3
  <2> QED BY <2>1, <1>4, Went
<1>6. \A j \in Inums : Change(p, "end", NoInode, NoInode, <<fd[p]>>, j) = 0
  <2> SUFFICES ASSUME NEW j \in Inums PROVE Change(p, "end", NoInode, NoInode, <<fd[p]>>, j) = 0
      OBVIOUS
  <2>1. Hold(<<fd[p]>>, j) = B(fd[p] = j)
      BY <1>2, Holds
  <2>2. fd'[p] = NoInode /\ cwd'[p] = cwd[p] /\ j # NoInode
      BY <1>1, Here
  <2> QED BY <1>1, <1>2, <2>1, <2>2 DEF Change, B
<1>7. Local(p)' /\ Held(p)' /\ Kinds(p)' /\ Locked(p)'
  <2>1. Len(<<fd[p]>>) <= 2
      OBVIOUS
  <2>2. /\ fd'[p] = NoInode /\ cwd'[p] = cwd[p]
      BY <1>1, <1>2, Here
  <2>3. Local(p)'
      BY <1>1, <1>2, <1>3, <1>5, <2>1, <2>2, Here, FsAssumption DEF Local, HasDir, HasIno, Searching, InParent, Labels, InCalls, SysCalls
  <2>4. Held(p)'
      BY <1>1, <1>2, <1>5, <2>2, Here DEF Held, Allocated, Maybe
  <2>5. Kinds(p)'
      BY <1>1, <1>2, <1>3, <1>5, <2>2, Here, FsAssumption DEF Kinds, InParent
  <2>6. Locked(p)'
      BY <1>1, <1>2, <1>5, <2>2, Here DEF Locked
  <2> QED BY <2>3, <2>4, <2>5, <2>6
<1>8. lock' \in [Inums -> Procs \cup {NONE}] /\ \A j \in Inums : lock'[j] = lock[j] \/ lock[j] \in {NONE, p}
    BY <1>1, <1>2, Here
<1>9. ref' \in [Inums -> Int] /\ \A j \in Inums : ref'[j] = ref[j] + Change(p, "end", NoInode, NoInode, <<fd[p]>>, j) /\ ref'[j] >= ref[j]
    BY <1>1, <1>6, RefsSame
<1>10. \A j \in Inums : NoInode = j \/ NoInode = j \/ (cwd'[p] = j /\ "end" # "chdir_end") => Near(p, j) \/ \E e \in Inums, n \in Names : ents[e][n] = j
    BY <1>1, <1>2, Here DEF Near
<1>11. ~Owe("end", call'[p]) /\ ~Owe(pc[p], call[p])
    BY <1>1, <1>2, <1>3, Here, FsAssumption DEF Owe
<1>14. QuietStep(p, "end", NoInode, NoInode, <<fd[p]>>)
    BY <1>1, <1>2, <1>3, <1>7, <1>8, <1>9, <1>10, <1>11 DEF QuietStep
<1> QED BY <1>4, <1>14, Quiet

(* The last step of chdir: the new directory takes the place of the old.   *)
LEMMA ChdirEndInductive ==
    ASSUME FsIInv, NEW p \in Procs, chdir_end(p)
    PROVE  FsIInv'
<1>1. /\ pc[p] = "chdir_end" /\ put[p] = <<>> /\ Goto(p, "user", NoInode, NoInode, <<>>) /\ disk' = disk
      /\ ents' = ents /\ stray' = stray /\ mem' = mem /\ valid' = valid /\ panic' = FALSE /\ ref' = ref
      /\ lock' = lock /\ fd' = fd /\ cwd' = [cwd EXCEPT ![p] = ip[p]] /\ call' = call /\ path' = path
      /\ new' = new
    BY DEF chdir_end, Ready, cache, locals, ghosts, FsIInv, Types
<1>2. /\ dp[p] = NoInode /\ ip[p] \in Inums /\ Allocated(ip[p]) /\ call[p] # "link2"
    BY <1>1, Here DEF Local, Held, Kinds, Locked, HasDir, HasIno, Maybe, Labels, InCalls, SysCalls, InParent, Searching
<1>3. Rest(p)
    BY <1>1, <1>2, Here  DEF Rest
<1>4. "user" \in Labels /\ NoInode \in Maybe /\ NoInode \in Maybe /\ <<>> \in Seq(Inums)
    BY <1>1, <1>2, Here DEF Labels, HasDir, HasIno, Maybe
<1>5. pc'[p] = "user" /\ dp'[p] = NoInode /\ ip'[p] = NoInode /\ put'[p] = <<>>
  <2>1. Goto(p, "user", NoInode, NoInode, <<>>) /\ Rest(p)
      BY <1>1, <1>3
  <2> QED BY <2>1, <1>4, Went
<1>6. \A j \in Inums : Change(p, "user", NoInode, NoInode, <<>>, j) = 0
  <2> SUFFICES ASSUME NEW j \in Inums PROVE Change(p, "user", NoInode, NoInode, <<>>, j) = 0
      OBVIOUS
  <2>1. Hold(<<>>, j) = 0
      BY <1>2, Holds
  <2>2. fd'[p] = fd[p] /\ cwd'[p] = ip[p] /\ j # NoInode
      BY <1>1, Here
  <2> QED BY <1>1, <1>2, <2>1, <2>2 DEF Change, B
<1>7. Local(p)' /\ Held(p)' /\ Kinds(p)' /\ Locked(p)'
  <2>1. Len(<<>>) <= 2
      OBVIOUS
  <2>2. /\ fd'[p] = fd[p] /\ cwd'[p] = ip[p] /\ call'[p] = call[p] /\ path'[p] = path[p] /\ new'[p] = new[p]
      BY <1>1, <1>2, Here
  <2>3. Local(p)'
      BY <1>1, <1>2, <1>3, <1>5, <2>1, <2>2, Here, FsAssumption DEF Local, HasDir, HasIno, Searching, InParent, Labels, InCalls, SysCalls
  <2>4. Held(p)'
      BY <1>1, <1>2, <1>5, <2>2, Here DEF Held, Allocated, Maybe
  <2>5. Kinds(p)'
      BY <1>1, <1>2, <1>3, <1>5, <2>2, Here, FsAssumption DEF Kinds, InParent
  <2>6. Locked(p)'
      BY <1>1, <1>2, <1>5, <2>2, Here DEF Locked
  <2> QED BY <2>3, <2>4, <2>5, <2>6
<1>8. lock' \in [Inums -> Procs \cup {NONE}] /\ \A j \in Inums : lock'[j] = lock[j] \/ lock[j] \in {NONE, p}
    BY <1>1, <1>2, Here
<1>9. ref' \in [Inums -> Int] /\ \A j \in Inums : ref'[j] = ref[j] + Change(p, "user", NoInode, NoInode, <<>>, j) /\ ref'[j] >= ref[j]
    BY <1>1, <1>6, RefsSame
<1>10. \A j \in Inums : NoInode = j \/ NoInode = j \/ (cwd'[p] = j /\ "user" # "chdir_end") => Near(p, j) \/ \E e \in Inums, n \in Names : ents[e][n] = j
    BY <1>1, <1>2, Here DEF Near
<1>11. ~Owe("user", call'[p]) /\ ~Owe(pc[p], call[p])
    BY <1>1, <1>2, <1>3, Here, FsAssumption DEF Owe
<1>14. QuietStep(p, "user", NoInode, NoInode, <<>>)
    BY <1>1, <1>2, <1>3, <1>7, <1>8, <1>9, <1>10, <1>11 DEF QuietStep
<1> QED BY <1>4, <1>14, Quiet

(* open: the inode becomes an open file.                                   *)
LEMMA OpenInductive ==
    ASSUME FsIInv, NEW p \in Procs, open(p)
    PROVE  FsIInv'
<1>1. /\ pc[p] = "open" /\ put[p] = <<>> /\ Goto(p, "user", NoInode, NoInode, <<>>) /\ disk' = disk
      /\ ents' = ents /\ stray' = stray /\ Load({ip[p]}, Inodes) /\ Panics(ip[p], FALSE) /\ ref' = ref
      /\ lock' = [lock EXCEPT ![ip[p]] = NONE] /\ Forget(p) /\ fd' = [fd EXCEPT ![p] = ip[p]] /\ cwd' = cwd
    BY DEF open, At, Ready, cache, locals, ghosts, FsIInv, Types, Look
<1>2. /\ dp[p] = NoInode /\ ip[p] \in Inums /\ Allocated(ip[p]) /\ ip[p] \in Maybe /\ call[p] # "link2"
      /\ fd[p] = NoInode /\ lock[ip[p]] \in {NONE, p}
    BY <1>1, Here DEF Local, Held, Kinds, Locked, HasDir, HasIno, Maybe, Labels, InCalls, SysCalls, InParent, Searching, open, At
<1>3. Rest(p) /\ call'[p] = NONE /\ path'[p] = <<>> /\ new'[p] = <<>>
  <2>1. fd' \in [Procs -> Maybe] /\ cwd' \in [Procs -> Inums] /\ \A q \in Procs \ {p} : fd'[q] = fd[q] /\ cwd'[q] = cwd[q]
      BY <1>1, <1>2, Here
  <2> QED BY <1>1, <2>1, Forgotten
<1>4. "user" \in Labels /\ NoInode \in Maybe /\ NoInode \in Maybe /\ <<>> \in Seq(Inums)
    BY <1>1, <1>2, Here DEF Labels, HasDir, HasIno, Maybe
<1>5. pc'[p] = "user" /\ dp'[p] = NoInode /\ ip'[p] = NoInode /\ put'[p] = <<>>
  <2>1. Goto(p, "user", NoInode, NoInode, <<>>) /\ Rest(p)
      BY <1>1, <1>3
  <2> QED BY <2>1, <1>4, Went
<1>6. \A j \in Inums : Change(p, "user", NoInode, NoInode, <<>>, j) = 0
  <2> SUFFICES ASSUME NEW j \in Inums PROVE Change(p, "user", NoInode, NoInode, <<>>, j) = 0
      OBVIOUS
  <2>1. Hold(<<>>, j) = 0
      BY <1>2, Holds
  <2>2. fd'[p] = ip[p] /\ cwd'[p] = cwd[p] /\ j # NoInode
      BY <1>1, Here
  <2> QED BY <1>1, <1>2, <2>1, <2>2 DEF Change, B
<1>7. Local(p)' /\ Held(p)' /\ Kinds(p)' /\ Locked(p)'
  <2>1. Len(<<>>) <= 2
      OBVIOUS
  <2>2. /\ fd'[p] = ip[p] /\ cwd'[p] = cwd[p]
      BY <1>1, <1>2, Here
  <2>3. Local(p)'
      BY <1>1, <1>2, <1>3, <1>5, <2>1, <2>2, Here, FsAssumption DEF Local, HasDir, HasIno, Searching, InParent, Labels, InCalls, SysCalls
  <2>4. Held(p)'
      BY <1>1, <1>2, <1>5, <2>2, Here DEF Held, Allocated, Maybe
  <2>5. Kinds(p)'
      BY <1>1, <1>2, <1>3, <1>5, <2>2, Here, FsAssumption DEF Kinds, InParent
  <2>6. Locked(p)'
      BY <1>1, <1>2, <1>5, <2>2, Here DEF Locked
  <2> QED BY <2>3, <2>4, <2>5, <2>6
<1>8. lock' \in [Inums -> Procs \cup {NONE}] /\ \A j \in Inums : lock'[j] = lock[j] \/ lock[j] \in {NONE, p}
    BY <1>1, <1>2, Here
<1>9. ref' \in [Inums -> Int] /\ \A j \in Inums : ref'[j] = ref[j] + Change(p, "user", NoInode, NoInode, <<>>, j) /\ ref'[j] >= ref[j]
    BY <1>1, <1>6, RefsSame
<1>10. \A j \in Inums : NoInode = j \/ NoInode = j \/ (cwd'[p] = j /\ "user" # "chdir_end") => Near(p, j) \/ \E e \in Inums, n \in Names : ents[e][n] = j
    BY <1>1, <1>2, Here DEF Near
<1>11. ~Owe("user", call'[p]) /\ ~Owe(pc[p], call[p])
    BY <1>1, <1>2, <1>3, Here, FsAssumption DEF Owe
<1>12. panic' = FALSE
    BY <1>1, <1>2, NoPanic
<1>13. \E x \in Inums : (x = dp[p] \/ x = ip[p]) /\ Load({x}, Inodes)
    BY <1>1, <1>2
<1>14. QuietStep(p, "user", NoInode, NoInode, <<>>)
    BY <1>1, <1>2, <1>3, <1>7, <1>8, <1>9, <1>10, <1>11, <1>12, <1>13 DEF QuietStep
<1> QED BY <1>4, <1>14, Quiet

(* open or create gives up.                                                *)
LEMMA OpenPutInductive ==
    ASSUME FsIInv, NEW p \in Procs, open_put(p)
    PROVE  FsIInv'
<1>1. /\ pc[p] = "open" /\ put[p] = <<>> /\ Goto(p, "end", NoInode, NoInode, <<ip[p]>>) /\ disk' = disk
      /\ ents' = ents /\ stray' = stray /\ Load({ip[p]}, Inodes) /\ Panics(ip[p], FALSE) /\ ref' = ref
      /\ lock' = [lock EXCEPT ![ip[p]] = NONE] /\ Forget(p) /\ fd' = fd /\ cwd' = cwd
    BY DEF open_put, At, Ready, cache, locals, ghosts, FsIInv, Types, Look
<1>2. /\ dp[p] = NoInode /\ ip[p] \in Inums /\ Allocated(ip[p]) /\ call[p] # "link2"
      /\ lock[ip[p]] \in {NONE, p}
    BY <1>1, Here DEF Local, Held, Kinds, Locked, HasDir, HasIno, Maybe, Labels, InCalls, SysCalls, InParent, Searching, open_put, At
<1>3. Rest(p) /\ call'[p] = NONE /\ path'[p] = <<>> /\ new'[p] = <<>>
  <2>1. fd' \in [Procs -> Maybe] /\ cwd' \in [Procs -> Inums] /\ \A q \in Procs \ {p} : fd'[q] = fd[q] /\ cwd'[q] = cwd[q]
      BY <1>1, <1>2, Here
  <2> QED BY <1>1, <2>1, Forgotten
<1>4. "end" \in Labels /\ NoInode \in Maybe /\ NoInode \in Maybe /\ <<ip[p]>> \in Seq(Inums)
    BY <1>1, <1>2, Here DEF Labels, HasDir, HasIno, Maybe
<1>5. pc'[p] = "end" /\ dp'[p] = NoInode /\ ip'[p] = NoInode /\ put'[p] = <<ip[p]>>
  <2>1. Goto(p, "end", NoInode, NoInode, <<ip[p]>>) /\ Rest(p)
      BY <1>1, <1>3
  <2> QED BY <2>1, <1>4, Went
<1>6. \A j \in Inums : Change(p, "end", NoInode, NoInode, <<ip[p]>>, j) = 0
  <2> SUFFICES ASSUME NEW j \in Inums PROVE Change(p, "end", NoInode, NoInode, <<ip[p]>>, j) = 0
      OBVIOUS
  <2>1. Hold(<<ip[p]>>, j) = B(ip[p] = j)
      BY <1>2, Holds
  <2>2. fd'[p] = fd[p] /\ cwd'[p] = cwd[p] /\ j # NoInode
      BY <1>1, Here
  <2> QED BY <1>1, <1>2, <2>1, <2>2 DEF Change, B
<1>7. Local(p)' /\ Held(p)' /\ Kinds(p)' /\ Locked(p)'
  <2>1. Len(<<ip[p]>>) <= 2
      OBVIOUS
  <2>2. /\ fd'[p] = fd[p] /\ cwd'[p] = cwd[p]
      BY <1>1, <1>2, Here
  <2>3. Local(p)'
      BY <1>1, <1>2, <1>3, <1>5, <2>1, <2>2, Here, FsAssumption DEF Local, HasDir, HasIno, Searching, InParent, Labels, InCalls, SysCalls
  <2>4. Held(p)'
      BY <1>1, <1>2, <1>5, <2>2, Here DEF Held, Allocated, Maybe
  <2>5. Kinds(p)'
      BY <1>1, <1>2, <1>3, <1>5, <2>2, Here, FsAssumption DEF Kinds, InParent
  <2>6. Locked(p)'
      BY <1>1, <1>2, <1>5, <2>2, Here DEF Locked
  <2> QED BY <2>3, <2>4, <2>5, <2>6
<1>8. lock' \in [Inums -> Procs \cup {NONE}] /\ \A j \in Inums : lock'[j] = lock[j] \/ lock[j] \in {NONE, p}
    BY <1>1, <1>2, Here
<1>9. ref' \in [Inums -> Int] /\ \A j \in Inums : ref'[j] = ref[j] + Change(p, "end", NoInode, NoInode, <<ip[p]>>, j) /\ ref'[j] >= ref[j]
    BY <1>1, <1>6, RefsSame
<1>10. \A j \in Inums : NoInode = j \/ NoInode = j \/ (cwd'[p] = j /\ "end" # "chdir_end") => Near(p, j) \/ \E e \in Inums, n \in Names : ents[e][n] = j
    BY <1>1, <1>2, Here DEF Near
<1>11. ~Owe("end", call'[p]) /\ ~Owe(pc[p], call[p])
    BY <1>1, <1>2, <1>3, Here, FsAssumption DEF Owe
<1>12. panic' = FALSE
    BY <1>1, <1>2, NoPanic
<1>13. \E x \in Inums : (x = dp[p] \/ x = ip[p]) /\ Load({x}, Inodes)
    BY <1>1, <1>2
<1>14. QuietStep(p, "end", NoInode, NoInode, <<ip[p]>>)
    BY <1>1, <1>2, <1>3, <1>7, <1>8, <1>9, <1>10, <1>11, <1>12, <1>13 DEF QuietStep
<1> QED BY <1>4, <1>14, Quiet

(* link refuses directories.                                               *)
LEMMA LinkDirInductive ==
    ASSUME FsIInv, NEW p \in Procs, link_dir(p)
    PROVE  FsIInv'
<1>1. /\ pc[p] = "link" /\ put[p] = <<>> /\ Goto(p, "end", NoInode, NoInode, <<ip[p]>>) /\ disk' = disk
      /\ ents' = ents /\ stray' = stray /\ Load({ip[p]}, Inodes) /\ Panics(ip[p], FALSE) /\ ref' = ref
      /\ lock' = lock /\ Forget(p) /\ fd' = fd /\ cwd' = cwd
    BY DEF link_dir, At, Ready, cache, locals, ghosts, FsIInv, Types, Look
<1>2. /\ dp[p] = NoInode /\ ip[p] \in Inums /\ Allocated(ip[p]) /\ call[p] # "link2"
    BY <1>1, Here DEF Local, Held, Kinds, Locked, HasDir, HasIno, Maybe, Labels, InCalls, SysCalls, InParent, Searching
<1>3. Rest(p) /\ call'[p] = NONE /\ path'[p] = <<>> /\ new'[p] = <<>>
  <2>1. fd' \in [Procs -> Maybe] /\ cwd' \in [Procs -> Inums] /\ \A q \in Procs \ {p} : fd'[q] = fd[q] /\ cwd'[q] = cwd[q]
      BY <1>1, <1>2, Here
  <2> QED BY <1>1, <2>1, Forgotten
<1>4. "end" \in Labels /\ NoInode \in Maybe /\ NoInode \in Maybe /\ <<ip[p]>> \in Seq(Inums)
    BY <1>1, <1>2, Here DEF Labels, HasDir, HasIno, Maybe
<1>5. pc'[p] = "end" /\ dp'[p] = NoInode /\ ip'[p] = NoInode /\ put'[p] = <<ip[p]>>
  <2>1. Goto(p, "end", NoInode, NoInode, <<ip[p]>>) /\ Rest(p)
      BY <1>1, <1>3
  <2> QED BY <2>1, <1>4, Went
<1>6. \A j \in Inums : Change(p, "end", NoInode, NoInode, <<ip[p]>>, j) = 0
  <2> SUFFICES ASSUME NEW j \in Inums PROVE Change(p, "end", NoInode, NoInode, <<ip[p]>>, j) = 0
      OBVIOUS
  <2>1. Hold(<<ip[p]>>, j) = B(ip[p] = j)
      BY <1>2, Holds
  <2>2. fd'[p] = fd[p] /\ cwd'[p] = cwd[p] /\ j # NoInode
      BY <1>1, Here
  <2> QED BY <1>1, <1>2, <2>1, <2>2 DEF Change, B
<1>7. Local(p)' /\ Held(p)' /\ Kinds(p)' /\ Locked(p)'
  <2>1. Len(<<ip[p]>>) <= 2
      OBVIOUS
  <2>2. /\ fd'[p] = fd[p] /\ cwd'[p] = cwd[p]
      BY <1>1, <1>2, Here
  <2>3. Local(p)'
      BY <1>1, <1>2, <1>3, <1>5, <2>1, <2>2, Here, FsAssumption DEF Local, HasDir, HasIno, Searching, InParent, Labels, InCalls, SysCalls
  <2>4. Held(p)'
      BY <1>1, <1>2, <1>5, <2>2, Here DEF Held, Allocated, Maybe
  <2>5. Kinds(p)'
      BY <1>1, <1>2, <1>3, <1>5, <2>2, Here, FsAssumption DEF Kinds, InParent
  <2>6. Locked(p)'
      BY <1>1, <1>2, <1>5, <2>2, Here DEF Locked
  <2> QED BY <2>3, <2>4, <2>5, <2>6
<1>8. lock' \in [Inums -> Procs \cup {NONE}] /\ \A j \in Inums : lock'[j] = lock[j] \/ lock[j] \in {NONE, p}
    BY <1>1, <1>2, Here
<1>9. ref' \in [Inums -> Int] /\ \A j \in Inums : ref'[j] = ref[j] + Change(p, "end", NoInode, NoInode, <<ip[p]>>, j) /\ ref'[j] >= ref[j]
    BY <1>1, <1>6, RefsSame
<1>10. \A j \in Inums : NoInode = j \/ NoInode = j \/ (cwd'[p] = j /\ "end" # "chdir_end") => Near(p, j) \/ \E e \in Inums, n \in Names : ents[e][n] = j
    BY <1>1, <1>2, Here DEF Near
<1>11. ~Owe("end", call'[p]) /\ ~Owe(pc[p], call[p])
    BY <1>1, <1>2, <1>3, Here, FsAssumption DEF Owe
<1>12. panic' = FALSE
    BY <1>1, <1>2, NoPanic
<1>13. \E x \in Inums : (x = dp[p] \/ x = ip[p]) /\ Load({x}, Inodes)
    BY <1>1, <1>2
<1>14. QuietStep(p, "end", NoInode, NoInode, <<ip[p]>>)
    BY <1>1, <1>2, <1>3, <1>7, <1>8, <1>9, <1>10, <1>11, <1>12, <1>13 DEF QuietStep
<1> QED BY <1>4, <1>14, Quiet

(* chdir puts the old directory.                                           *)
LEMMA ChdirInductive ==
    ASSUME FsIInv, NEW p \in Procs, chdir(p), In(ip[p]).type = "dir"
    PROVE  FsIInv'
<1>1. /\ pc[p] = "chdir" /\ put[p] = <<>> /\ Goto(p, "chdir_end", NoInode, ip[p], <<cwd[p]>>) /\ disk' = disk
      /\ ents' = ents /\ stray' = stray /\ Load({ip[p]}, Inodes) /\ Panics(ip[p], FALSE) /\ ref' = ref
      /\ lock' = lock /\ Forget(p) /\ fd' = fd /\ cwd' = cwd
    BY DEF chdir, At, Ready, cache, locals, ghosts, FsIInv, Types, Look
<1>2. /\ dp[p] = NoInode /\ ip[p] \in Inums /\ Allocated(ip[p]) /\ call[p] # "link2" /\ cwd[p] \in Inums
    BY <1>1, Here DEF Local, Held, Kinds, Locked, HasDir, HasIno, Maybe, Labels, InCalls, SysCalls, InParent, Searching
<1>3. Rest(p) /\ call'[p] = NONE /\ path'[p] = <<>> /\ new'[p] = <<>>
  <2>1. fd' \in [Procs -> Maybe] /\ cwd' \in [Procs -> Inums] /\ \A q \in Procs \ {p} : fd'[q] = fd[q] /\ cwd'[q] = cwd[q]
      BY <1>1, <1>2, Here
  <2> QED BY <1>1, <2>1, Forgotten
<1>4. "chdir_end" \in Labels /\ NoInode \in Maybe /\ ip[p] \in Maybe /\ <<cwd[p]>> \in Seq(Inums)
    BY <1>1, <1>2, Here DEF Labels, HasDir, HasIno, Maybe
<1>5. pc'[p] = "chdir_end" /\ dp'[p] = NoInode /\ ip'[p] = ip[p] /\ put'[p] = <<cwd[p]>>
  <2>1. Goto(p, "chdir_end", NoInode, ip[p], <<cwd[p]>>) /\ Rest(p)
      BY <1>1, <1>3
  <2> QED BY <2>1, <1>4, Went
<1>6. \A j \in Inums : Change(p, "chdir_end", NoInode, ip[p], <<cwd[p]>>, j) = 0
  <2> SUFFICES ASSUME NEW j \in Inums PROVE Change(p, "chdir_end", NoInode, ip[p], <<cwd[p]>>, j) = 0
      OBVIOUS
  <2>1. Hold(<<cwd[p]>>, j) = B(cwd[p] = j)
      BY <1>2, Holds
  <2>2. fd'[p] = fd[p] /\ cwd'[p] = cwd[p] /\ j # NoInode
      BY <1>1, Here
  <2> QED BY <1>1, <1>2, <2>1, <2>2 DEF Change, B
<1>7. Local(p)' /\ Held(p)' /\ Kinds(p)' /\ Locked(p)'
  <2>1. Len(<<cwd[p]>>) <= 2
      OBVIOUS
  <2>2. /\ fd'[p] = fd[p] /\ cwd'[p] = cwd[p]
      BY <1>1, <1>2, Here
  <2>3. Local(p)'
      BY <1>1, <1>2, <1>3, <1>5, <2>1, <2>2, Here, FsAssumption DEF Local, HasDir, HasIno, Searching, InParent, Labels, InCalls, SysCalls
  <2>4. Held(p)'
      BY <1>1, <1>2, <1>5, <2>2, Here DEF Held, Allocated, Maybe
  <2>5. Kinds(p)'
      BY <1>1, <1>2, <1>3, <1>5, <2>2, Here, FsAssumption DEF Kinds, InParent
  <2>6. Locked(p)'
      BY <1>1, <1>2, <1>5, <2>2, Here DEF Locked
  <2> QED BY <2>3, <2>4, <2>5, <2>6
<1>8. lock' \in [Inums -> Procs \cup {NONE}] /\ \A j \in Inums : lock'[j] = lock[j] \/ lock[j] \in {NONE, p}
    BY <1>1, <1>2, Here
<1>9. ref' \in [Inums -> Int] /\ \A j \in Inums : ref'[j] = ref[j] + Change(p, "chdir_end", NoInode, ip[p], <<cwd[p]>>, j) /\ ref'[j] >= ref[j]
    BY <1>1, <1>6, RefsSame
<1>10. \A j \in Inums : NoInode = j \/ ip[p] = j \/ (cwd'[p] = j /\ "chdir_end" # "chdir_end") => Near(p, j) \/ \E e \in Inums, n \in Names : ents[e][n] = j
    BY <1>1, <1>2, Here DEF Near
<1>11. ~Owe("chdir_end", call'[p]) /\ ~Owe(pc[p], call[p])
    BY <1>1, <1>2, <1>3, Here, FsAssumption DEF Owe
<1>12. panic' = FALSE
    BY <1>1, <1>2, NoPanic
<1>13. \E x \in Inums : (x = dp[p] \/ x = ip[p]) /\ Load({x}, Inodes)
    BY <1>1, <1>2
<1>14. QuietStep(p, "chdir_end", NoInode, ip[p], <<cwd[p]>>)
    BY <1>1, <1>2, <1>3, <1>7, <1>8, <1>9, <1>10, <1>11, <1>12, <1>13 DEF QuietStep
<1> QED BY <1>4, <1>14, Quiet

(* chdir to what is no directory.                                          *)
LEMMA ChdirFailsInductive ==
    ASSUME FsIInv, NEW p \in Procs, chdir(p), In(ip[p]).type # "dir"
    PROVE  FsIInv'
<1>1. /\ pc[p] = "chdir" /\ put[p] = <<>> /\ Goto(p, "end", NoInode, NoInode, <<ip[p]>>) /\ disk' = disk
      /\ ents' = ents /\ stray' = stray /\ Load({ip[p]}, Inodes) /\ Panics(ip[p], FALSE) /\ ref' = ref
      /\ lock' = lock /\ Forget(p) /\ fd' = fd /\ cwd' = cwd
    BY DEF chdir, At, Ready, cache, locals, ghosts, FsIInv, Types, Look
<1>2. /\ dp[p] = NoInode /\ ip[p] \in Inums /\ Allocated(ip[p]) /\ call[p] # "link2"
    BY <1>1, Here DEF Local, Held, Kinds, Locked, HasDir, HasIno, Maybe, Labels, InCalls, SysCalls, InParent, Searching
<1>3. Rest(p) /\ call'[p] = NONE /\ path'[p] = <<>> /\ new'[p] = <<>>
  <2>1. fd' \in [Procs -> Maybe] /\ cwd' \in [Procs -> Inums] /\ \A q \in Procs \ {p} : fd'[q] = fd[q] /\ cwd'[q] = cwd[q]
      BY <1>1, <1>2, Here
  <2> QED BY <1>1, <2>1, Forgotten
<1>4. "end" \in Labels /\ NoInode \in Maybe /\ NoInode \in Maybe /\ <<ip[p]>> \in Seq(Inums)
    BY <1>1, <1>2, Here DEF Labels, HasDir, HasIno, Maybe
<1>5. pc'[p] = "end" /\ dp'[p] = NoInode /\ ip'[p] = NoInode /\ put'[p] = <<ip[p]>>
  <2>1. Goto(p, "end", NoInode, NoInode, <<ip[p]>>) /\ Rest(p)
      BY <1>1, <1>3
  <2> QED BY <2>1, <1>4, Went
<1>6. \A j \in Inums : Change(p, "end", NoInode, NoInode, <<ip[p]>>, j) = 0
  <2> SUFFICES ASSUME NEW j \in Inums PROVE Change(p, "end", NoInode, NoInode, <<ip[p]>>, j) = 0
      OBVIOUS
  <2>1. Hold(<<ip[p]>>, j) = B(ip[p] = j)
      BY <1>2, Holds
  <2>2. fd'[p] = fd[p] /\ cwd'[p] = cwd[p] /\ j # NoInode
      BY <1>1, Here
  <2> QED BY <1>1, <1>2, <2>1, <2>2 DEF Change, B
<1>7. Local(p)' /\ Held(p)' /\ Kinds(p)' /\ Locked(p)'
  <2>1. Len(<<ip[p]>>) <= 2
      OBVIOUS
  <2>2. /\ fd'[p] = fd[p] /\ cwd'[p] = cwd[p]
      BY <1>1, <1>2, Here
  <2>3. Local(p)'
      BY <1>1, <1>2, <1>3, <1>5, <2>1, <2>2, Here, FsAssumption DEF Local, HasDir, HasIno, Searching, InParent, Labels, InCalls, SysCalls
  <2>4. Held(p)'
      BY <1>1, <1>2, <1>5, <2>2, Here DEF Held, Allocated, Maybe
  <2>5. Kinds(p)'
      BY <1>1, <1>2, <1>3, <1>5, <2>2, Here, FsAssumption DEF Kinds, InParent
  <2>6. Locked(p)'
      BY <1>1, <1>2, <1>5, <2>2, Here DEF Locked
  <2> QED BY <2>3, <2>4, <2>5, <2>6
<1>8. lock' \in [Inums -> Procs \cup {NONE}] /\ \A j \in Inums : lock'[j] = lock[j] \/ lock[j] \in {NONE, p}
    BY <1>1, <1>2, Here
<1>9. ref' \in [Inums -> Int] /\ \A j \in Inums : ref'[j] = ref[j] + Change(p, "end", NoInode, NoInode, <<ip[p]>>, j) /\ ref'[j] >= ref[j]
    BY <1>1, <1>6, RefsSame
<1>10. \A j \in Inums : NoInode = j \/ NoInode = j \/ (cwd'[p] = j /\ "end" # "chdir_end") => Near(p, j) \/ \E e \in Inums, n \in Names : ents[e][n] = j
    BY <1>1, <1>2, Here DEF Near
<1>11. ~Owe("end", call'[p]) /\ ~Owe(pc[p], call[p])
    BY <1>1, <1>2, <1>3, Here, FsAssumption DEF Owe
<1>12. panic' = FALSE
    BY <1>1, <1>2, NoPanic
<1>13. \E x \in Inums : (x = dp[p] \/ x = ip[p]) /\ Load({x}, Inodes)
    BY <1>1, <1>2
<1>14. QuietStep(p, "end", NoInode, NoInode, <<ip[p]>>)
    BY <1>1, <1>2, <1>3, <1>7, <1>8, <1>9, <1>10, <1>11, <1>12, <1>13 DEF QuietStep
<1> QED BY <1>4, <1>14, Quiet

(* unlink of a name that is not there.                                     *)
LEMMA UnlinkNoneInductive ==
    ASSUME FsIInv, NEW p \in Procs, unlink_none(p)
    PROVE  FsIInv'
<1>1. /\ pc[p] = "unlink" /\ put[p] = <<>> /\ Goto(p, "end", NoInode, NoInode, <<dp[p]>>) /\ disk' = disk
      /\ ents' = ents /\ stray' = stray /\ Load({dp[p]}, Inodes) /\ Panics(dp[p], FALSE) /\ ref' = ref
      /\ lock' = lock /\ Forget(p) /\ fd' = fd /\ cwd' = cwd
    BY DEF unlink_none, At, Ready, cache, locals, ghosts, FsIInv, Types, Look
<1>2. /\ dp[p] \in Inums /\ Allocated(dp[p]) /\ ip[p] = NoInode /\ call[p] # "link2"
    BY <1>1, Here DEF Local, Held, Kinds, Locked, HasDir, HasIno, Maybe, Labels, InCalls, SysCalls, InParent, Searching
<1>3. Rest(p) /\ call'[p] = NONE /\ path'[p] = <<>> /\ new'[p] = <<>>
  <2>1. fd' \in [Procs -> Maybe] /\ cwd' \in [Procs -> Inums] /\ \A q \in Procs \ {p} : fd'[q] = fd[q] /\ cwd'[q] = cwd[q]
      BY <1>1, <1>2, Here
  <2> QED BY <1>1, <2>1, Forgotten
<1>4. "end" \in Labels /\ NoInode \in Maybe /\ NoInode \in Maybe /\ <<dp[p]>> \in Seq(Inums)
    BY <1>1, <1>2, Here DEF Labels, HasDir, HasIno, Maybe
<1>5. pc'[p] = "end" /\ dp'[p] = NoInode /\ ip'[p] = NoInode /\ put'[p] = <<dp[p]>>
  <2>1. Goto(p, "end", NoInode, NoInode, <<dp[p]>>) /\ Rest(p)
      BY <1>1, <1>3
  <2> QED BY <2>1, <1>4, Went
<1>6. \A j \in Inums : Change(p, "end", NoInode, NoInode, <<dp[p]>>, j) = 0
  <2> SUFFICES ASSUME NEW j \in Inums PROVE Change(p, "end", NoInode, NoInode, <<dp[p]>>, j) = 0
      OBVIOUS
  <2>1. Hold(<<dp[p]>>, j) = B(dp[p] = j)
      BY <1>2, Holds
  <2>2. fd'[p] = fd[p] /\ cwd'[p] = cwd[p] /\ j # NoInode
      BY <1>1, Here
  <2> QED BY <1>1, <1>2, <2>1, <2>2 DEF Change, B
<1>7. Local(p)' /\ Held(p)' /\ Kinds(p)' /\ Locked(p)'
  <2>1. Len(<<dp[p]>>) <= 2
      OBVIOUS
  <2>2. /\ fd'[p] = fd[p] /\ cwd'[p] = cwd[p]
      BY <1>1, <1>2, Here
  <2>3. Local(p)'
      BY <1>1, <1>2, <1>3, <1>5, <2>1, <2>2, Here, FsAssumption DEF Local, HasDir, HasIno, Searching, InParent, Labels, InCalls, SysCalls
  <2>4. Held(p)'
      BY <1>1, <1>2, <1>5, <2>2, Here DEF Held, Allocated, Maybe
  <2>5. Kinds(p)'
      BY <1>1, <1>2, <1>3, <1>5, <2>2, Here, FsAssumption DEF Kinds, InParent
  <2>6. Locked(p)'
      BY <1>1, <1>2, <1>5, <2>2, Here DEF Locked
  <2> QED BY <2>3, <2>4, <2>5, <2>6
<1>8. lock' \in [Inums -> Procs \cup {NONE}] /\ \A j \in Inums : lock'[j] = lock[j] \/ lock[j] \in {NONE, p}
    BY <1>1, <1>2, Here
<1>9. ref' \in [Inums -> Int] /\ \A j \in Inums : ref'[j] = ref[j] + Change(p, "end", NoInode, NoInode, <<dp[p]>>, j) /\ ref'[j] >= ref[j]
    BY <1>1, <1>6, RefsSame
<1>10. \A j \in Inums : NoInode = j \/ NoInode = j \/ (cwd'[p] = j /\ "end" # "chdir_end") => Near(p, j) \/ \E e \in Inums, n \in Names : ents[e][n] = j
    BY <1>1, <1>2, Here DEF Near
<1>11. ~Owe("end", call'[p]) /\ ~Owe(pc[p], call[p])
    BY <1>1, <1>2, <1>3, Here, FsAssumption DEF Owe
<1>12. panic' = FALSE
    BY <1>1, <1>2, NoPanic
<1>13. \E x \in Inums : (x = dp[p] \/ x = ip[p]) /\ Load({x}, Inodes)
    BY <1>1, <1>2
<1>14. QuietStep(p, "end", NoInode, NoInode, <<dp[p]>>)
    BY <1>1, <1>2, <1>3, <1>7, <1>8, <1>9, <1>10, <1>11, <1>12, <1>13 DEF QuietStep
<1> QED BY <1>4, <1>14, Quiet

(* unlink finds the name, and keeps the directory locked.                  *)
LEMMA UnlinkInductive ==
    ASSUME FsIInv, NEW p \in Procs, unlink(p)
    PROVE  FsIInv'
<1>1. /\ pc[p] = "unlink" /\ put[p] = <<>> /\ Goto(p, "unlink_ip", dp[p], found(p), <<>>) /\ disk' = disk
      /\ ents' = ents /\ stray' = stray /\ Load({dp[p]}, Inodes) /\ Panics(dp[p], FALSE) /\ idup(found(p))
      /\ lock' = [lock EXCEPT ![dp[p]] = p] /\ fd' = fd /\ cwd' = cwd /\ call' = call /\ path' = path
      /\ new' = new
    BY DEF unlink, iget, At, Ready, cache, locals, ghosts, FsIInv, Types, Look
<1>2. /\ dp[p] \in Inums /\ Allocated(dp[p]) /\ ip[p] = NoInode /\ call[p] = "unlink" /\ lock[dp[p]] = NONE
      /\ disk[dp[p]].type = "dir" /\ found(p) \in Inums /\ Allocated(found(p)) /\ found(p) # dp[p]
      /\ \E e \in Inums, n \in Names : ents[e][n] = found(p)
  <2>1. /\ dp[p] \in Inums /\ Allocated(dp[p]) /\ ip[p] = NoInode /\ call[p] = "unlink" /\ lock[dp[p]] = NONE
        /\ disk[dp[p]].type = "dir" /\ found(p) # NoInode /\ path[p] # <<>>
      BY <1>1, Here DEF Local, Held, Kinds, Locked, HasDir, HasIno, Maybe, Labels, InCalls, SysCalls, InParent, Searching, At, unlink
  <2> QED BY <2>1, FoundInode
<1>3. Rest(p)
    BY <1>1, <1>2, Here  DEF Rest
<1>4. "unlink_ip" \in Labels /\ dp[p] \in Maybe /\ found(p) \in Maybe /\ <<>> \in Seq(Inums)
    BY <1>1, <1>2, Here DEF Labels, HasDir, HasIno, Maybe
<1>5. pc'[p] = "unlink_ip" /\ dp'[p] = dp[p] /\ ip'[p] = found(p) /\ put'[p] = <<>>
  <2>1. Goto(p, "unlink_ip", dp[p], found(p), <<>>) /\ Rest(p)
      BY <1>1, <1>3
  <2> QED BY <2>1, <1>4, Went
<1>6. \A j \in Inums : Change(p, "unlink_ip", dp[p], found(p), <<>>, j) = B(found(p) = j)
  <2> SUFFICES ASSUME NEW j \in Inums PROVE Change(p, "unlink_ip", dp[p], found(p), <<>>, j) = B(found(p) = j)
      OBVIOUS
  <2>1. Hold(<<>>, j) = 0
      BY <1>2, Holds
  <2>2. fd'[p] = fd[p] /\ cwd'[p] = cwd[p] /\ j # NoInode
      BY <1>1, Here
  <2> QED BY <1>1, <1>2, <2>1, <2>2 DEF Change, B
<1>7. Local(p)' /\ Held(p)' /\ Kinds(p)' /\ Locked(p)'
  <2>1. Len(<<>>) <= 2
      OBVIOUS
  <2>2. /\ fd'[p] = fd[p] /\ cwd'[p] = cwd[p] /\ call'[p] = call[p] /\ path'[p] = path[p] /\ new'[p] = new[p]
      BY <1>1, <1>2, Here
  <2>3. Local(p)'
      BY <1>1, <1>2, <1>3, <1>5, <2>1, <2>2, Here, FsAssumption DEF Local, HasDir, HasIno, Searching, InParent, Labels, InCalls, SysCalls, found, name
  <2>4. Held(p)'
      BY <1>1, <1>2, <1>5, <2>2, Here DEF Held, Allocated, Maybe
  <2>5. Kinds(p)'
      BY <1>1, <1>2, <1>3, <1>5, <2>2, Here, FsAssumption DEF Kinds, InParent
  <2>6. Locked(p)'
      BY <1>1, <1>2, <1>5, <2>2, Here DEF Locked, found, name
  <2> QED BY <2>3, <2>4, <2>5, <2>6
<1>8. lock' \in [Inums -> Procs \cup {NONE}] /\ \A j \in Inums : lock'[j] = lock[j] \/ lock[j] \in {NONE, p}
    BY <1>1, <1>2, Here
<1>9. ref' \in [Inums -> Int] /\ \A j \in Inums : ref'[j] = ref[j] + Change(p, "unlink_ip", dp[p], found(p), <<>>, j) /\ ref'[j] >= ref[j]
  <2>1. idup(found(p)) /\ found(p) \in Inums
      BY <1>1, <1>2, Here
  <2>2. ref' \in [Inums -> Int] /\ \A j \in Inums : ref'[j] = ref[j] + B(found(p) = j) /\ ref'[j] >= ref[j]
      BY <2>1, RefsGot
  <2> QED BY <2>2, <1>6
<1>10. \A j \in Inums : dp[p] = j \/ found(p) = j \/ (cwd'[p] = j /\ "unlink_ip" # "chdir_end") => Near(p, j) \/ \E e \in Inums, n \in Names : ents[e][n] = j
    BY <1>1, <1>2, Here DEF Near
<1>11. ~Owe("unlink_ip", call'[p]) /\ ~Owe(pc[p], call[p])
    BY <1>1, <1>2, <1>3, Here, FsAssumption DEF Owe
<1>12. panic' = FALSE
    BY <1>1, <1>2, NoPanic
<1>13. \E x \in Inums : (x = dp[p] \/ x = ip[p]) /\ Load({x}, Inodes)
    BY <1>1, <1>2
<1>14. QuietStep(p, "unlink_ip", dp[p], found(p), <<>>)
    BY <1>1, <1>2, <1>3, <1>7, <1>8, <1>9, <1>10, <1>11, <1>12, <1>13 DEF QuietStep
<1> QED BY <1>4, <1>14, Quiet

(* link finds the new name taken.                                          *)
LEMMA LinkExistsInductive ==
    ASSUME FsIInv, NEW p \in Procs, link_exists(p)
    PROVE  FsIInv'
<1>1. /\ pc[p] = "link2" /\ put[p] = <<>> /\ Goto(p, "unlock_dp", dp[p], ip[p], <<found(p)>>) /\ disk' = disk
      /\ ents' = ents /\ stray' = stray /\ Load({dp[p]}, Inodes) /\ Panics(dp[p], FALSE) /\ idup(found(p))
      /\ lock' = [lock EXCEPT ![dp[p]] = p] /\ fd' = fd /\ cwd' = cwd /\ call' = call /\ path' = path
      /\ new' = new
    BY DEF link_exists, iget, At, Ready, cache, locals, ghosts, FsIInv, Types, Look
<1>2. /\ dp[p] \in Inums /\ Allocated(dp[p]) /\ ip[p] \in Inums /\ call[p] = "link2" /\ lock[dp[p]] = NONE
      /\ disk[dp[p]].type = "dir" /\ found(p) \in Inums /\ Allocated(found(p)) /\ found(p) # dp[p]
      /\ \E e \in Inums, n \in Names : ents[e][n] = found(p)
  <2>1. /\ dp[p] \in Inums /\ Allocated(dp[p]) /\ ip[p] \in Inums /\ call[p] = "link2" /\ lock[dp[p]] = NONE
        /\ disk[dp[p]].type = "dir" /\ found(p) # NoInode /\ path[p] # <<>>
      BY <1>1, Here DEF Local, Held, Kinds, Locked, HasDir, HasIno, Maybe, Labels, InCalls, SysCalls, InParent, Searching, At, link_exists
  <2> QED BY <2>1, FoundInode
<1>3. Rest(p)
    BY <1>1, <1>2, Here  DEF Rest
<1>4. "unlock_dp" \in Labels /\ dp[p] \in Maybe /\ ip[p] \in Maybe /\ <<found(p)>> \in Seq(Inums)
    BY <1>1, <1>2, Here DEF Labels, HasDir, HasIno, Maybe
<1>5. pc'[p] = "unlock_dp" /\ dp'[p] = dp[p] /\ ip'[p] = ip[p] /\ put'[p] = <<found(p)>>
  <2>1. Goto(p, "unlock_dp", dp[p], ip[p], <<found(p)>>) /\ Rest(p)
      BY <1>1, <1>3
  <2> QED BY <2>1, <1>4, Went
<1>6. \A j \in Inums : Change(p, "unlock_dp", dp[p], ip[p], <<found(p)>>, j) = B(found(p) = j)
  <2> SUFFICES ASSUME NEW j \in Inums PROVE Change(p, "unlock_dp", dp[p], ip[p], <<found(p)>>, j) = B(found(p) = j)
      OBVIOUS
  <2>1. Hold(<<found(p)>>, j) = B(found(p) = j)
      BY <1>2, Holds
  <2>2. fd'[p] = fd[p] /\ cwd'[p] = cwd[p] /\ j # NoInode
      BY <1>1, Here
  <2> QED BY <1>1, <1>2, <2>1, <2>2 DEF Change, B
<1>7. Local(p)' /\ Held(p)' /\ Kinds(p)' /\ Locked(p)'
  <2>1. Len(<<found(p)>>) <= 2
      OBVIOUS
  <2>2. /\ fd'[p] = fd[p] /\ cwd'[p] = cwd[p] /\ call'[p] = call[p] /\ path'[p] = path[p] /\ new'[p] = new[p]
      BY <1>1, <1>2, Here
  <2>3. Local(p)'
      BY <1>1, <1>2, <1>3, <1>5, <2>1, <2>2, Here, FsAssumption DEF Local, HasDir, HasIno, Searching, InParent, Labels, InCalls, SysCalls
  <2>4. Held(p)'
      BY <1>1, <1>2, <1>5, <2>2, Here DEF Held, Allocated, Maybe
  <2>5. Kinds(p)'
      BY <1>1, <1>2, <1>3, <1>5, <2>2, Here, FsAssumption DEF Kinds, InParent
  <2>6. Locked(p)'
      BY <1>1, <1>2, <1>5, <2>2, Here DEF Locked
  <2> QED BY <2>3, <2>4, <2>5, <2>6
<1>8. lock' \in [Inums -> Procs \cup {NONE}] /\ \A j \in Inums : lock'[j] = lock[j] \/ lock[j] \in {NONE, p}
    BY <1>1, <1>2, Here
<1>9. ref' \in [Inums -> Int] /\ \A j \in Inums : ref'[j] = ref[j] + Change(p, "unlock_dp", dp[p], ip[p], <<found(p)>>, j) /\ ref'[j] >= ref[j]
  <2>1. idup(found(p)) /\ found(p) \in Inums
      BY <1>1, <1>2, Here
  <2>2. ref' \in [Inums -> Int] /\ \A j \in Inums : ref'[j] = ref[j] + B(found(p) = j) /\ ref'[j] >= ref[j]
      BY <2>1, RefsGot
  <2> QED BY <2>2, <1>6
<1>10. \A j \in Inums : dp[p] = j \/ ip[p] = j \/ (cwd'[p] = j /\ "unlock_dp" # "chdir_end") => Near(p, j) \/ \E e \in Inums, n \in Names : ents[e][n] = j
    BY <1>1, <1>2, Here DEF Near
<1>11. (Owe("unlock_dp", call'[p]) <=> Owe(pc[p], call[p])) /\ (Owe(pc[p], call[p]) => ip[p] = ip[p])
    BY <1>1, <1>2, <1>3, Here, FsAssumption DEF Owe
<1>12. panic' = FALSE
    BY <1>1, <1>2, NoPanic
<1>13. \E x \in Inums : (x = dp[p] \/ x = ip[p]) /\ Load({x}, Inodes)
    BY <1>1, <1>2
<1>14. QuietStep(p, "unlock_dp", dp[p], ip[p], <<found(p)>>)
    BY <1>1, <1>2, <1>3, <1>7, <1>8, <1>9, <1>10, <1>11, <1>12, <1>13 DEF QuietStep
<1> QED BY <1>4, <1>14, Quiet

(* create finds the name.                                                  *)
LEMMA CreateFoundInductive ==
    ASSUME FsIInv, NEW p \in Procs, create_found(p)
    PROVE  FsIInv'
<1>1. /\ put[p] = <<>> /\ Goto(p, "open", NoInode, found(p), <<dp[p]>>) /\ disk' = disk /\ ents' = ents
      /\ stray' = stray /\ Load({dp[p]}, Inodes) /\ Panics(dp[p], FALSE) /\ idup(found(p)) /\ lock' = lock
      /\ fd' = fd /\ cwd' = cwd /\ call' = call /\ path' = path /\ new' = new
    BY DEF create_found, iget, At, Ready, cache, locals, ghosts, FsIInv, Types, Look
<1>2. /\ pc[p] \in {"create", "mkdir"} /\ dp[p] \in Inums /\ Allocated(dp[p]) /\ ip[p] = NoInode
      /\ call[p] \in {"create", "mkdir"} /\ found(p) \in Inums /\ Allocated(found(p)) /\ found(p) # dp[p]
      /\ \E e \in Inums, n \in Names : ents[e][n] = found(p)
  <2>1. /\ pc[p] \in {"create", "mkdir"} /\ dp[p] \in Inums /\ Allocated(dp[p]) /\ ip[p] = NoInode
        /\ call[p] \in {"create", "mkdir"} /\ found(p) # NoInode /\ path[p] # <<>>
      BY <1>1, Here DEF Local, Held, Kinds, Locked, HasDir, HasIno, Maybe, Labels, InCalls, SysCalls, InParent, Searching, At, create_found
  <2> QED BY <2>1, FoundInode
<1>3. Rest(p)
    BY <1>1, <1>2, Here  DEF Rest
<1>4. "open" \in Labels /\ NoInode \in Maybe /\ found(p) \in Maybe /\ <<dp[p]>> \in Seq(Inums)
    BY <1>1, <1>2, Here DEF Labels, HasDir, HasIno, Maybe
<1>5. pc'[p] = "open" /\ dp'[p] = NoInode /\ ip'[p] = found(p) /\ put'[p] = <<dp[p]>>
  <2>1. Goto(p, "open", NoInode, found(p), <<dp[p]>>) /\ Rest(p)
      BY <1>1, <1>3
  <2> QED BY <2>1, <1>4, Went
<1>6. \A j \in Inums : Change(p, "open", NoInode, found(p), <<dp[p]>>, j) = B(found(p) = j)
  <2> SUFFICES ASSUME NEW j \in Inums PROVE Change(p, "open", NoInode, found(p), <<dp[p]>>, j) = B(found(p) = j)
      OBVIOUS
  <2>1. Hold(<<dp[p]>>, j) = B(dp[p] = j)
      BY <1>2, Holds
  <2>2. fd'[p] = fd[p] /\ cwd'[p] = cwd[p] /\ j # NoInode
      BY <1>1, Here
  <2> QED BY <1>1, <1>2, <2>1, <2>2 DEF Change, B
<1>7. Local(p)' /\ Held(p)' /\ Kinds(p)' /\ Locked(p)'
  <2>1. Len(<<dp[p]>>) <= 2
      OBVIOUS
  <2>2. /\ fd'[p] = fd[p] /\ cwd'[p] = cwd[p] /\ call'[p] = call[p] /\ path'[p] = path[p] /\ new'[p] = new[p]
      BY <1>1, <1>2, Here
  <2>3. Local(p)'
      BY <1>1, <1>2, <1>3, <1>5, <2>1, <2>2, Here, FsAssumption DEF Local, HasDir, HasIno, Searching, InParent, Labels, InCalls, SysCalls
  <2>4. Held(p)'
      BY <1>1, <1>2, <1>5, <2>2, Here DEF Held, Allocated, Maybe
  <2>5. Kinds(p)'
      BY <1>1, <1>2, <1>3, <1>5, <2>2, Here, FsAssumption DEF Kinds, InParent
  <2>6. Locked(p)'
      BY <1>1, <1>2, <1>5, <2>2, Here DEF Locked, found, name
  <2> QED BY <2>3, <2>4, <2>5, <2>6
<1>8. lock' \in [Inums -> Procs \cup {NONE}] /\ \A j \in Inums : lock'[j] = lock[j] \/ lock[j] \in {NONE, p}
    BY <1>1, <1>2, Here
<1>9. ref' \in [Inums -> Int] /\ \A j \in Inums : ref'[j] = ref[j] + Change(p, "open", NoInode, found(p), <<dp[p]>>, j) /\ ref'[j] >= ref[j]
  <2>1. idup(found(p)) /\ found(p) \in Inums
      BY <1>1, <1>2, Here
  <2>2. ref' \in [Inums -> Int] /\ \A j \in Inums : ref'[j] = ref[j] + B(found(p) = j) /\ ref'[j] >= ref[j]
      BY <2>1, RefsGot
  <2> QED BY <2>2, <1>6
<1>10. \A j \in Inums : NoInode = j \/ found(p) = j \/ (cwd'[p] = j /\ "open" # "chdir_end") => Near(p, j) \/ \E e \in Inums, n \in Names : ents[e][n] = j
    BY <1>1, <1>2, Here DEF Near
<1>11. ~Owe("open", call'[p]) /\ ~Owe(pc[p], call[p])
    BY <1>1, <1>2, <1>3, Here, FsAssumption DEF Owe
<1>12. panic' = FALSE
    BY <1>1, <1>2, NoPanic
<1>13. \E x \in Inums : (x = dp[p] \/ x = ip[p]) /\ Load({x}, Inodes)
    BY <1>1, <1>2
<1>14. QuietStep(p, "open", NoInode, found(p), <<dp[p]>>)
    BY <1>1, <1>2, <1>3, <1>7, <1>8, <1>9, <1>10, <1>11, <1>12, <1>13 DEF QuietStep
<1> QED BY <1>4, <1>14, Quiet

(* unlink of a directory that is not empty gives the parent back.          *)
LEMMA UnlockDpInductive ==
    ASSUME FsIInv, NEW p \in Procs, unlock_dp(p), call[p] # "link2"
    PROVE  FsIInv'
<1>1. /\ pc[p] = "unlock_dp" /\ put[p] = <<>> /\ Goto(p, "end", NoInode, ip[p], <<dp[p]>>) /\ disk' = disk
      /\ ents' = ents /\ stray' = stray /\ mem' = mem /\ valid' = valid /\ panic' = FALSE /\ ref' = ref
      /\ lock' = [lock EXCEPT ![dp[p]] = NONE] /\ Forget(p) /\ fd' = fd /\ cwd' = cwd
    BY DEF unlock_dp, Ready, cache, locals, ghosts, FsIInv, Types
<1>2. /\ dp[p] \in Inums /\ Allocated(dp[p]) /\ ip[p] = NoInode /\ lock[dp[p]] = p /\ call[p] # "link2"
    BY <1>1, Here DEF Local, Held, Kinds, Locked, HasDir, HasIno, Maybe, Labels, InCalls, SysCalls, InParent, Searching
<1>3. Rest(p) /\ call'[p] = NONE /\ path'[p] = <<>> /\ new'[p] = <<>>
  <2>1. fd' \in [Procs -> Maybe] /\ cwd' \in [Procs -> Inums] /\ \A q \in Procs \ {p} : fd'[q] = fd[q] /\ cwd'[q] = cwd[q]
      BY <1>1, <1>2, Here
  <2> QED BY <1>1, <2>1, Forgotten
<1>4. "end" \in Labels /\ NoInode \in Maybe /\ ip[p] \in Maybe /\ <<dp[p]>> \in Seq(Inums)
    BY <1>1, <1>2, Here DEF Labels, HasDir, HasIno, Maybe
<1>5. pc'[p] = "end" /\ dp'[p] = NoInode /\ ip'[p] = ip[p] /\ put'[p] = <<dp[p]>>
  <2>1. Goto(p, "end", NoInode, ip[p], <<dp[p]>>) /\ Rest(p)
      BY <1>1, <1>3
  <2> QED BY <2>1, <1>4, Went
<1>6. \A j \in Inums : Change(p, "end", NoInode, ip[p], <<dp[p]>>, j) = 0
  <2> SUFFICES ASSUME NEW j \in Inums PROVE Change(p, "end", NoInode, ip[p], <<dp[p]>>, j) = 0
      OBVIOUS
  <2>1. Hold(<<dp[p]>>, j) = B(dp[p] = j)
      BY <1>2, Holds
  <2>2. fd'[p] = fd[p] /\ cwd'[p] = cwd[p] /\ j # NoInode
      BY <1>1, Here
  <2> QED BY <1>1, <1>2, <2>1, <2>2 DEF Change, B
<1>7. Local(p)' /\ Held(p)' /\ Kinds(p)' /\ Locked(p)'
  <2>1. Len(<<dp[p]>>) <= 2
      OBVIOUS
  <2>2. /\ fd'[p] = fd[p] /\ cwd'[p] = cwd[p]
      BY <1>1, <1>2, Here
  <2>3. Local(p)'
      BY <1>1, <1>2, <1>3, <1>5, <2>1, <2>2, Here, FsAssumption DEF Local, HasDir, HasIno, Searching, InParent, Labels, InCalls, SysCalls
  <2>4. Held(p)'
      BY <1>1, <1>2, <1>5, <2>2, Here DEF Held, Allocated, Maybe
  <2>5. Kinds(p)'
      BY <1>1, <1>2, <1>3, <1>5, <2>2, Here, FsAssumption DEF Kinds, InParent
  <2>6. Locked(p)'
      BY <1>1, <1>2, <1>5, <2>2, Here DEF Locked
  <2> QED BY <2>3, <2>4, <2>5, <2>6
<1>8. lock' \in [Inums -> Procs \cup {NONE}] /\ \A j \in Inums : lock'[j] = lock[j] \/ lock[j] \in {NONE, p}
    BY <1>1, <1>2, Here
<1>9. ref' \in [Inums -> Int] /\ \A j \in Inums : ref'[j] = ref[j] + Change(p, "end", NoInode, ip[p], <<dp[p]>>, j) /\ ref'[j] >= ref[j]
    BY <1>1, <1>6, RefsSame
<1>10. \A j \in Inums : NoInode = j \/ ip[p] = j \/ (cwd'[p] = j /\ "end" # "chdir_end") => Near(p, j) \/ \E e \in Inums, n \in Names : ents[e][n] = j
    BY <1>1, <1>2, Here DEF Near
<1>11. ~Owe("end", call'[p]) /\ ~Owe(pc[p], call[p])
    BY <1>1, <1>2, <1>3, Here, FsAssumption DEF Owe
<1>14. QuietStep(p, "end", NoInode, ip[p], <<dp[p]>>)
    BY <1>1, <1>2, <1>3, <1>7, <1>8, <1>9, <1>10, <1>11 DEF QuietStep
<1> QED BY <1>4, <1>14, Quiet

(* link gives the parent back on its way to bad.                           *)
LEMMA UnlockBadInductive ==
    ASSUME FsIInv, NEW p \in Procs, unlock_dp(p), call[p] = "link2"
    PROVE  FsIInv'
<1>1. /\ pc[p] = "unlock_dp" /\ put[p] = <<>> /\ Goto(p, "bad", NoInode, ip[p], <<dp[p]>>) /\ disk' = disk
      /\ ents' = ents /\ stray' = stray /\ mem' = mem /\ valid' = valid /\ panic' = FALSE /\ ref' = ref
      /\ lock' = [lock EXCEPT ![dp[p]] = NONE] /\ Forget(p) /\ fd' = fd /\ cwd' = cwd
    BY DEF unlock_dp, Ready, cache, locals, ghosts, FsIInv, Types
<1>2. /\ dp[p] \in Inums /\ Allocated(dp[p]) /\ ip[p] \in Inums /\ Allocated(ip[p]) /\ lock[dp[p]] = p
      /\ call[p] = "link2" /\ disk[ip[p]].type = "file"
    BY <1>1, Here DEF Local, Held, Kinds, Locked, HasDir, HasIno, Maybe, Labels, InCalls, SysCalls, InParent, Searching
<1>3. Rest(p) /\ call'[p] = NONE /\ path'[p] = <<>> /\ new'[p] = <<>>
  <2>1. fd' \in [Procs -> Maybe] /\ cwd' \in [Procs -> Inums] /\ \A q \in Procs \ {p} : fd'[q] = fd[q] /\ cwd'[q] = cwd[q]
      BY <1>1, <1>2, Here
  <2> QED BY <1>1, <2>1, Forgotten
<1>4. "bad" \in Labels /\ NoInode \in Maybe /\ ip[p] \in Maybe /\ <<dp[p]>> \in Seq(Inums)
    BY <1>1, <1>2, Here DEF Labels, HasDir, HasIno, Maybe
<1>5. pc'[p] = "bad" /\ dp'[p] = NoInode /\ ip'[p] = ip[p] /\ put'[p] = <<dp[p]>>
  <2>1. Goto(p, "bad", NoInode, ip[p], <<dp[p]>>) /\ Rest(p)
      BY <1>1, <1>3
  <2> QED BY <2>1, <1>4, Went
<1>6. \A j \in Inums : Change(p, "bad", NoInode, ip[p], <<dp[p]>>, j) = 0
  <2> SUFFICES ASSUME NEW j \in Inums PROVE Change(p, "bad", NoInode, ip[p], <<dp[p]>>, j) = 0
      OBVIOUS
  <2>1. Hold(<<dp[p]>>, j) = B(dp[p] = j)
      BY <1>2, Holds
  <2>2. fd'[p] = fd[p] /\ cwd'[p] = cwd[p] /\ j # NoInode
      BY <1>1, Here
  <2> QED BY <1>1, <1>2, <2>1, <2>2 DEF Change, B
<1>7. Local(p)' /\ Held(p)' /\ Kinds(p)' /\ Locked(p)'
  <2>1. Len(<<dp[p]>>) <= 2
      OBVIOUS
  <2>2. /\ fd'[p] = fd[p] /\ cwd'[p] = cwd[p]
      BY <1>1, <1>2, Here
  <2>3. Local(p)'
      BY <1>1, <1>2, <1>3, <1>5, <2>1, <2>2, Here, FsAssumption DEF Local, HasDir, HasIno, Searching, InParent, Labels, InCalls, SysCalls
  <2>4. Held(p)'
      BY <1>1, <1>2, <1>5, <2>2, Here DEF Held, Allocated, Maybe
  <2>5. Kinds(p)'
      BY <1>1, <1>2, <1>3, <1>5, <2>2, Here, FsAssumption DEF Kinds, InParent
  <2>6. Locked(p)'
      BY <1>1, <1>2, <1>5, <2>2, Here DEF Locked
  <2> QED BY <2>3, <2>4, <2>5, <2>6
<1>8. lock' \in [Inums -> Procs \cup {NONE}] /\ \A j \in Inums : lock'[j] = lock[j] \/ lock[j] \in {NONE, p}
    BY <1>1, <1>2, Here
<1>9. ref' \in [Inums -> Int] /\ \A j \in Inums : ref'[j] = ref[j] + Change(p, "bad", NoInode, ip[p], <<dp[p]>>, j) /\ ref'[j] >= ref[j]
    BY <1>1, <1>6, RefsSame
<1>10. \A j \in Inums : NoInode = j \/ ip[p] = j \/ (cwd'[p] = j /\ "bad" # "chdir_end") => Near(p, j) \/ \E e \in Inums, n \in Names : ents[e][n] = j
    BY <1>1, <1>2, Here DEF Near
<1>11. (Owe("bad", call'[p]) <=> Owe(pc[p], call[p])) /\ (Owe(pc[p], call[p]) => ip[p] = ip[p])
    BY <1>1, <1>2, <1>3, Here, FsAssumption DEF Owe
<1>14. QuietStep(p, "bad", NoInode, ip[p], <<dp[p]>>)
    BY <1>1, <1>2, <1>3, <1>7, <1>8, <1>9, <1>10, <1>11 DEF QuietStep
<1> QED BY <1>4, <1>14, Quiet

(* A path leads nowhere.                                                   *)
LEMMA NamexFailInductive ==
    ASSUME FsIInv, NEW p \in Procs, namex_fail(p), call[p] # "link2"
    PROVE  FsIInv'
<1>1. /\ pc[p] = "namex" /\ put[p] = <<>> /\ Goto(p, "end", NoInode, ip[p], <<dp[p]>>) /\ disk' = disk
      /\ ents' = ents /\ stray' = stray /\ Load({dp[p]}, Inodes) /\ Panics(dp[p], FALSE) /\ ref' = ref
      /\ lock' = lock /\ Forget(p) /\ fd' = fd /\ cwd' = cwd
    BY DEF namex_fail, InDir, Ready, cache, locals, ghosts, FsIInv, Types, Look
<1>2. /\ dp[p] \in Inums /\ Allocated(dp[p]) /\ ip[p] = NoInode /\ call[p] # "link2"
    BY <1>1, Here DEF Local, Held, Kinds, Locked, HasDir, HasIno, Maybe, Labels, InCalls, SysCalls, InParent, Searching
<1>3. Rest(p) /\ call'[p] = NONE /\ path'[p] = <<>> /\ new'[p] = <<>>
  <2>1. fd' \in [Procs -> Maybe] /\ cwd' \in [Procs -> Inums] /\ \A q \in Procs \ {p} : fd'[q] = fd[q] /\ cwd'[q] = cwd[q]
      BY <1>1, <1>2, Here
  <2> QED BY <1>1, <2>1, Forgotten
<1>4. "end" \in Labels /\ NoInode \in Maybe /\ ip[p] \in Maybe /\ <<dp[p]>> \in Seq(Inums)
    BY <1>1, <1>2, Here DEF Labels, HasDir, HasIno, Maybe
<1>5. pc'[p] = "end" /\ dp'[p] = NoInode /\ ip'[p] = ip[p] /\ put'[p] = <<dp[p]>>
  <2>1. Goto(p, "end", NoInode, ip[p], <<dp[p]>>) /\ Rest(p)
      BY <1>1, <1>3
  <2> QED BY <2>1, <1>4, Went
<1>6. \A j \in Inums : Change(p, "end", NoInode, ip[p], <<dp[p]>>, j) = 0
  <2> SUFFICES ASSUME NEW j \in Inums PROVE Change(p, "end", NoInode, ip[p], <<dp[p]>>, j) = 0
      OBVIOUS
  <2>1. Hold(<<dp[p]>>, j) = B(dp[p] = j)
      BY <1>2, Holds
  <2>2. fd'[p] = fd[p] /\ cwd'[p] = cwd[p] /\ j # NoInode
      BY <1>1, Here
  <2> QED BY <1>1, <1>2, <2>1, <2>2 DEF Change, B
<1>7. Local(p)' /\ Held(p)' /\ Kinds(p)' /\ Locked(p)'
  <2>1. Len(<<dp[p]>>) <= 2
      OBVIOUS
  <2>2. /\ fd'[p] = fd[p] /\ cwd'[p] = cwd[p]
      BY <1>1, <1>2, Here
  <2>3. Local(p)'
      BY <1>1, <1>2, <1>3, <1>5, <2>1, <2>2, Here, FsAssumption DEF Local, HasDir, HasIno, Searching, InParent, Labels, InCalls, SysCalls
  <2>4. Held(p)'
      BY <1>1, <1>2, <1>5, <2>2, Here DEF Held, Allocated, Maybe
  <2>5. Kinds(p)'
      BY <1>1, <1>2, <1>3, <1>5, <2>2, Here, FsAssumption DEF Kinds, InParent
  <2>6. Locked(p)'
      BY <1>1, <1>2, <1>5, <2>2, Here DEF Locked
  <2> QED BY <2>3, <2>4, <2>5, <2>6
<1>8. lock' \in [Inums -> Procs \cup {NONE}] /\ \A j \in Inums : lock'[j] = lock[j] \/ lock[j] \in {NONE, p}
    BY <1>1, <1>2, Here
<1>9. ref' \in [Inums -> Int] /\ \A j \in Inums : ref'[j] = ref[j] + Change(p, "end", NoInode, ip[p], <<dp[p]>>, j) /\ ref'[j] >= ref[j]
    BY <1>1, <1>6, RefsSame
<1>10. \A j \in Inums : NoInode = j \/ ip[p] = j \/ (cwd'[p] = j /\ "end" # "chdir_end") => Near(p, j) \/ \E e \in Inums, n \in Names : ents[e][n] = j
    BY <1>1, <1>2, Here DEF Near
<1>11. ~Owe("end", call'[p]) /\ ~Owe(pc[p], call[p])
    BY <1>1, <1>2, <1>3, Here, FsAssumption DEF Owe
<1>12. panic' = FALSE
    BY <1>1, <1>2, NoPanic
<1>13. \E x \in Inums : (x = dp[p] \/ x = ip[p]) /\ Load({x}, Inodes)
    BY <1>1, <1>2
<1>14. QuietStep(p, "end", NoInode, ip[p], <<dp[p]>>)
    BY <1>1, <1>2, <1>3, <1>7, <1>8, <1>9, <1>10, <1>11, <1>12, <1>13 DEF QuietStep
<1> QED BY <1>4, <1>14, Quiet

(* The path of the new link leads nowhere.                                 *)
LEMMA NamexBadInductive ==
    ASSUME FsIInv, NEW p \in Procs, namex_fail(p), call[p] = "link2"
    PROVE  FsIInv'
<1>1. /\ pc[p] = "namex" /\ put[p] = <<>> /\ Goto(p, "bad", NoInode, ip[p], <<dp[p]>>) /\ disk' = disk
      /\ ents' = ents /\ stray' = stray /\ Load({dp[p]}, Inodes) /\ Panics(dp[p], FALSE) /\ ref' = ref
      /\ lock' = lock /\ Forget(p) /\ fd' = fd /\ cwd' = cwd
    BY DEF namex_fail, InDir, Ready, cache, locals, ghosts, FsIInv, Types, Look
<1>2. /\ dp[p] \in Inums /\ Allocated(dp[p]) /\ ip[p] \in Inums /\ Allocated(ip[p]) /\ call[p] = "link2"
      /\ disk[ip[p]].type = "file"
    BY <1>1, Here DEF Local, Held, Kinds, Locked, HasDir, HasIno, Maybe, Labels, InCalls, SysCalls, InParent, Searching
<1>3. Rest(p) /\ call'[p] = NONE /\ path'[p] = <<>> /\ new'[p] = <<>>
  <2>1. fd' \in [Procs -> Maybe] /\ cwd' \in [Procs -> Inums] /\ \A q \in Procs \ {p} : fd'[q] = fd[q] /\ cwd'[q] = cwd[q]
      BY <1>1, <1>2, Here
  <2> QED BY <1>1, <2>1, Forgotten
<1>4. "bad" \in Labels /\ NoInode \in Maybe /\ ip[p] \in Maybe /\ <<dp[p]>> \in Seq(Inums)
    BY <1>1, <1>2, Here DEF Labels, HasDir, HasIno, Maybe
<1>5. pc'[p] = "bad" /\ dp'[p] = NoInode /\ ip'[p] = ip[p] /\ put'[p] = <<dp[p]>>
  <2>1. Goto(p, "bad", NoInode, ip[p], <<dp[p]>>) /\ Rest(p)
      BY <1>1, <1>3
  <2> QED BY <2>1, <1>4, Went
<1>6. \A j \in Inums : Change(p, "bad", NoInode, ip[p], <<dp[p]>>, j) = 0
  <2> SUFFICES ASSUME NEW j \in Inums PROVE Change(p, "bad", NoInode, ip[p], <<dp[p]>>, j) = 0
      OBVIOUS
  <2>1. Hold(<<dp[p]>>, j) = B(dp[p] = j)
      BY <1>2, Holds
  <2>2. fd'[p] = fd[p] /\ cwd'[p] = cwd[p] /\ j # NoInode
      BY <1>1, Here
  <2> QED BY <1>1, <1>2, <2>1, <2>2 DEF Change, B
<1>7. Local(p)' /\ Held(p)' /\ Kinds(p)' /\ Locked(p)'
  <2>1. Len(<<dp[p]>>) <= 2
      OBVIOUS
  <2>2. /\ fd'[p] = fd[p] /\ cwd'[p] = cwd[p]
      BY <1>1, <1>2, Here
  <2>3. Local(p)'
      BY <1>1, <1>2, <1>3, <1>5, <2>1, <2>2, Here, FsAssumption DEF Local, HasDir, HasIno, Searching, InParent, Labels, InCalls, SysCalls
  <2>4. Held(p)'
      BY <1>1, <1>2, <1>5, <2>2, Here DEF Held, Allocated, Maybe
  <2>5. Kinds(p)'
      BY <1>1, <1>2, <1>3, <1>5, <2>2, Here, FsAssumption DEF Kinds, InParent
  <2>6. Locked(p)'
      BY <1>1, <1>2, <1>5, <2>2, Here DEF Locked
  <2> QED BY <2>3, <2>4, <2>5, <2>6
<1>8. lock' \in [Inums -> Procs \cup {NONE}] /\ \A j \in Inums : lock'[j] = lock[j] \/ lock[j] \in {NONE, p}
    BY <1>1, <1>2, Here
<1>9. ref' \in [Inums -> Int] /\ \A j \in Inums : ref'[j] = ref[j] + Change(p, "bad", NoInode, ip[p], <<dp[p]>>, j) /\ ref'[j] >= ref[j]
    BY <1>1, <1>6, RefsSame
<1>10. \A j \in Inums : NoInode = j \/ ip[p] = j \/ (cwd'[p] = j /\ "bad" # "chdir_end") => Near(p, j) \/ \E e \in Inums, n \in Names : ents[e][n] = j
    BY <1>1, <1>2, Here DEF Near
<1>11. (Owe("bad", call'[p]) <=> Owe(pc[p], call[p])) /\ (Owe(pc[p], call[p]) => ip[p] = ip[p])
    BY <1>1, <1>2, <1>3, Here, FsAssumption DEF Owe
<1>12. panic' = FALSE
    BY <1>1, <1>2, NoPanic
<1>13. \E x \in Inums : (x = dp[p] \/ x = ip[p]) /\ Load({x}, Inodes)
    BY <1>1, <1>2
<1>14. QuietStep(p, "bad", NoInode, ip[p], <<dp[p]>>)
    BY <1>1, <1>2, <1>3, <1>7, <1>8, <1>9, <1>10, <1>11, <1>12, <1>13 DEF QuietStep
<1> QED BY <1>4, <1>14, Quiet

(* The parent of the last name is found.                                   *)
LEMMA NamexParentInductive ==
    ASSUME FsIInv, NEW p \in Procs, namex_parent(p)
    PROVE  FsIInv'
<1>1. /\ pc[p] = "namex" /\ put[p] = <<>> /\ Goto(p, call[p], dp[p], ip[p], <<>>) /\ disk' = disk
      /\ ents' = ents /\ stray' = stray /\ Load({dp[p]}, Inodes) /\ Panics(dp[p], FALSE) /\ ref' = ref
      /\ lock' = lock /\ fd' = fd /\ cwd' = cwd /\ call' = call /\ path' = path /\ new' = new
    BY DEF namex_parent, InDir, Ready, cache, locals, ghosts, FsIInv, Types, Look
<1>2. /\ dp[p] \in Inums /\ Allocated(dp[p]) /\ ip[p] \in Maybe
      /\ call[p] \in {"create", "mkdir", "unlink", "link2"} /\ path[p] # <<>> /\ disk[dp[p]].type = "dir"
    BY <1>1, Here DEF Local, Held, Kinds, Locked, HasDir, HasIno, Maybe, Labels, InCalls, SysCalls, InParent, Searching, namex_parent, InDir, nameiparent
<1>3. Rest(p)
    BY <1>1, <1>2, Here  DEF Rest
<1>4. call[p] \in Labels /\ dp[p] \in Maybe /\ ip[p] \in Maybe /\ <<>> \in Seq(Inums)
    BY <1>1, <1>2, Here DEF Labels, HasDir, HasIno, Maybe
<1>5. pc'[p] = call[p] /\ dp'[p] = dp[p] /\ ip'[p] = ip[p] /\ put'[p] = <<>>
  <2>1. Goto(p, call[p], dp[p], ip[p], <<>>) /\ Rest(p)
      BY <1>1, <1>3
  <2> QED BY <2>1, <1>4, Went
<1>6. \A j \in Inums : Change(p, call[p], dp[p], ip[p], <<>>, j) = 0
  <2> SUFFICES ASSUME NEW j \in Inums PROVE Change(p, call[p], dp[p], ip[p], <<>>, j) = 0
      OBVIOUS
  <2>1. Hold(<<>>, j) = 0
      BY <1>2, Holds
  <2>2. fd'[p] = fd[p] /\ cwd'[p] = cwd[p] /\ j # NoInode
      BY <1>1, Here
  <2> QED BY <1>1, <1>2, <2>1, <2>2 DEF Change, B
<1>7. Local(p)' /\ Held(p)' /\ Kinds(p)' /\ Locked(p)'
  <2>1. Len(<<>>) <= 2
      OBVIOUS
  <2>2. /\ fd'[p] = fd[p] /\ cwd'[p] = cwd[p] /\ call'[p] = call[p] /\ path'[p] = path[p] /\ new'[p] = new[p]
      BY <1>1, <1>2, Here
  <2>3. Local(p)'
      BY <1>1, <1>2, <1>3, <1>5, <2>1, <2>2, Here, FsAssumption DEF Local, HasDir, HasIno, Searching, InParent, Labels, InCalls, SysCalls
  <2>4. Held(p)'
      BY <1>1, <1>2, <1>5, <2>2, Here DEF Held, Allocated, Maybe
  <2>5. Kinds(p)'
      BY <1>1, <1>2, <1>3, <1>5, <2>2, Here, FsAssumption DEF Kinds, InParent
  <2>6. Locked(p)'
      BY <1>1, <1>2, <1>5, <2>2, Here DEF Locked
  <2> QED BY <2>3, <2>4, <2>5, <2>6
<1>8. lock' \in [Inums -> Procs \cup {NONE}] /\ \A j \in Inums : lock'[j] = lock[j] \/ lock[j] \in {NONE, p}
    BY <1>1, <1>2, Here
<1>9. ref' \in [Inums -> Int] /\ \A j \in Inums : ref'[j] = ref[j] + Change(p, call[p], dp[p], ip[p], <<>>, j) /\ ref'[j] >= ref[j]
    BY <1>1, <1>6, RefsSame
<1>10. \A j \in Inums : dp[p] = j \/ ip[p] = j \/ (cwd'[p] = j /\ call[p] # "chdir_end") => Near(p, j) \/ \E e \in Inums, n \in Names : ents[e][n] = j
    BY <1>1, <1>2, Here DEF Near
<1>11. (Owe(call[p], call'[p]) <=> Owe(pc[p], call[p])) /\ (Owe(pc[p], call[p]) => ip[p] = ip[p])
    BY <1>1, <1>2, <1>3, Here, FsAssumption DEF Owe
<1>12. panic' = FALSE
    BY <1>1, <1>2, NoPanic
<1>13. \E x \in Inums : (x = dp[p] \/ x = ip[p]) /\ Load({x}, Inodes)
    BY <1>1, <1>2
<1>14. QuietStep(p, call[p], dp[p], ip[p], <<>>)
    BY <1>1, <1>2, <1>3, <1>7, <1>8, <1>9, <1>10, <1>11, <1>12, <1>13 DEF QuietStep
<1> QED BY <1>4, <1>14, Quiet

(* One directory further along the path.                                   *)
LEMMA NamexNextInductive ==
    ASSUME FsIInv, NEW p \in Procs, namex_next(p), Len(path[p]) # 1
    PROVE  FsIInv'
<1>1. /\ pc[p] = "namex" /\ put[p] = <<>> /\ Goto(p, "namex", found(p), ip[p], <<dp[p]>>) /\ disk' = disk
      /\ ents' = ents /\ stray' = stray /\ Load({dp[p]}, Inodes) /\ Panics(dp[p], FALSE) /\ idup(found(p))
      /\ lock' = lock /\ fd' = fd /\ cwd' = cwd /\ call' = call /\ path' = [path EXCEPT ![p] = Tail(path[p])]
      /\ new' = new
    BY DEF namex_next, iget, InDir, Ready, cache, locals, ghosts, FsIInv, Types, Look
<1>2. /\ dp[p] \in Inums /\ Allocated(dp[p]) /\ ip[p] \in Maybe /\ Len(path[p]) # 1 /\ call[p] \in InCalls
      /\ found(p) \in Inums /\ Allocated(found(p)) /\ \E e \in Inums, n \in Names : ents[e][n] = found(p)
      /\ Tail(path[p]) \in Seq(Names) /\ Len(Tail(path[p])) = Len(path[p]) - 1
  <2>1. /\ dp[p] \in Inums /\ Allocated(dp[p]) /\ ip[p] \in Maybe /\ Len(path[p]) # 1 /\ call[p] \in InCalls
        /\ found(p) # NoInode /\ path[p] # <<>>
      BY <1>1, Here DEF Local, Held, Kinds, Locked, HasDir, HasIno, Maybe, Labels, InCalls, SysCalls, InParent, Searching, namex_next, Descends, nameiparent
  <2>2. Tail(path[p]) \in Seq(Names) /\ Len(Tail(path[p])) = Len(path[p]) - 1
      BY <2>1, Here
  <2> QED BY <2>1, <2>2, FoundInode
<1>3. Rest(p)
    BY <1>1, <1>2, Here  DEF Rest
<1>4. "namex" \in Labels /\ found(p) \in Maybe /\ ip[p] \in Maybe /\ <<dp[p]>> \in Seq(Inums)
    BY <1>1, <1>2, Here DEF Labels, HasDir, HasIno, Maybe
<1>5. pc'[p] = "namex" /\ dp'[p] = found(p) /\ ip'[p] = ip[p] /\ put'[p] = <<dp[p]>>
  <2>1. Goto(p, "namex", found(p), ip[p], <<dp[p]>>) /\ Rest(p)
      BY <1>1, <1>3
  <2> QED BY <2>1, <1>4, Went
<1>6. \A j \in Inums : Change(p, "namex", found(p), ip[p], <<dp[p]>>, j) = B(found(p) = j)
  <2> SUFFICES ASSUME NEW j \in Inums PROVE Change(p, "namex", found(p), ip[p], <<dp[p]>>, j) = B(found(p) = j)
      OBVIOUS
  <2>1. Hold(<<dp[p]>>, j) = B(dp[p] = j)
      BY <1>2, Holds
  <2>2. fd'[p] = fd[p] /\ cwd'[p] = cwd[p] /\ j # NoInode
      BY <1>1, Here
  <2> QED BY <1>1, <1>2, <2>1, <2>2 DEF Change, B
<1>7. Local(p)' /\ Held(p)' /\ Kinds(p)' /\ Locked(p)'
  <2>1. Len(<<dp[p]>>) <= 2
      OBVIOUS
  <2>2. /\ fd'[p] = fd[p] /\ cwd'[p] = cwd[p] /\ call'[p] = call[p] /\ new'[p] = new[p]
        /\ path'[p] = Tail(path[p]) /\ Len(path'[p]) # 0
      BY <1>1, <1>2, Here
  <2>3. Local(p)'
      BY <1>1, <1>2, <1>3, <1>5, <2>1, <2>2, Here, FsAssumption DEF Local, HasDir, HasIno, Searching, InParent, Labels, InCalls, SysCalls
  <2>4. Held(p)'
      BY <1>1, <1>2, <1>5, <2>2, Here DEF Held, Allocated, Maybe
  <2>5. Kinds(p)'
      BY <1>1, <1>2, <1>3, <1>5, <2>2, Here, FsAssumption DEF Kinds, InParent
  <2>6. Locked(p)'
      BY <1>1, <1>2, <1>5, <2>2, Here DEF Locked, found, name
  <2> QED BY <2>3, <2>4, <2>5, <2>6
<1>8. lock' \in [Inums -> Procs \cup {NONE}] /\ \A j \in Inums : lock'[j] = lock[j] \/ lock[j] \in {NONE, p}
    BY <1>1, <1>2, Here
<1>9. ref' \in [Inums -> Int] /\ \A j \in Inums : ref'[j] = ref[j] + Change(p, "namex", found(p), ip[p], <<dp[p]>>, j) /\ ref'[j] >= ref[j]
  <2>1. idup(found(p)) /\ found(p) \in Inums
      BY <1>1, <1>2, Here
  <2>2. ref' \in [Inums -> Int] /\ \A j \in Inums : ref'[j] = ref[j] + B(found(p) = j) /\ ref'[j] >= ref[j]
      BY <2>1, RefsGot
  <2> QED BY <2>2, <1>6
<1>10. \A j \in Inums : found(p) = j \/ ip[p] = j \/ (cwd'[p] = j /\ "namex" # "chdir_end") => Near(p, j) \/ \E e \in Inums, n \in Names : ents[e][n] = j
    BY <1>1, <1>2, Here DEF Near
<1>11. (Owe("namex", call'[p]) <=> Owe(pc[p], call[p])) /\ (Owe(pc[p], call[p]) => ip[p] = ip[p])
    BY <1>1, <1>2, <1>3, Here, FsAssumption DEF Owe
<1>12. panic' = FALSE
    BY <1>1, <1>2, NoPanic
<1>13. \E x \in Inums : (x = dp[p] \/ x = ip[p]) /\ Load({x}, Inodes)
    BY <1>1, <1>2
<1>14. QuietStep(p, "namex", found(p), ip[p], <<dp[p]>>)
    BY <1>1, <1>2, <1>3, <1>7, <1>8, <1>9, <1>10, <1>11, <1>12, <1>13 DEF QuietStep
<1> QED BY <1>4, <1>14, Quiet

(* The end of the path.                                                    *)
LEMMA NamexLastInductive ==
    ASSUME FsIInv, NEW p \in Procs, namex_next(p), Len(path[p]) = 1
    PROVE  FsIInv'
<1>1. /\ pc[p] = "namex" /\ put[p] = <<>> /\ Goto(p, call[p], NoInode, found(p), <<dp[p]>>) /\ disk' = disk
      /\ ents' = ents /\ stray' = stray /\ Load({dp[p]}, Inodes) /\ Panics(dp[p], FALSE) /\ idup(found(p))
      /\ lock' = lock /\ fd' = fd /\ cwd' = cwd /\ call' = call /\ path' = [path EXCEPT ![p] = Tail(path[p])]
      /\ new' = new
    BY DEF namex_next, iget, InDir, Ready, cache, locals, ghosts, FsIInv, Types, Look
<1>2. /\ dp[p] \in Inums /\ Allocated(dp[p]) /\ ip[p] = NoInode /\ call[p] \in {"open", "link", "chdir"}
      /\ found(p) \in Inums /\ Allocated(found(p)) /\ \E e \in Inums, n \in Names : ents[e][n] = found(p)
      /\ Tail(path[p]) \in Seq(Names) /\ Len(Tail(path[p])) = Len(path[p]) - 1
  <2>1. /\ dp[p] \in Inums /\ Allocated(dp[p]) /\ ip[p] = NoInode /\ call[p] \in {"open", "link", "chdir"}
        /\ found(p) # NoInode /\ path[p] # <<>>
      BY <1>1, Here DEF Local, Held, Kinds, Locked, HasDir, HasIno, Maybe, Labels, InCalls, SysCalls, InParent, Searching, namex_next, Descends, nameiparent
  <2>2. Tail(path[p]) \in Seq(Names) /\ Len(Tail(path[p])) = Len(path[p]) - 1
      BY <2>1, Here
  <2> QED BY <2>1, <2>2, FoundInode
<1>3. Rest(p)
    BY <1>1, <1>2, Here  DEF Rest
<1>4. call[p] \in Labels /\ NoInode \in Maybe /\ found(p) \in Maybe /\ <<dp[p]>> \in Seq(Inums)
    BY <1>1, <1>2, Here DEF Labels, HasDir, HasIno, Maybe
<1>5. pc'[p] = call[p] /\ dp'[p] = NoInode /\ ip'[p] = found(p) /\ put'[p] = <<dp[p]>>
  <2>1. Goto(p, call[p], NoInode, found(p), <<dp[p]>>) /\ Rest(p)
      BY <1>1, <1>3
  <2> QED BY <2>1, <1>4, Went
<1>6. \A j \in Inums : Change(p, call[p], NoInode, found(p), <<dp[p]>>, j) = B(found(p) = j)
  <2> SUFFICES ASSUME NEW j \in Inums PROVE Change(p, call[p], NoInode, found(p), <<dp[p]>>, j) = B(found(p) = j)
      OBVIOUS
  <2>1. Hold(<<dp[p]>>, j) = B(dp[p] = j)
      BY <1>2, Holds
  <2>2. fd'[p] = fd[p] /\ cwd'[p] = cwd[p] /\ j # NoInode
      BY <1>1, Here
  <2> QED BY <1>1, <1>2, <2>1, <2>2 DEF Change, B
<1>7. Local(p)' /\ Held(p)' /\ Kinds(p)' /\ Locked(p)'
  <2>1. Len(<<dp[p]>>) <= 2
      OBVIOUS
  <2>2. /\ fd'[p] = fd[p] /\ cwd'[p] = cwd[p] /\ call'[p] = call[p] /\ new'[p] = new[p]
        /\ path'[p] = Tail(path[p])
      BY <1>1, <1>2, Here
  <2>3. Local(p)'
      BY <1>1, <1>2, <1>3, <1>5, <2>1, <2>2, Here, FsAssumption DEF Local, HasDir, HasIno, Searching, InParent, Labels, InCalls, SysCalls
  <2>4. Held(p)'
      BY <1>1, <1>2, <1>5, <2>2, Here DEF Held, Allocated, Maybe
  <2>5. Kinds(p)'
      BY <1>1, <1>2, <1>3, <1>5, <2>2, Here, FsAssumption DEF Kinds, InParent
  <2>6. Locked(p)'
      BY <1>1, <1>2, <1>5, <2>2, Here DEF Locked, found, name
  <2> QED BY <2>3, <2>4, <2>5, <2>6
<1>8. lock' \in [Inums -> Procs \cup {NONE}] /\ \A j \in Inums : lock'[j] = lock[j] \/ lock[j] \in {NONE, p}
    BY <1>1, <1>2, Here
<1>9. ref' \in [Inums -> Int] /\ \A j \in Inums : ref'[j] = ref[j] + Change(p, call[p], NoInode, found(p), <<dp[p]>>, j) /\ ref'[j] >= ref[j]
  <2>1. idup(found(p)) /\ found(p) \in Inums
      BY <1>1, <1>2, Here
  <2>2. ref' \in [Inums -> Int] /\ \A j \in Inums : ref'[j] = ref[j] + B(found(p) = j) /\ ref'[j] >= ref[j]
      BY <2>1, RefsGot
  <2> QED BY <2>2, <1>6
<1>10. \A j \in Inums : NoInode = j \/ found(p) = j \/ (cwd'[p] = j /\ call[p] # "chdir_end") => Near(p, j) \/ \E e \in Inums, n \in Names : ents[e][n] = j
    BY <1>1, <1>2, Here DEF Near
<1>11. ~Owe(call[p], call'[p]) /\ ~Owe(pc[p], call[p])
    BY <1>1, <1>2, <1>3, Here, FsAssumption DEF Owe
<1>12. panic' = FALSE
    BY <1>1, <1>2, NoPanic
<1>13. \E x \in Inums : (x = dp[p] \/ x = ip[p]) /\ Load({x}, Inodes)
    BY <1>1, <1>2
<1>14. QuietStep(p, call[p], NoInode, found(p), <<dp[p]>>)
    BY <1>1, <1>2, <1>3, <1>7, <1>8, <1>9, <1>10, <1>11, <1>12, <1>13 DEF QuietStep
<1> QED BY <1>4, <1>14, Quiet

(* A system call starts at the current directory.                          *)
LEMMA SystemCallInductive ==
    ASSUME FsIInv, NEW p \in Procs, NEW c \in DOMAIN Paths, NEW s \in Paths[c], NEW t \in Paths[c], system_call(p, c, s, t)
    PROVE  FsIInv'
<1>1. /\ pc[p] = "user" /\ put[p] = <<>> /\ Goto(p, "namex", cwd[p], NoInode, <<>>) /\ disk' = disk
      /\ ents' = ents /\ stray' = stray /\ mem' = mem /\ valid' = valid /\ panic' = FALSE /\ idup(cwd[p])
      /\ lock' = lock /\ fd' = fd /\ cwd' = cwd /\ call' = [call EXCEPT ![p] = c]
      /\ path' = [path EXCEPT ![p] = s] /\ new' = [new EXCEPT ![p] = IF c = "link" THEN t ELSE <<>>]
    BY DEF system_call, Start, Ready, cache, locals, ghosts, FsIInv, Types
<1>2. /\ dp[p] = NoInode /\ ip[p] = NoInode /\ call[p] # "link2" /\ c \in SysCalls /\ s \in Seq(Names)
      /\ t \in Seq(Names) /\ s # <<>> /\ t # <<>> /\ Allocated(cwd[p]) /\ <<>> \in Seq(Names) /\ c # "link2"
      /\ c \in {"open", "create"} => fd[p] = NoInode
  <2>1. /\ dp[p] = NoInode /\ ip[p] = NoInode /\ call[p] # "link2" /\ Allocated(cwd[p])
      BY <1>1, Here DEF Local, Held, HasDir, HasIno
  <2>2. c \in SysCalls /\ s \in Seq(Names) /\ t \in Seq(Names) /\ s # <<>> /\ t # <<>>
      BY FsAssumption
  <2>3. c \in {"open", "create"} => fd[p] = NoInode
      BY DEF system_call
  <2>4. <<>> \in Seq(Names) /\ c # "link2"
      BY <2>2 DEF SysCalls
  <2> QED BY <2>1, <2>2, <2>3, <2>4
<1>3. Rest(p)
    BY <1>1, <1>2, Here  DEF Rest, InCalls
<1>4. "namex" \in Labels /\ cwd[p] \in Maybe /\ NoInode \in Maybe /\ <<>> \in Seq(Inums)
    BY <1>1, <1>2, Here DEF Labels, HasDir, HasIno, Maybe
<1>5. pc'[p] = "namex" /\ dp'[p] = cwd[p] /\ ip'[p] = NoInode /\ put'[p] = <<>>
  <2>1. Goto(p, "namex", cwd[p], NoInode, <<>>) /\ Rest(p)
      BY <1>1, <1>3
  <2> QED BY <2>1, <1>4, Went
<1>6. \A j \in Inums : Change(p, "namex", cwd[p], NoInode, <<>>, j) = B(cwd[p] = j)
  <2> SUFFICES ASSUME NEW j \in Inums PROVE Change(p, "namex", cwd[p], NoInode, <<>>, j) = B(cwd[p] = j)
      OBVIOUS
  <2>1. Hold(<<>>, j) = 0
      BY <1>2, Holds
  <2>2. fd'[p] = fd[p] /\ cwd'[p] = cwd[p] /\ j # NoInode
      BY <1>1, Here
  <2> QED BY <1>1, <1>2, <2>1, <2>2 DEF Change, B
<1>7. Local(p)' /\ Held(p)' /\ Kinds(p)' /\ Locked(p)'
  <2>1. Len(<<>>) <= 2
      OBVIOUS
  <2>2. /\ fd'[p] = fd[p] /\ cwd'[p] = cwd[p] /\ call'[p] = c /\ path'[p] = s
        /\ new'[p] = IF c = "link" THEN t ELSE <<>>
      BY <1>1, <1>2, Here
  <2>3. Local(p)'
      BY <1>1, <1>2, <1>3, <1>5, <2>1, <2>2, Here, FsAssumption DEF Local, HasDir, HasIno, Searching, InParent, Labels, InCalls, SysCalls
  <2>4. Held(p)'
      BY <1>1, <1>2, <1>5, <2>2, Here DEF Held, Allocated, Maybe
  <2>5. Kinds(p)'
      BY <1>1, <1>2, <1>3, <1>5, <2>2, Here, FsAssumption DEF Kinds, InParent
  <2>6. Locked(p)'
      BY <1>1, <1>2, <1>5, <2>2, Here DEF Locked
  <2> QED BY <2>3, <2>4, <2>5, <2>6
<1>8. lock' \in [Inums -> Procs \cup {NONE}] /\ \A j \in Inums : lock'[j] = lock[j] \/ lock[j] \in {NONE, p}
    BY <1>1, <1>2, Here
<1>9. ref' \in [Inums -> Int] /\ \A j \in Inums : ref'[j] = ref[j] + Change(p, "namex", cwd[p], NoInode, <<>>, j) /\ ref'[j] >= ref[j]
  <2>1. idup(cwd[p]) /\ cwd[p] \in Inums
      BY <1>1, <1>2, Here
  <2>2. ref' \in [Inums -> Int] /\ \A j \in Inums : ref'[j] = ref[j] + B(cwd[p] = j) /\ ref'[j] >= ref[j]
      BY <2>1, RefsGot
  <2> QED BY <2>2, <1>6
<1>10. \A j \in Inums : cwd[p] = j \/ NoInode = j \/ (cwd'[p] = j /\ "namex" # "chdir_end") => Near(p, j) \/ \E e \in Inums, n \in Names : ents[e][n] = j
    BY <1>1, <1>2, Here DEF Near
<1>11. ~Owe("namex", call'[p]) /\ ~Owe(pc[p], call[p])
    BY <1>1, <1>2, <1>3, Here, FsAssumption DEF Owe
<1>14. QuietStep(p, "namex", cwd[p], NoInode, <<>>)
    BY <1>1, <1>2, <1>3, <1>7, <1>8, <1>9, <1>10, <1>11 DEF QuietStep
<1> QED BY <1>4, <1>14, Quiet

(* unlink refuses a directory with entries.                                *)
LEMMA UnlinkFullInductive ==
    ASSUME FsIInv, NEW p \in Procs, unlink_full(p)
    PROVE  FsIInv'
<1>1. /\ pc[p] = "unlink_ip" /\ put[p] = <<>> /\ Goto(p, "unlock_dp", dp[p], NoInode, <<ip[p]>>)
      /\ disk' = disk /\ ents' = ents /\ stray' = stray /\ Load({ip[p]}, Inodes)
      /\ Panics(ip[p], In(ip[p]).nlink < 1) /\ ref' = ref /\ lock' = lock /\ Forget(p) /\ fd' = fd
      /\ cwd' = cwd
    BY DEF unlink_full, At, Ready, cache, locals, ghosts, FsIInv, Types, Look
<1>2. /\ dp[p] \in Inums /\ ip[p] \in Inums /\ Allocated(dp[p]) /\ Allocated(ip[p]) /\ call[p] # "link2"
      /\ lock[dp[p]] = p /\ ~(In(ip[p]).nlink < 1)
  <2>1. /\ dp[p] \in Inums /\ ip[p] \in Inums /\ Allocated(dp[p]) /\ Allocated(ip[p]) /\ call[p] # "link2"
        /\ lock[dp[p]] = p /\ ents[dp[p]][path[p][1]] = ip[p] /\ path[p] # <<>>
      BY <1>1, Here DEF Local, Held, Locked, HasDir, HasIno, Maybe, Searching, InParent
  <2>2. path[p][1] \in Names
      BY <2>1, FoundInode DEF name
  <2>3. disk[ip[p]].nlink >= 1 /\ In(ip[p]) = disk[ip[p]]
      BY <2>1, <2>2, NamedIsLinked, Here
  <2>4. disk[ip[p]].nlink \in Nat
      BY <2>1, CountParts
  <2> QED BY <2>1, <2>3, <2>4
<1>3. Rest(p) /\ call'[p] = NONE /\ path'[p] = <<>> /\ new'[p] = <<>>
  <2>1. fd' \in [Procs -> Maybe] /\ cwd' \in [Procs -> Inums] /\ \A q \in Procs \ {p} : fd'[q] = fd[q] /\ cwd'[q] = cwd[q]
      BY <1>1, <1>2, Here
  <2> QED BY <1>1, <2>1, Forgotten
<1>4. "unlock_dp" \in Labels /\ dp[p] \in Maybe /\ NoInode \in Maybe /\ <<ip[p]>> \in Seq(Inums)
    BY <1>1, <1>2, Here DEF Labels, HasDir, HasIno, Maybe
<1>5. pc'[p] = "unlock_dp" /\ dp'[p] = dp[p] /\ ip'[p] = NoInode /\ put'[p] = <<ip[p]>>
  <2>1. Goto(p, "unlock_dp", dp[p], NoInode, <<ip[p]>>) /\ Rest(p)
      BY <1>1, <1>3
  <2> QED BY <2>1, <1>4, Went
<1>6. \A j \in Inums : Change(p, "unlock_dp", dp[p], NoInode, <<ip[p]>>, j) = 0
  <2> SUFFICES ASSUME NEW j \in Inums PROVE Change(p, "unlock_dp", dp[p], NoInode, <<ip[p]>>, j) = 0
      OBVIOUS
  <2>1. Hold(<<ip[p]>>, j) = B(ip[p] = j)
      BY <1>2, Holds
  <2>2. fd'[p] = fd[p] /\ cwd'[p] = cwd[p] /\ j # NoInode
      BY <1>1, Here
  <2> QED BY <1>1, <1>2, <2>1, <2>2 DEF Change, B
<1>7. Local(p)' /\ Held(p)' /\ Kinds(p)' /\ Locked(p)'
  <2>1. Len(<<ip[p]>>) <= 2
      OBVIOUS
  <2>2. /\ fd'[p] = fd[p] /\ cwd'[p] = cwd[p]
      BY <1>1, <1>2, Here
  <2>3. Local(p)'
      BY <1>1, <1>2, <1>3, <1>5, <2>1, <2>2, Here, FsAssumption DEF Local, HasDir, HasIno, Searching, InParent, Labels, InCalls, SysCalls
  <2>4. Held(p)'
      BY <1>1, <1>2, <1>5, <2>2, Here DEF Held, Allocated, Maybe
  <2>5. Kinds(p)'
      BY <1>1, <1>2, <1>3, <1>5, <2>2, Here, FsAssumption DEF Kinds, InParent
  <2>6. Locked(p)'
      BY <1>1, <1>2, <1>5, <2>2, Here DEF Locked
  <2> QED BY <2>3, <2>4, <2>5, <2>6
<1>8. lock' \in [Inums -> Procs \cup {NONE}] /\ \A j \in Inums : lock'[j] = lock[j] \/ lock[j] \in {NONE, p}
    BY <1>1, <1>2, Here
<1>9. ref' \in [Inums -> Int] /\ \A j \in Inums : ref'[j] = ref[j] + Change(p, "unlock_dp", dp[p], NoInode, <<ip[p]>>, j) /\ ref'[j] >= ref[j]
    BY <1>1, <1>6, RefsSame
<1>10. \A j \in Inums : dp[p] = j \/ NoInode = j \/ (cwd'[p] = j /\ "unlock_dp" # "chdir_end") => Near(p, j) \/ \E e \in Inums, n \in Names : ents[e][n] = j
    BY <1>1, <1>2, Here DEF Near
<1>11. ~Owe("unlock_dp", call'[p]) /\ ~Owe(pc[p], call[p])
    BY <1>1, <1>2, <1>3, Here, FsAssumption DEF Owe
<1>12. panic' = FALSE
    BY <1>1, <1>2, Here DEF Panics, Allocated
<1>13. \E x \in Inums : (x = dp[p] \/ x = ip[p]) /\ Load({x}, Inodes)
    BY <1>1, <1>2
<1>14. QuietStep(p, "unlock_dp", dp[p], NoInode, <<ip[p]>>)
    BY <1>1, <1>2, <1>3, <1>7, <1>8, <1>9, <1>10, <1>11, <1>12, <1>13 DEF QuietStep
<1> QED BY <1>4, <1>14, Quiet

----------------------------------------------------------------------------
(* Steps that write inodes through the cache.                              *)
Dinodes == [type : {"free", "dir", "file"}, nlink : Nat]

LEMMA Written ==
    ASSUME FsIInv, NEW S \in SUBSET Inums, NEW f, iupdate(S, f),
           \A x \in S : f[x] \in Dinodes /\ f[x].type = disk[x].type /\ Allocated(x) /\ ref'[x] > 0,
           \A i \in Inums : ref[i] > 0 => ref'[i] > 0
    PROVE  /\ Coherent' /\ disk' \in [Inums -> Dinodes] /\ mem' \in [Inums -> Dinodes] /\ valid' \in [Inums -> BOOLEAN]
           /\ \A i \in Inums : disk'[i] = IF i \in S THEN f[i] ELSE disk[i]
           /\ \A i \in Inums : disk'[i].type = disk[i].type
<1>1. Coherent /\ disk \in [Inums -> Dinodes] /\ mem \in [Inums -> Dinodes]
    BY DEF FsIInv, Types, TypeOK, Dinodes
<1>2. /\ mem' = [i \in Inums |-> IF i \in S THEN f[i] ELSE mem[i]]
      /\ disk' = [i \in Inums |-> IF i \in S THEN f[i] ELSE disk[i]]
      /\ valid' = [i \in Inums |-> valid[i] \/ i \in S]
    BY DEF iupdate, Load
<1>3. disk' \in [Inums -> Dinodes] /\ mem' \in [Inums -> Dinodes]
    BY <1>1, <1>2
<1>4. valid' \in [Inums -> BOOLEAN]
    BY <1>2
<1>5. \A i \in Inums : disk'[i].type = disk[i].type
    BY <1>2
<1>6. Coherent'
  <2> SUFFICES ASSUME NEW i \in Inums, valid'[i] PROVE mem'[i] = disk'[i] /\ ref'[i] > 0 /\ disk'[i].type # "free"
      BY DEF Coherent, Allocated
  <2>1. CASE i \in S
      BY <2>1, <1>2, <1>5 DEF Allocated
  <2>2. CASE i \notin S
    <3>1. valid[i]
        BY <2>2, <1>2
    <3>2. mem[i] = disk[i] /\ ref[i] > 0 /\ disk[i].type # "free"
        BY <3>1, <1>1 DEF Coherent, Allocated
    <3> QED BY <2>2, <3>2, <1>2
  <2> QED BY <2>1, <2>2
<1> QED BY <1>2, <1>3, <1>4, <1>5, <1>6

(* What Linked computes.                                                   *)
LEMMA LinkedIs ==
    ASSUME FsIInv, NEW x \in Inums, NEW n \in Int, disk[x].nlink + n \in Nat
    PROVE  \A i \in Inums : /\ Linked(x, n)[i] \in Dinodes /\ Linked(x, n)[i].type = disk[i].type
                            /\ Linked(x, n)[i].nlink = disk[i].nlink + (IF i = x THEN n ELSE 0)
<1>1. disk \in [Inums -> Dinodes] /\ \A i \in Inums : In(i) = disk[i]
    BY InIsDisk DEF FsIInv, Types, TypeOK, Dinodes
<1>2. Inodes = disk
    BY <1>1 DEF Inodes
<1>3. Linked(x, n) = [disk EXCEPT ![x].nlink = @ + n]
    BY <1>2 DEF Linked
<1> SUFFICES ASSUME NEW i \in Inums
             PROVE  /\ Linked(x, n)[i] \in Dinodes /\ Linked(x, n)[i].type = disk[i].type
                    /\ Linked(x, n)[i].nlink = disk[i].nlink + (IF i = x THEN n ELSE 0)
    OBVIOUS
<1>4. disk[i] \in Dinodes /\ disk[i].nlink \in Nat
    BY <1>1 DEF Dinodes
<1>5. CASE i = x
  <2>1. Linked(x, n)[i] = [disk[i] EXCEPT !.nlink = @ + n]
      BY <1>1, <1>3, <1>5
  <2> QED BY <2>1, <1>4, <1>5 DEF Dinodes
<1>6. CASE i # x
  <2>1. Linked(x, n)[i] = disk[i]
      BY <1>1, <1>3, <1>6
  <2> QED BY <2>1, <1>4, <1>6
<1> QED BY <1>5, <1>6

(* Calls that come to owe a name, or pay it.                               *)
LEMMA OwingMoved ==
    ASSUME NEW p \in Procs, Others(p), NEW j \in Inums
    PROVE  /\ Cardinality(Owing(j)) \in Nat /\ Cardinality(Owing(j)') \in Nat
           /\ Cardinality(Owing(j)') = Cardinality(Owing(j)) + B(ip'[p] = j /\ Owe(pc'[p], call'[p]))
                                                             - B(ip[p] = j /\ Owe(pc[p], call[p]))
<1>1. Owing(j) \in SUBSET Procs /\ Owing(j)' \in SUBSET Procs
    BY DEF Owing
<1>2. \A q \in Procs \ {p} : q \in Owing(j) <=> q \in Owing(j)'
    BY DEF Owing, Others
<1>3. /\ Cardinality(Owing(j)) \in Nat /\ Cardinality(Owing(j)') \in Nat
      /\ Cardinality(Owing(j)') = Cardinality(Owing(j)) + B(p \in Owing(j)') - B(p \in Owing(j))
    BY <1>1, <1>2, OneDiffers
<1>4. p \in Owing(j) <=> (ip[p] = j /\ Owe(pc[p], call[p]))
    BY DEF Owing, Owe
<1>5. p \in Owing(j)' <=> (ip'[p] = j /\ Owe(pc'[p], call'[p]))
    BY DEF Owing, Owe
<1> QED BY <1>3, <1>4, <1>5 DEF B

(* Links is kept when every count changes as what it counts does.          *)
LEMMA LinksMoved ==
    ASSUME FsIInv, stray => stray',
           \A j \in Inums : Counted(j)' \in Int /\ disk'[j].nlink = disk[j].nlink + Counted(j)' - Counted(j)
    PROVE  Links'
<1> SUFFICES ASSUME NEW j \in Inums PROVE disk'[j].nlink >= Counted(j)' /\ (~stray' => disk'[j].nlink = Counted(j)')
    BY DEF Links
<1>1. disk[j].nlink \in Nat /\ disk[j].nlink >= Counted(j) /\ (~stray => disk[j].nlink = Counted(j))
    BY CountParts
<1>2. Counted(j) \in Int
    BY CountParts DEF Counted
<1> QED BY <1>1, <1>2

(* The same names and kinds.                                               *)
LEMMA NamesKept ==
    ASSUME FsIInv, ents' = ents, stray' = stray, NEW p \in Procs, Others(p),
           \A i \in Inums : disk'[i].type = disk[i].type,
           \A j \in Inums : disk'[j].nlink = disk[j].nlink + B(ip'[p] = j /\ Owe(pc'[p], call'[p]))
                                                           - B(ip[p] = j /\ Owe(pc[p], call[p]))
    PROVE  Tree' /\ Links' /\ Rooted'
<1>1. Empty' = Empty /\ ents \in [Inums -> [Names -> Maybe]] /\ Tree /\ Rooted
    BY DEF Empty, FsIInv, Types, TypeOK, Maybe
<1>2. Tree'
  <2> SUFFICES ASSUME NEW d \in Inums
               PROVE  /\ disk'[d].type # "dir" => ents[d] = Empty
                      /\ \A n \in Names : ents[d][n] # NoInode => disk'[ents[d][n]].type # "free" /\ ents[d][n] # d
      BY <1>1, FsAssumption DEF Tree, Allocated
  <2> QED BY <1>1 DEF Tree, Allocated, Maybe
<1>3. \A i \in Inums : Entries(i)' = Entries(i)
    BY DEF Entries
<1>4. \A i \in Inums : Subdirs(i)' = Subdirs(i)
    BY <1>1 DEF Subdirs, Maybe
<1>5. Rooted'
    BY <1>1, <1>3 DEF Rooted
<1>6. ASSUME NEW j \in Inums PROVE Counted(j)' \in Int /\ disk'[j].nlink = disk[j].nlink + Counted(j)' - Counted(j)
  <2>1. Cardinality(Owing(j)') = Cardinality(Owing(j)) + B(ip'[p] = j /\ Owe(pc'[p], call'[p]))
                                                             - B(ip[p] = j /\ Owe(pc[p], call[p]))
      BY OwingMoved
  <2>2. Counted(j)' = Cardinality(Entries(j)) + Cardinality(Subdirs(j)) + Cardinality(Owing(j)') + (IF j = ROOTINO THEN 1 ELSE 0)
      BY <1>3, <1>4 DEF Counted
  <2>3. Counted(j) = Cardinality(Entries(j)) + Cardinality(Subdirs(j)) + Cardinality(Owing(j)) + (IF j = ROOTINO THEN 1 ELSE 0)
      BY DEF Counted
  <2>4. Cardinality(Entries(j)) \in Nat /\ Cardinality(Subdirs(j)) \in Nat /\ Cardinality(Owing(j)) \in Nat /\ disk[j].nlink \in Nat
      BY CountParts
  <2>5. disk'[j].nlink = disk[j].nlink + B(ip'[p] = j /\ Owe(pc'[p], call'[p])) - B(ip[p] = j /\ Owe(pc[p], call[p]))
      OBVIOUS
  <2> QED BY ONLY <2>1, <2>2, <2>3, <2>4, <2>5 DEF B
<1>7. Links'
    BY <1>6, LinksMoved
<1> QED BY <1>2, <1>5, <1>7

IsDir(i) == i # NoInode /\ disk[i].type = "dir"

(* One entry of directory d changes, and no inode's kind.                  *)
EntrySet(d, n, y) == ents' = [ents EXCEPT ![d][n] = y] /\ \A i \in Inums : disk'[i].type = disk[i].type

LEMMA EntryMoved ==
    ASSUME FsIInv, NEW d \in Inums, NEW n \in Names, NEW y \in Maybe, EntrySet(d, n, y), NEW j \in Inums
    PROVE  /\ Cardinality(Entries(j)') = Cardinality(Entries(j)) + B(y = j) - B(ents[d][n] = j)
           /\ Cardinality(Subdirs(j)') = Cardinality(Subdirs(j)) + (IF j = d THEN B(IsDir(y)) - B(IsDir(ents[d][n])) ELSE 0)
<1> USE DEF EntrySet
<1>1. ents \in [Inums -> [Names -> Maybe]]
    BY DEF FsIInv, Types, TypeOK, Maybe
<1>2. ASSUME NEW e \in Inums, NEW m \in Names
      PROVE  ents'[e][m] = IF e = d /\ m = n THEN y ELSE ents[e][m]
    BY <1>1
<1>3. /\ IsFiniteSet(Entries(j)) /\ Cardinality(Entries(j)) \in Nat
      /\ IsFiniteSet(Subdirs(j)) /\ Cardinality(Subdirs(j)) \in Nat
    BY CountParts
<1>4. Cardinality(Entries(j)') = Cardinality(Entries(j)) + B(y = j) - B(ents[d][n] = j)
  <2> DEFINE E == Entries(j) \ {<<d, n>>}
  <2>1. IsFiniteSet(E) /\ Cardinality(E) = IF <<d, n>> \in Entries(j) THEN Cardinality(Entries(j)) - 1 ELSE Cardinality(Entries(j))
      BY <1>3, FS_RemoveElement
  <2>2. <<d, n>> \in Entries(j) <=> ents[d][n] = j
      BY DEF Entries
  <2>3. Cardinality(E) = Cardinality(Entries(j)) - B(ents[d][n] = j)
    <3> HIDE DEF E
    <3> QED BY <2>1, <2>2, <1>3 DEF B
  <2>4. Entries(j)' = IF y = j THEN E \cup {<<d, n>>} ELSE E
    <3>1. ASSUME NEW r \in Inums \X Names
          PROVE  r \in Entries(j)' <=> (r \in E \/ (y = j /\ r = <<d, n>>))
      <4>1. PICK e \in Inums, m \in Names : r = <<e, m>>
          OBVIOUS
      <4>2. r \in Entries(j) <=> ents[e][m] = j
          BY <4>1 DEF Entries
      <4>3. r \in Entries(j)' <=> ents'[e][m] = j
          BY <4>1 DEF Entries
      <4>4. r = <<d, n>> <=> (e = d /\ m = n)
          BY <4>1
      <4>5. ents'[e][m] = IF e = d /\ m = n THEN y ELSE ents[e][m]
          BY <1>2
      <4> QED BY <4>2, <4>3, <4>4, <4>5
    <3>2. Entries(j)' \subseteq Inums \X Names /\ E \subseteq Inums \X Names /\ <<d, n>> \in Inums \X Names
        BY DEF Entries
    <3> HIDE DEF E
    <3> QED BY <3>1, <3>2
  <2>5. <<d, n>> \notin E
      OBVIOUS
  <2> HIDE DEF E
  <2>6. Cardinality(E \cup {<<d, n>>}) = Cardinality(E) + 1
      BY <2>1, <2>5, FS_AddElement
  <2>7. Cardinality(Entries(j)') = Cardinality(E) + B(y = j)
    <3>1. Cardinality(E) \in Nat
        BY <2>1, FS_CardinalityType
    <3> QED BY <3>1, <2>4, <2>6 DEF B
  <2> QED BY <2>3, <2>7, <1>3 DEF B
<1>5. ASSUME j # d PROVE Subdirs(j)' = Subdirs(j)
  <2>1. \A m \in Names : ents'[j][m] = ents[j][m] /\ ents[j][m] \in Maybe
      BY <1>1, <1>2, <1>5
  <2> QED BY <2>1 DEF Subdirs, Maybe
<1>6. ASSUME j = d PROVE Cardinality(Subdirs(j)') = Cardinality(Subdirs(j)) + B(IsDir(y)) - B(IsDir(ents[d][n]))
  <2> DEFINE E == Subdirs(j) \ {n}
  <2>1. IsFiniteSet(E) /\ Cardinality(E) = IF n \in Subdirs(j) THEN Cardinality(Subdirs(j)) - 1 ELSE Cardinality(Subdirs(j))
      BY <1>3, FS_RemoveElement
  <2>2. n \in Subdirs(j) <=> IsDir(ents[d][n])
      BY <1>6 DEF Subdirs, IsDir
  <2>3. Cardinality(E) = Cardinality(Subdirs(j)) - B(IsDir(ents[d][n]))
    <3> HIDE DEF E
    <3> QED BY <2>1, <2>2, <1>3 DEF B
  <2>4. Subdirs(j)' = IF IsDir(y) THEN E \cup {n} ELSE E
    <3>1. ASSUME NEW m \in Names
          PROVE  m \in Subdirs(j)' <=> (m \in E \/ (IsDir(y) /\ m = n))
      <4>1. m \in Subdirs(j) <=> (ents[d][m] # NoInode /\ disk[ents[d][m]].type = "dir")
          BY <1>6 DEF Subdirs
      <4>2. m \in Subdirs(j)' <=> (ents'[d][m] # NoInode /\ disk'[ents'[d][m]].type = "dir")
          BY <1>6 DEF Subdirs
      <4>3. ents'[d][m] = IF m = n THEN y ELSE ents[d][m]
          BY <1>2
      <4>4. ents[d][m] \in Maybe
          BY <1>1
      <4> QED BY <4>1, <4>2, <4>3, <4>4 DEF IsDir, Maybe
    <3>2. Subdirs(j)' \subseteq Names /\ E \subseteq Names
        BY DEF Subdirs
    <3> HIDE DEF E
    <3> QED BY <3>1, <3>2
  <2>5. n \notin E
      OBVIOUS
  <2> HIDE DEF E
  <2>6. Cardinality(E \cup {n}) = Cardinality(E) + 1
      BY <2>1, <2>5, FS_AddElement
  <2>7. Cardinality(Subdirs(j)') = Cardinality(E) + B(IsDir(y))
    <3>1. Cardinality(E) \in Nat
        BY <2>1, FS_CardinalityType
    <3> QED BY <3>1, <2>4, <2>6 DEF B
  <2> QED BY <2>3, <2>7, <1>3 DEF B
<1> QED BY <1>3, <1>4, <1>5, <1>6

(* The link counts change as the entry, its parent and the owing call do.  *)
LEMMA EntryLinks ==
    ASSUME FsIInv, NEW d \in Inums, NEW n \in Names, NEW y \in Maybe, EntrySet(d, n, y), NEW p \in Procs, Others(p), stray => stray',
           \A j \in Inums : disk'[j].nlink = disk[j].nlink + B(y = j) - B(ents[d][n] = j)
               + (IF j = d THEN B(IsDir(y)) - B(IsDir(ents[d][n])) ELSE 0)
               + B(ip'[p] = j /\ Owe(pc'[p], call'[p])) - B(ip[p] = j /\ Owe(pc[p], call[p]))
    PROVE  Links'
<1>6. ASSUME NEW j \in Inums PROVE Counted(j)' \in Int /\ disk'[j].nlink = disk[j].nlink + Counted(j)' - Counted(j)
  <2>1. Cardinality(Owing(j)') = Cardinality(Owing(j)) + B(ip'[p] = j /\ Owe(pc'[p], call'[p]))
                                                             - B(ip[p] = j /\ Owe(pc[p], call[p]))
      BY OwingMoved
  <2>2. Counted(j)' = Cardinality(Entries(j)') + Cardinality(Subdirs(j)') + Cardinality(Owing(j)') + (IF j = ROOTINO THEN 1 ELSE 0)
      BY DEF Counted
  <2>3. Counted(j) = Cardinality(Entries(j)) + Cardinality(Subdirs(j)) + Cardinality(Owing(j)) + (IF j = ROOTINO THEN 1 ELSE 0)
      BY DEF Counted
  <2>4. Cardinality(Entries(j)) \in Nat /\ Cardinality(Subdirs(j)) \in Nat /\ Cardinality(Owing(j)) \in Nat /\ disk[j].nlink \in Nat
      BY CountParts
  <2>5. disk'[j].nlink = disk[j].nlink + B(y = j) - B(ents[d][n] = j)
               + (IF j = d THEN B(IsDir(y)) - B(IsDir(ents[d][n])) ELSE 0)
               + B(ip'[p] = j /\ Owe(pc'[p], call'[p])) - B(ip[p] = j /\ Owe(pc[p], call[p]))
      OBVIOUS
  <2>6. /\ Cardinality(Entries(j)') = Cardinality(Entries(j)) + B(y = j) - B(ents[d][n] = j)
        /\ Cardinality(Subdirs(j)') = Cardinality(Subdirs(j)) + (IF j = d THEN B(IsDir(y)) - B(IsDir(ents[d][n])) ELSE 0)
      BY EntryMoved
  <2> DEFINE u == B(y = j) - B(ents[d][n] = j)
             v == IF j = d THEN B(IsDir(y)) - B(IsDir(ents[d][n])) ELSE 0
             w == B(ip'[p] = j /\ Owe(pc'[p], call'[p])) - B(ip[p] = j /\ Owe(pc[p], call[p]))
             r == IF j = ROOTINO THEN 1 ELSE 0
  <2>7. u \in Int /\ v \in Int /\ w \in Int /\ r \in Int
      BY DEF B
  <2>8. Cardinality(Owing(j)') = Cardinality(Owing(j)) + w
      BY ONLY <2>1, <2>4 DEF B
  <2>9. /\ Cardinality(Entries(j)') = Cardinality(Entries(j)) + u
        /\ Cardinality(Subdirs(j)') = Cardinality(Subdirs(j)) + v
      BY ONLY <2>4, <2>6 DEF B
  <2>10. disk'[j].nlink = disk[j].nlink + u + v + w
      BY ONLY <2>4, <2>5 DEF B
  <2>11. /\ Counted(j)' = Cardinality(Entries(j)') + Cardinality(Subdirs(j)') + Cardinality(Owing(j)') + r
         /\ Counted(j) = Cardinality(Entries(j)) + Cardinality(Subdirs(j)) + Cardinality(Owing(j)) + r
      BY ONLY <2>2, <2>3
  <2> HIDE DEF u, v, w, r
  <2> QED BY ONLY <2>4, <2>7, <2>8, <2>9, <2>10, <2>11
<1> QED BY <1>6, LinksMoved

(* Steps of link and unlink that change the link count of the inode in     *)
(* hand, and with it what the call owes.                                   *)
PayStep(p, l, d, i, s, n) ==
    /\ Goto(p, l, d, i, s) /\ Rest(p) /\ put[p] = <<>> /\ ip[p] \in Inums
    /\ iupdate({ip[p]}, Linked(ip[p], n)) /\ disk[ip[p]].nlink + n \in Nat
    /\ ents' = ents /\ stray' = stray /\ panic' = FALSE
    /\ lock' \in [Inums -> Procs \cup {NONE}]
    /\ \A j \in Inums : lock'[j] = lock[j] \/ lock[j] \in {NONE, p}
    /\ ref' \in [Inums -> Int]
    /\ \A j \in Inums : ref'[j] = ref[j] + Change(p, l, d, i, s, j) /\ ref'[j] >= ref[j]
    /\ \A j \in Inums : d = j \/ i = j \/ (cwd'[p] = j /\ l # "chdir_end") => Near(p, j)
    /\ n = B(Owe(l, call'[p])) - B(Owe(pc[p], call[p]))
    /\ Owe(l, call'[p]) => i = ip[p]
    /\ l # "create_ip"
    /\ Local(p)' /\ Locked(p)'
    /\ (\A j \in Inums : disk'[j].type = disk[j].type) => Held(p)' /\ Kinds(p)'

LEMMA Pay ==
    ASSUME FsIInv, NEW p \in Procs, NEW l \in Labels, NEW d \in Maybe, NEW i \in Maybe, NEW s \in Seq(Inums),
           NEW n \in Int, PayStep(p, l, d, i, s, n)
    PROVE  FsIInv'
<1> USE DEF PayStep
<1>1. /\ pc' \in [Procs -> Labels] /\ dp' \in [Procs -> Maybe] /\ ip' \in [Procs -> Maybe]
      /\ put' \in [Procs -> Seq(Inums)] /\ drop' \in [Procs -> Maybe]
      /\ pc'[p] = l /\ dp'[p] = d /\ ip'[p] = i /\ put'[p] = s /\ drop'[p] = drop[p]
      /\ Others(p)
    BY Went
<1>2. RefExact' /\ ref' \in [Inums -> Nat]
    BY WentRefs
<1>3. Types /\ TypeOK /\ RefExact /\ Coherent /\ Tree /\ Links /\ Rooted /\ Held(p)
    BY DEF FsIInv, Types
<1>4. PICK x \in Inums : x = ip[p]
    OBVIOUS
<1>5. \A j \in Inums : ref[j] > 0 => ref'[j] > 0
  <2>1. \A j \in Inums : ref[j] \in Nat /\ ref'[j] \in Nat /\ ref'[j] >= ref[j]
      BY <1>2, <1>3 DEF TypeOK
  <2> QED BY <2>1
<1>6. Allocated(x) /\ ref'[x] > 0
  <2>1. x # NoInode
      BY DEF Inums, NoInode
  <2>2. ref[x] > 0
      BY <1>3, <1>4, Referred
  <2> QED BY <2>1, <2>2, <1>3, <1>4, <1>5 DEF Held
<1>7. \A j \in Inums : /\ Linked(x, n)[j] \in Dinodes /\ Linked(x, n)[j].type = disk[j].type
                       /\ Linked(x, n)[j].nlink = disk[j].nlink + (IF j = x THEN n ELSE 0)
  <2>1. disk[x].nlink + n \in Nat
      BY <1>4
  <2> QED BY <2>1, LinkedIs
<1>8. /\ Coherent' /\ disk' \in [Inums -> Dinodes] /\ mem' \in [Inums -> Dinodes] /\ valid' \in [Inums -> BOOLEAN]
      /\ \A j \in Inums : disk'[j] = IF j \in {x} THEN Linked(x, n)[j] ELSE disk[j]
      /\ \A j \in Inums : disk'[j].type = disk[j].type
  <2>1. iupdate({x}, Linked(x, n))
      BY <1>4
  <2>2. \A y \in {x} : Linked(x, n)[y] \in Dinodes /\ Linked(x, n)[y].type = disk[y].type /\ Allocated(y) /\ ref'[y] > 0
      BY <1>6, <1>7
  <2>3. {x} \in SUBSET Inums
      OBVIOUS
  <2> QED BY <2>1, <2>2, <2>3, <1>5, Written
<1>9. Types'
    BY <1>1, <1>2, <1>3, <1>8 DEF Types, TypeOK, Rest, Maybe, Dinodes
<1>10. Fresh(p)'
    BY <1>1 DEF Fresh
<1>11. Kept(p)
  <2>1. \A j \in Inums, q \in Procs \ {p} : lock[j] = q => lock'[j] = q
      BY FsAssumption
  <2>2. \A j \in Inums : Near(p, j)' => Near(p, j)
      BY <1>1 DEF Near
  <2>3. \A j \in Inums : j # ip[p] => disk'[j] = disk[j]
      BY <1>4, <1>8
  <2> QED BY <1>1, <1>8, <2>1, <2>2, <2>3 DEF Kept
<1>12. Tree' /\ Links' /\ Rooted'
  <2>1. ASSUME NEW j \in Inums
        PROVE  disk'[j].nlink = disk[j].nlink + B(ip'[p] = j /\ Owe(pc'[p], call'[p]))
                                              - B(ip[p] = j /\ Owe(pc[p], call[p]))
    <3>1. disk[j].nlink \in Nat
        BY CountParts
    <3>2. disk'[j].nlink = disk[j].nlink + (IF j = x THEN n ELSE 0)
      <4>1. CASE j = x
          BY <4>1, <1>7, <1>8
      <4>2. CASE j # x
          BY <4>2, <3>1, <1>8
      <4> QED BY <4>1, <4>2
    <3>3. pc'[p] = l /\ ip'[p] = i /\ (Owe(l, call'[p]) => i = x)
        BY <1>1, <1>4
    <3>4. n = B(Owe(l, call'[p])) - B(Owe(pc[p], call[p]))
        OBVIOUS
    <3> QED BY ONLY <1>4, <3>1, <3>2, <3>3, <3>4 DEF B
  <2> QED BY <2>1, <1>1, <1>8, NamesKept
<1> QED BY <1>2, <1>8, <1>9, <1>10, <1>11, <1>12, Assemble DEF Own

(* link takes its count back.                                              *)
LEMMA LinkBadInductive ==
    ASSUME FsIInv, NEW p \in Procs, link_bad(p)
    PROVE  FsIInv'
<1>1. /\ pc[p] = "bad" /\ put[p] = <<>> /\ Goto(p, "end", NoInode, NoInode, <<ip[p]>>) /\ ents' = ents
      /\ stray' = stray /\ iupdate({ip[p]}, Linked(ip[p], -1)) /\ Panics(ip[p], FALSE) /\ ref' = ref
      /\ lock' = lock /\ Forget(p) /\ fd' = fd /\ cwd' = cwd
    BY DEF link_bad, LinkBad, At, Ready, cache, locals, ghosts, FsIInv, Types
<1>2. /\ dp[p] = NoInode /\ ip[p] \in Inums /\ Allocated(ip[p]) /\ call[p] # "link2"
      /\ disk[ip[p]].nlink + (-1) \in Nat
  <2>1. /\ dp[p] = NoInode /\ ip[p] \in Inums /\ Allocated(ip[p]) /\ call[p] # "link2"
      BY <1>1, Here, FsAssumption DEF Local, Held, Kinds, Locked, HasDir, HasIno, Maybe, InCalls, SysCalls
  <2>2. p \in Owing(ip[p])
      BY <1>1 DEF Owing
  <2>3. disk[ip[p]].nlink >= 1 /\ disk[ip[p]].nlink \in Nat
      BY <2>1, <2>2, NamedIsLinked, CountParts
  <2>4. disk[ip[p]].nlink + (-1) \in Nat
      BY <2>3
  <2> QED BY <2>1, <2>4
<1>3. Rest(p) /\ call'[p] = NONE /\ path'[p] = <<>> /\ new'[p] = <<>>
  <2>1. fd' \in [Procs -> Maybe] /\ cwd' \in [Procs -> Inums] /\ \A q \in Procs \ {p} : fd'[q] = fd[q] /\ cwd'[q] = cwd[q]
      BY <1>1, <1>2, Here
  <2> QED BY <1>1, <2>1, Forgotten
<1>4. "end" \in Labels /\ NoInode \in Maybe /\ NoInode \in Maybe /\ <<ip[p]>> \in Seq(Inums)
    BY <1>1, <1>2, Here DEF Labels, HasDir, HasIno, Maybe
<1>5. pc'[p] = "end" /\ dp'[p] = NoInode /\ ip'[p] = NoInode /\ put'[p] = <<ip[p]>>
  <2>1. Goto(p, "end", NoInode, NoInode, <<ip[p]>>) /\ Rest(p)
      BY <1>1, <1>3
  <2> QED BY <2>1, <1>4, Went
<1>6. \A j \in Inums : Change(p, "end", NoInode, NoInode, <<ip[p]>>, j) = 0
  <2> SUFFICES ASSUME NEW j \in Inums PROVE Change(p, "end", NoInode, NoInode, <<ip[p]>>, j) = 0
      OBVIOUS
  <2>1. Hold(<<ip[p]>>, j) = B(ip[p] = j)
      BY <1>2, Holds
  <2>2. fd'[p] = fd[p] /\ cwd'[p] = cwd[p] /\ j # NoInode
      BY <1>1, Here
  <2> QED BY <1>1, <1>2, <2>1, <2>2 DEF Change, B
<1>7. Local(p)' /\ Locked(p)' /\ ((\A j \in Inums : disk'[j].type = disk[j].type) => Held(p)' /\ Kinds(p)')
  <2>1. Len(<<ip[p]>>) <= 2
      OBVIOUS
  <2>2. /\ fd'[p] = fd[p] /\ cwd'[p] = cwd[p]
      BY <1>1, <1>2, Here
  <2>3. Local(p)'
      BY <1>1, <1>2, <1>3, <1>5, <2>1, <2>2, Here, FsAssumption DEF Local, HasDir, HasIno, Searching, InParent, Labels, InCalls, SysCalls
  <2>4. ASSUME \A j \in Inums : disk'[j].type = disk[j].type PROVE Held(p)'
      BY <2>4, <1>1, <1>2, <1>5, <2>2, Here DEF Held, Allocated, Maybe
  <2>5. ASSUME \A j \in Inums : disk'[j].type = disk[j].type PROVE Kinds(p)'
      BY <2>5, <1>1, <1>2, <1>3, <1>5, <2>2, Here, FsAssumption DEF Kinds, InParent
  <2>6. Locked(p)'
      BY <1>1, <1>2, <1>5, <2>2, Here DEF Locked
  <2> QED BY <2>3, <2>4, <2>5, <2>6
<1>8. lock' \in [Inums -> Procs \cup {NONE}] /\ \A j \in Inums : lock'[j] = lock[j] \/ lock[j] \in {NONE, p}
    BY <1>1, <1>2, Here
<1>9. ref' \in [Inums -> Int] /\ \A j \in Inums : ref'[j] = ref[j] + Change(p, "end", NoInode, NoInode, <<ip[p]>>, j) /\ ref'[j] >= ref[j]
    BY <1>1, <1>6, RefsSame
<1>10. \A j \in Inums : NoInode = j \/ NoInode = j \/ (cwd'[p] = j /\ "end" # "chdir_end") => Near(p, j)
    BY <1>1, <1>2, Here DEF Near
<1>11. -1 = B(Owe("end", call'[p])) - B(Owe(pc[p], call[p])) /\ (Owe("end", call'[p]) => NoInode = ip[p])
    BY <1>1, <1>2, <1>3, Here, FsAssumption DEF Owe, B
<1>12. panic' = FALSE
    BY <1>1, <1>2, NoPanic
<1>14. PayStep(p, "end", NoInode, NoInode, <<ip[p]>>, -1)
    BY <1>1, <1>2, <1>3, <1>7, <1>8, <1>9, <1>10, <1>11, <1>12 DEF PayStep
<1>15. -1 \in Int
    OBVIOUS
<1> QED BY <1>4, <1>14, <1>15, Pay

(* unlink takes the count of the removed name back.                        *)
LEMMA UnlinkDecInductive ==
    ASSUME FsIInv, NEW p \in Procs, unlink_dec(p)
    PROVE  FsIInv'
<1>1. /\ pc[p] = "unlink_dec" /\ put[p] = <<>> /\ Goto(p, "end", NoInode, NoInode, <<ip[p]>>) /\ ents' = ents
      /\ stray' = stray /\ iupdate({ip[p]}, Linked(ip[p], -1)) /\ panic' = FALSE /\ ref' = ref
      /\ lock' = [lock EXCEPT ![ip[p]] = NONE] /\ Forget(p) /\ fd' = fd /\ cwd' = cwd
    BY DEF unlink_dec, Ready, cache, locals, ghosts, FsIInv, Types
<1>2. /\ dp[p] = NoInode /\ ip[p] \in Inums /\ Allocated(ip[p]) /\ call[p] # "link2" /\ lock[ip[p]] = p
      /\ disk[ip[p]].nlink + (-1) \in Nat
  <2>1. /\ dp[p] = NoInode /\ ip[p] \in Inums /\ Allocated(ip[p]) /\ call[p] # "link2" /\ lock[ip[p]] = p
      BY <1>1, Here, FsAssumption DEF Local, Held, Kinds, Locked, HasDir, HasIno, Maybe, InCalls, SysCalls
  <2>2. p \in Owing(ip[p])
      BY <1>1 DEF Owing
  <2>3. disk[ip[p]].nlink >= 1 /\ disk[ip[p]].nlink \in Nat
      BY <2>1, <2>2, NamedIsLinked, CountParts
  <2>4. disk[ip[p]].nlink + (-1) \in Nat
      BY <2>3
  <2> QED BY <2>1, <2>4
<1>3. Rest(p) /\ call'[p] = NONE /\ path'[p] = <<>> /\ new'[p] = <<>>
  <2>1. fd' \in [Procs -> Maybe] /\ cwd' \in [Procs -> Inums] /\ \A q \in Procs \ {p} : fd'[q] = fd[q] /\ cwd'[q] = cwd[q]
      BY <1>1, <1>2, Here
  <2> QED BY <1>1, <2>1, Forgotten
<1>4. "end" \in Labels /\ NoInode \in Maybe /\ NoInode \in Maybe /\ <<ip[p]>> \in Seq(Inums)
    BY <1>1, <1>2, Here DEF Labels, HasDir, HasIno, Maybe
<1>5. pc'[p] = "end" /\ dp'[p] = NoInode /\ ip'[p] = NoInode /\ put'[p] = <<ip[p]>>
  <2>1. Goto(p, "end", NoInode, NoInode, <<ip[p]>>) /\ Rest(p)
      BY <1>1, <1>3
  <2> QED BY <2>1, <1>4, Went
<1>6. \A j \in Inums : Change(p, "end", NoInode, NoInode, <<ip[p]>>, j) = 0
  <2> SUFFICES ASSUME NEW j \in Inums PROVE Change(p, "end", NoInode, NoInode, <<ip[p]>>, j) = 0
      OBVIOUS
  <2>1. Hold(<<ip[p]>>, j) = B(ip[p] = j)
      BY <1>2, Holds
  <2>2. fd'[p] = fd[p] /\ cwd'[p] = cwd[p] /\ j # NoInode
      BY <1>1, Here
  <2> QED BY <1>1, <1>2, <2>1, <2>2 DEF Change, B
<1>7. Local(p)' /\ Locked(p)' /\ ((\A j \in Inums : disk'[j].type = disk[j].type) => Held(p)' /\ Kinds(p)')
  <2>1. Len(<<ip[p]>>) <= 2
      OBVIOUS
  <2>2. /\ fd'[p] = fd[p] /\ cwd'[p] = cwd[p]
      BY <1>1, <1>2, Here
  <2>3. Local(p)'
      BY <1>1, <1>2, <1>3, <1>5, <2>1, <2>2, Here, FsAssumption DEF Local, HasDir, HasIno, Searching, InParent, Labels, InCalls, SysCalls
  <2>4. ASSUME \A j \in Inums : disk'[j].type = disk[j].type PROVE Held(p)'
      BY <2>4, <1>1, <1>2, <1>5, <2>2, Here DEF Held, Allocated, Maybe
  <2>5. ASSUME \A j \in Inums : disk'[j].type = disk[j].type PROVE Kinds(p)'
      BY <2>5, <1>1, <1>2, <1>3, <1>5, <2>2, Here, FsAssumption DEF Kinds, InParent
  <2>6. Locked(p)'
      BY <1>1, <1>2, <1>5, <2>2, Here DEF Locked
  <2> QED BY <2>3, <2>4, <2>5, <2>6
<1>8. lock' \in [Inums -> Procs \cup {NONE}] /\ \A j \in Inums : lock'[j] = lock[j] \/ lock[j] \in {NONE, p}
    BY <1>1, <1>2, Here
<1>9. ref' \in [Inums -> Int] /\ \A j \in Inums : ref'[j] = ref[j] + Change(p, "end", NoInode, NoInode, <<ip[p]>>, j) /\ ref'[j] >= ref[j]
    BY <1>1, <1>6, RefsSame
<1>10. \A j \in Inums : NoInode = j \/ NoInode = j \/ (cwd'[p] = j /\ "end" # "chdir_end") => Near(p, j)
    BY <1>1, <1>2, Here DEF Near
<1>11. -1 = B(Owe("end", call'[p])) - B(Owe(pc[p], call[p])) /\ (Owe("end", call'[p]) => NoInode = ip[p])
    BY <1>1, <1>2, <1>3, Here, FsAssumption DEF Owe, B
<1>14. PayStep(p, "end", NoInode, NoInode, <<ip[p]>>, -1)
    BY <1>1, <1>2, <1>3, <1>7, <1>8, <1>9, <1>10, <1>11 DEF PayStep
<1>15. -1 \in Int
    OBVIOUS
<1> QED BY <1>4, <1>14, <1>15, Pay

(* link counts the new name before it has it.                              *)
LEMMA LinkInductive ==
    ASSUME FsIInv, NEW p \in Procs, link(p)
    PROVE  FsIInv'
<1>1. /\ pc[p] = "link" /\ put[p] = <<>> /\ Goto(p, "namex", cwd[p], ip[p], <<>>) /\ ents' = ents
      /\ stray' = stray /\ iupdate({ip[p]}, Linked(ip[p], 1)) /\ Panics(ip[p], FALSE) /\ idup(cwd[p])
      /\ lock' = lock /\ fd' = fd /\ cwd' = cwd /\ call' = [call EXCEPT ![p] = "link2"]
      /\ path' = [path EXCEPT ![p] = new[p]] /\ new' = new
    BY DEF link, At, Start, Ready, cache, locals, ghosts, FsIInv, Types
<1>2. /\ dp[p] = NoInode /\ ip[p] \in Inums /\ Allocated(ip[p]) /\ call[p] # "link2" /\ new[p] # <<>>
      /\ cwd[p] \in Inums /\ Allocated(cwd[p]) /\ disk[ip[p]].type = "file" /\ disk[ip[p]].nlink + 1 \in Nat
  <2>1. /\ dp[p] = NoInode /\ ip[p] \in Inums /\ Allocated(ip[p]) /\ call[p] # "link2" /\ new[p] # <<>>
        /\ cwd[p] \in Inums /\ Allocated(cwd[p])
      BY <1>1, Here DEF Local, Held, HasDir, HasIno, Maybe
  <2>2. disk[ip[p]].type = "file"
    <3>1. disk[ip[p]].type \in {"free", "dir", "file"}
        BY <2>1 DEF FsIInv, Types, TypeOK
    <3>2. disk[ip[p]].type # "dir"
        BY <2>1, Here DEF link
    <3> QED BY <2>1, <3>1, <3>2 DEF Allocated
  <2>3. disk[ip[p]].nlink \in Nat
      BY <2>1, CountParts
  <2> QED BY <2>1, <2>2, <2>3
<1>3. Rest(p)
    BY <1>1, <1>2, Here  DEF Rest, InCalls
<1>4. "namex" \in Labels /\ cwd[p] \in Maybe /\ ip[p] \in Maybe /\ <<>> \in Seq(Inums)
    BY <1>1, <1>2, Here DEF Labels, HasDir, HasIno, Maybe
<1>5. pc'[p] = "namex" /\ dp'[p] = cwd[p] /\ ip'[p] = ip[p] /\ put'[p] = <<>>
  <2>1. Goto(p, "namex", cwd[p], ip[p], <<>>) /\ Rest(p)
      BY <1>1, <1>3
  <2> QED BY <2>1, <1>4, Went
<1>6. \A j \in Inums : Change(p, "namex", cwd[p], ip[p], <<>>, j) = B(cwd[p] = j)
  <2> SUFFICES ASSUME NEW j \in Inums PROVE Change(p, "namex", cwd[p], ip[p], <<>>, j) = B(cwd[p] = j)
      OBVIOUS
  <2>1. Hold(<<>>, j) = 0
      BY <1>2, Holds
  <2>2. fd'[p] = fd[p] /\ cwd'[p] = cwd[p] /\ j # NoInode
      BY <1>1, Here
  <2> QED BY <1>1, <1>2, <2>1, <2>2 DEF Change, B
<1>7. Local(p)' /\ Locked(p)' /\ ((\A j \in Inums : disk'[j].type = disk[j].type) => Held(p)' /\ Kinds(p)')
  <2>1. Len(<<>>) <= 2
      OBVIOUS
  <2>2. /\ fd'[p] = fd[p] /\ cwd'[p] = cwd[p] /\ call'[p] = "link2" /\ new'[p] = new[p] /\ path'[p] = new[p]
      BY <1>1, <1>2, Here
  <2>3. Local(p)'
      BY <1>1, <1>2, <1>3, <1>5, <2>1, <2>2, Here, FsAssumption DEF Local, HasDir, HasIno, Searching, InParent, Labels, InCalls, SysCalls
  <2>4. ASSUME \A j \in Inums : disk'[j].type = disk[j].type PROVE Held(p)'
      BY <2>4, <1>1, <1>2, <1>5, <2>2, Here DEF Held, Allocated, Maybe
  <2>5. ASSUME \A j \in Inums : disk'[j].type = disk[j].type PROVE Kinds(p)'
      BY <2>5, <1>1, <1>2, <1>3, <1>5, <2>2, Here, FsAssumption DEF Kinds, InParent
  <2>6. Locked(p)'
      BY <1>1, <1>2, <1>5, <2>2, Here DEF Locked
  <2> QED BY <2>3, <2>4, <2>5, <2>6
<1>8. lock' \in [Inums -> Procs \cup {NONE}] /\ \A j \in Inums : lock'[j] = lock[j] \/ lock[j] \in {NONE, p}
    BY <1>1, <1>2, Here
<1>9. ref' \in [Inums -> Int] /\ \A j \in Inums : ref'[j] = ref[j] + Change(p, "namex", cwd[p], ip[p], <<>>, j) /\ ref'[j] >= ref[j]
  <2>1. idup(cwd[p]) /\ cwd[p] \in Inums
      BY <1>1, <1>2, Here
  <2>2. ref' \in [Inums -> Int] /\ \A j \in Inums : ref'[j] = ref[j] + B(cwd[p] = j) /\ ref'[j] >= ref[j]
      BY <2>1, RefsGot
  <2> QED BY <2>2, <1>6
<1>10. \A j \in Inums : cwd[p] = j \/ ip[p] = j \/ (cwd'[p] = j /\ "namex" # "chdir_end") => Near(p, j)
    BY <1>1, <1>2, Here DEF Near
<1>11. 1 = B(Owe("namex", call'[p])) - B(Owe(pc[p], call[p])) /\ (Owe("namex", call'[p]) => ip[p] = ip[p])
    BY <1>1, <1>2, <1>3, Here, FsAssumption DEF Owe, B
<1>12. panic' = FALSE
    BY <1>1, <1>2, NoPanic
<1>14. PayStep(p, "namex", cwd[p], ip[p], <<>>, 1)
    BY <1>1, <1>2, <1>3, <1>7, <1>8, <1>9, <1>10, <1>11, <1>12 DEF PayStep
<1>15. 1 \in Int
    OBVIOUS
<1> QED BY <1>4, <1>14, <1>15, Pay

----------------------------------------------------------------------------
(* iput.                                                                   *)
(* The part that drops the reference.                                      *)
LEMMA UnrefInductive ==
    ASSUME FsIInv, NEW p \in Procs, iput_unref(p)
    PROVE  FsIInv'
<1>1. Types /\ TypeOK /\ RefExact /\ Coherent /\ Tree /\ Links /\ Rooted /\ Own(p)
    BY DEF FsIInv, Types, Own
<1>2. PICK x \in Inums : x = drop[p]
    BY <1>1 DEF Types, Maybe, iput_unref
<1>3. /\ ref' = [ref EXCEPT ![x] = @ - 1] /\ valid' = [valid EXCEPT ![x] = @ /\ ref'[x] > 0]
      /\ mem' = [mem EXCEPT ![x] = IF valid'[x] THEN @ ELSE Free]
      /\ drop' = [drop EXCEPT ![p] = NoInode]
      /\ disk' = disk /\ ents' = ents /\ lock' = lock /\ fd' = fd /\ cwd' = cwd /\ pc' = pc
      /\ call' = call /\ path' = path /\ new' = new /\ dp' = dp /\ ip' = ip /\ put' = put /\ panic' = panic /\ stray' = stray
    BY <1>2 DEF iput_unref, locals, ghosts
<1>4. Others(p)
  <2>1. \A q \in Procs \ {p} : drop'[q] = drop[q]
      BY <1>1, <1>3 DEF Types
  <2> QED BY <1>3, <2>1 DEF Others
<1>5. RefExact' /\ \A j \in Inums : ref'[j] \in Nat
  <2>1. ASSUME NEW j \in Inums PROVE ref'[j] = ref[j] + Share(p, j)' - Share(p, j)
    <3>0. j # NoInode
        BY DEF Inums, NoInode
    <3>9. ref[j] \in Nat
        BY <1>1 DEF TypeOK
    <3>8. drop'[p] = NoInode
        BY <1>1, <1>3 DEF Types
    <3>1. drop'[p] = NoInode /\ j # NoInode /\ ref[j] \in Nat
        BY <3>0, <3>8, <3>9
    <3>2. Share(p, j)' = B(fd[p] = j) + B(dp[p] = j) + B(ip[p] = j) + B(drop'[p] = j)
               + B(cwd[p] = j /\ pc[p] # "chdir_end") + Hold(put[p], j)
        BY <1>3 DEF Share
    <3>3. Share(p, j) = B(fd[p] = j) + B(dp[p] = j) + B(ip[p] = j) + B(drop[p] = j)
               + B(cwd[p] = j /\ pc[p] # "chdir_end") + Hold(put[p], j)
        BY DEF Share
    <3>4. Hold(put[p], j) \in Int
        BY DEF Hold, B
    <3>5. ref'[j] = ref[j] - B(x = j)
        BY <1>1, <1>3, <3>1 DEF B, TypeOK
    <3> QED BY ONLY <1>2, <3>1, <3>2, <3>3, <3>4, <3>5 DEF B
  <2> QED BY <2>1, <1>1, <1>4, RefKept
<1>6. ref' \in [Inums -> Nat]
  <2>1. ref' \in [Inums -> Int]
      BY <1>1, <1>3 DEF TypeOK
  <2> QED BY <2>1, <1>5
<1>7. valid' \in [Inums -> BOOLEAN] /\ \A j \in Inums : valid'[j] <=> (valid[j] /\ (j = x => ref'[x] > 0))
    BY <1>1, <1>3 DEF TypeOK
<1>8. mem' \in [Inums -> [type : {"free", "dir", "file"}, nlink : Nat]] /\ \A j \in Inums : valid'[j] => mem'[j] = mem[j]
  <2>1. Free \in [type : {"free", "dir", "file"}, nlink : Nat]
      BY DEF Free
  <2>2. mem \in [Inums -> [type : {"free", "dir", "file"}, nlink : Nat]]
      BY <1>1 DEF TypeOK
  <2>3. mem' \in [Inums -> [type : {"free", "dir", "file"}, nlink : Nat]]
      BY <1>3, <2>1, <2>2
  <2>4. \A j \in Inums : valid'[j] => mem'[j] = mem[j]
      BY <1>3, <2>2
  <2> QED BY <2>3, <2>4
<1>9. Coherent'
  <2> SUFFICES ASSUME NEW j \in Inums, valid'[j] PROVE mem'[j] = disk'[j] /\ ref'[j] > 0 /\ disk'[j].type # "free"
      BY DEF Coherent, Allocated
  <2>1. valid[j] /\ mem'[j] = mem[j] /\ (j = x => ref'[x] > 0)
      BY <1>7, <1>8
  <2>2. mem[j] = disk[j] /\ ref[j] > 0 /\ disk[j].type # "free"
      BY <2>1, <1>1 DEF Coherent, Allocated
  <2>3. j # x => ref'[j] = ref[j]
      BY <1>1, <1>3 DEF TypeOK
  <2> QED BY <2>1, <2>2, <2>3, <1>3
<1>10. Types'
  <2>1. drop' \in [Procs -> Maybe]
      BY <1>1, <1>3 DEF Types, Maybe
  <2> QED BY <1>1, <1>3, <1>6, <1>7, <1>8, <2>1 DEF Types, TypeOK
<1>11. Own(p)'
  <2>1. Local(p)' /\ Held(p)' /\ Kinds(p)' /\ Locked(p)'
      BY <1>1, <1>3 DEF Own, Local, Held, Kinds, Locked, Allocated, Empty
  <2>2. Fresh(p)'
      BY <1>1, <1>3 DEF Own, Fresh, Empty
  <2> QED BY <2>1, <2>2 DEF Own
<1>12. Kept(p)
    BY <1>3, <1>4 DEF Kept, Near
<1>13. Tree' /\ Links' /\ Rooted'
  <2>1. \A j \in Inums : Owing(j)' = Owing(j)
      BY <1>3 DEF Owing
  <2> QED BY <2>1, <1>1, <1>3, NamesSame
<1> QED BY <1>5, <1>9, <1>10, <1>11, <1>12, <1>13, Assemble

(* Common to iput whether it frees the inode or not: the reference waits   *)
(* to be dropped.                                                          *)
LEMMA PutMoves ==
    ASSUME FsIInv, NEW p \in Procs, NEW x \in Inums, iput(p, x)
    PROVE  /\ put[p] # <<>> /\ put[p][1] = x /\ 1 \in DOMAIN put[p] /\ lock[x] = NONE
           /\ put' \in [Procs -> Seq(Inums)] /\ Len(put'[p]) <= 2 /\ drop' \in [Procs -> Maybe]
           /\ ref' = ref /\ lock' = lock /\ fd' = fd /\ cwd' = cwd /\ pc' = pc
           /\ call' = call /\ path' = path /\ new' = new /\ dp' = dp /\ ip' = ip /\ panic' = panic /\ stray' = stray
           /\ Others(p) /\ RefExact'
<1>1. Types /\ TypeOK /\ RefExact /\ Local(p)
    BY DEF FsIInv, Types
<1>2. /\ put[p] # <<>> /\ x = Head(put[p]) /\ drop[p] = NoInode /\ lock[x] = NONE
      /\ put' = [put EXCEPT ![p] = Tail(@)] /\ drop' = [drop EXCEPT ![p] = x]
      /\ ref' = ref /\ lock' = lock /\ fd' = fd /\ cwd' = cwd /\ pc' = pc
      /\ call' = call /\ path' = path /\ new' = new /\ dp' = dp /\ ip' = ip /\ panic' = panic /\ stray' = stray
    BY DEF iput, Iput, Putting, locals, ghosts
<1>3. put \in [Procs -> Seq(Inums)] /\ put[p] \in Seq(Inums) /\ Len(put[p]) <= 2
    BY <1>1 DEF Types, Local
<1>4. put[p][1] = x /\ 1 \in DOMAIN put[p]
    BY <1>2, <1>3
<1>5. Tail(put[p]) \in Seq(Inums) /\ Len(Tail(put[p])) = Len(put[p]) - 1 /\ Len(put[p]) \in Nat
    BY <1>2, <1>3
<1>6. put'[p] = Tail(put[p]) /\ drop'[p] = x
    BY <1>1, <1>2, <1>3 DEF Types
<1>7. put' \in [Procs -> Seq(Inums)] /\ Len(put'[p]) <= 2 /\ drop' \in [Procs -> Maybe]
    BY <1>1, <1>2, <1>3, <1>5, <1>6 DEF Types, Maybe
<1>8. Others(p)
  <2>1. \A q \in Procs \ {p} : drop'[q] = drop[q] /\ put'[q] = put[q]
      BY <1>1, <1>2 DEF Types
  <2> QED BY <1>2, <2>1 DEF Others
<1>9. RefExact'
  <2>1. ASSUME NEW j \in Inums PROVE ref'[j] = ref[j] + Share(p, j)' - Share(p, j)
    <3>0. j # NoInode
        BY DEF Inums, NoInode
    <3>9. ref[j] \in Nat
        BY <1>1 DEF TypeOK
    <3>1. j # NoInode /\ ref[j] \in Nat /\ drop[p] # j
        BY <1>2, <3>0, <3>9
    <3>2. Share(p, j)' = B(fd[p] = j) + B(dp[p] = j) + B(ip[p] = j) + B(x = j)
               + B(cwd[p] = j /\ pc[p] # "chdir_end") + Hold(Tail(put[p]), j)
        BY <1>2, <1>6 DEF Share
    <3>3. Share(p, j) = B(fd[p] = j) + B(dp[p] = j) + B(ip[p] = j) + B(drop[p] = j)
               + B(cwd[p] = j /\ pc[p] # "chdir_end") + Hold(put[p], j)
        BY DEF Share
    <3>4. Hold(put[p], j) = B(x = j) + Hold(Tail(put[p]), j)
        BY <1>2, <1>3, Holds
    <3>5. Hold(Tail(put[p]), j) \in Int
        BY DEF Hold, B
    <3>6. ref'[j] = ref[j]
        BY <1>2
    <3> QED BY ONLY <3>1, <3>2, <3>3, <3>4, <3>5, <3>6 DEF B
  <2> QED BY <2>1, <1>1, <1>8, RefKept
<1> QED BY <1>2, <1>4, <1>7, <1>8, <1>9


(* iput frees an inode that nothing refers to any more.                    *)
LEMMA PutFrees ==
    ASSUME FsIInv, NEW p \in Procs, NEW x \in Inums, iput(p, x), valid[x] /\ mem[x].nlink = 0 /\ ref[x] = 1
    PROVE  FsIInv'
<1>1. Types /\ TypeOK /\ RefExact /\ Coherent /\ Tree /\ Links /\ Rooted /\ Own(p)
    BY DEF FsIInv, Types, Own
<1>2. /\ put[p] # <<>> /\ put[p][1] = x /\ 1 \in DOMAIN put[p] /\ lock[x] = NONE
      /\ put' \in [Procs -> Seq(Inums)] /\ Len(put'[p]) <= 2 /\ drop' \in [Procs -> Maybe]
      /\ ref' = ref /\ lock' = lock /\ fd' = fd /\ cwd' = cwd /\ pc' = pc
      /\ call' = call /\ path' = path /\ new' = new /\ dp' = dp /\ ip' = ip /\ panic' = panic /\ stray' = stray
      /\ Others(p) /\ RefExact'
    BY PutMoves
<1>3. /\ disk' = [disk EXCEPT ![x] = Free] /\ ents' = [ents EXCEPT ![x] = Empty]
      /\ mem' = [mem EXCEPT ![x] = Free] /\ valid' = [valid EXCEPT ![x] = FALSE]
    BY DEF iput, Iput
<1>4. \A q \in Procs : fd[q] # x /\ dp[q] # x /\ ip[q] # x /\ drop[q] # x /\ (pc[q] # "chdir_end" => cwd[q] # x)
    BY <1>1, <1>2, OnlyPut
<1>5. /\ \A d \in Inums, n \in Names : ents[d][n] # x
      /\ Subdirs(x) = {} /\ Owing(x) = {} /\ x # ROOTINO
  <2>1. disk[x].nlink = 0
      BY <1>1 DEF Coherent
  <2>2. ~(disk[x].nlink >= 1)
      BY <2>1
  <2> QED BY <2>2, NamedIsLinked
<1>6. /\ disk \in [Inums -> Dinodes] /\ mem \in [Inums -> Dinodes] /\ valid \in [Inums -> BOOLEAN]
      /\ ents \in [Inums -> [Names -> Maybe]] /\ Free \in Dinodes /\ Empty \in [Names -> Maybe] /\ Empty' = Empty
    BY <1>1 DEF TypeOK, Dinodes, Free, Empty, Maybe
<1>7. /\ disk' \in [Inums -> Dinodes] /\ mem' \in [Inums -> Dinodes] /\ valid' \in [Inums -> BOOLEAN]
      /\ ents' \in [Inums -> [Names -> Maybe]]
      /\ disk'[x] = Free /\ ents'[x] = Empty /\ ~valid'[x]
      /\ \A j \in Inums \ {x} : disk'[j] = disk[j] /\ ents'[j] = ents[j] /\ mem'[j] = mem[j] /\ (valid'[j] <=> valid[j])
    BY <1>3, <1>6
<1>8. \A d \in Inums, n \in Names : ents'[d][n] = IF d = x THEN NoInode ELSE ents[d][n]
    BY <1>7 DEF Empty
<1>9. Coherent'
  <2> SUFFICES ASSUME NEW j \in Inums, valid'[j] PROVE mem'[j] = disk'[j] /\ ref'[j] > 0 /\ disk'[j].type # "free"
      BY DEF Coherent, Allocated
  <2>1. j # x /\ valid[j]
      BY <1>7
  <2> QED BY <2>1, <1>1, <1>2, <1>7 DEF Coherent, Allocated
<1>10. Types'
    BY <1>1, <1>2, <1>7 DEF Types, TypeOK, Dinodes, Maybe
<1>11. Own(p)'
  <2>1. Local(p)'
      BY <1>1, <1>2 DEF Own, Local
  <2>2. /\ fd[p] \in Maybe /\ dp[p] \in Maybe /\ ip[p] \in Maybe /\ cwd[p] \in Inums
        /\ Local(p) /\ Held(p) /\ Kinds(p) /\ Locked(p) /\ Fresh(p)
        /\ fd[p] # x /\ dp[p] # x /\ ip[p] # x /\ (pc[p] # "chdir_end" => cwd[p] # x)
      BY <1>1, <1>4, Here
  <2>3. \A i \in Maybe : i # NoInode /\ i # x => disk'[i] = disk[i] /\ ents'[i] = ents[i]
      BY <1>7 DEF Maybe
  <2>4. Held(p)'
      BY <1>2, <1>7, <2>2, <2>3 DEF Held, Allocated
  <2>5. Kinds(p)'
      BY <1>2, <2>2, <2>3 DEF Kinds, Local, InParent, HasDir, HasIno
  <2>6. Locked(p)'
      BY <1>2, <1>6, <2>2, <2>3 DEF Locked, Local, HasDir, HasIno
  <2>7. Fresh(p)'
    <3> SUFFICES ASSUME pc[p] = "create_ip" PROVE Fresh(p)'
        BY <1>2 DEF Fresh
    <3>1. PICK y \in Inums : y = ip[p] /\ y # x /\ y # NoInode
        BY <2>2 DEF Local, HasIno, Maybe
    <3>2. disk'[y] = disk[y] /\ ents'[y] = ents[y]
        BY <3>1, <1>7
    <3>3. \A d \in Inums, n \in Names : ents'[d][n] # y
        BY <3>1, <1>8, <2>2 DEF Fresh
    <3> QED BY <1>2, <1>6, <2>2, <3>1, <3>2, <3>3 DEF Fresh
  <2> QED BY <2>1, <2>4, <2>5, <2>6, <2>7 DEF Own
<1>12. Kept(p)
  <2>1. \A q \in Procs \ {p}, i \in Inums : Uses(q, i) => i # x
      BY <1>4 DEF Uses
  <2>2. \A i \in Inums, q \in Procs \ {p} : lock[i] = q => i # x
      BY <1>2, FsAssumption
  <2>3. \A i \in Inums, q \in Procs \ {p} : ip[q] = i => i # x
      BY <1>4
  <2>4. \A i \in Inums : Near(p, i)' => Near(p, i)
      BY <1>2 DEF Near
  <2>5. \A i \in Inums : i # x => disk'[i] = disk[i] /\ ents'[i] = ents[i]
      BY <1>7
  <2>6. \A q \in Procs \ {p}, i \in Inums : Uses(q, i) => disk'[i].type = disk[i].type
      BY <2>1, <2>5
  <2>7. \A i \in Inums, q \in Procs \ {p} : lock[i] = q => lock'[i] = q /\ ents'[i] = ents[i]
      BY <1>2, <2>2, <2>5
  <2>8. \A i \in Inums, q \in Procs \ {p} : ip[q] = i => disk'[i] = disk[i] /\ ents'[i] = ents[i]
      BY <2>3, <2>5
  <2>9. \A d \in Inums, n \in Names : ents'[d][n] \in {ents[d][n], NoInode, ip[p]}
      BY <1>8
  <2>10. Others(p)
      BY <1>2
  <2> QED BY ONLY <2>4, <2>6, <2>7, <2>8, <2>9, <2>10 DEF Kept
<1>13. Tree'
  <2> SUFFICES ASSUME NEW d \in Inums
               PROVE  /\ disk'[d].type # "dir" => ents'[d] = Empty
                      /\ \A n \in Names : ents'[d][n] # NoInode => disk'[ents'[d][n]].type # "free" /\ ents'[d][n] # d
    <3>1. disk'[ROOTINO].type = "dir"
        BY <1>1, <1>5, <1>7, FsAssumption DEF Tree
    <3> QED BY <3>1, <1>6 DEF Tree, Allocated
  <2>1. CASE d = x
      BY <2>1, <1>7, <1>8
  <2>2. CASE d # x
    <3>1. /\ disk[d].type # "dir" => ents[d] = Empty
          /\ \A n \in Names : ents[d][n] # NoInode => disk[ents[d][n]].type # "free" /\ ents[d][n] # d
        BY <1>1 DEF Tree, Allocated
    <3>2. \A n \in Names : ents[d][n] # x /\ ents[d][n] \in Maybe
        BY <1>5, <1>6
    <3> QED BY <2>2, <3>1, <3>2, <1>7 DEF Maybe
  <2> QED BY <2>1, <2>2
<1>14. \A j \in Inums : Owing(j)' = Owing(j)
    BY <1>2 DEF Owing
<1>15. \A j \in Inums : Subdirs(j)' = Subdirs(j)
  <2> SUFFICES ASSUME NEW j \in Inums PROVE Subdirs(j)' = Subdirs(j)
      OBVIOUS
  <2>1. CASE j = x
      BY <2>1, <1>5, <1>8 DEF Subdirs
  <2>2. CASE j # x
    <3>1. \A n \in Names : ents'[j][n] = ents[j][n] /\ ents[j][n] # x /\ ents[j][n] \in Maybe
        BY <2>2, <1>5, <1>6, <1>7
    <3>2. \A n \in Names : ents[j][n] # NoInode => disk'[ents[j][n]] = disk[ents[j][n]]
        BY <3>1, <1>7 DEF Maybe
    <3> QED BY <3>1, <3>2 DEF Subdirs
  <2> QED BY <2>1, <2>2
<1>16. \A j \in Inums : Entries(j)' \subseteq Entries(j) /\ (ents' = ents => Entries(j)' = Entries(j))
  <2> SUFFICES ASSUME NEW j \in Inums
               PROVE  Entries(j)' \subseteq Entries(j) /\ (ents' = ents => Entries(j)' = Entries(j))
      OBVIOUS
  <2>1. j # NoInode
      BY DEF Inums, NoInode
  <2>2. ASSUME NEW r \in Inums \X Names, ents'[r[1]][r[2]] = j PROVE ents[r[1]][r[2]] = j
      BY <2>1, <2>2, <1>8
  <2>3. Entries(j)' \subseteq Entries(j)
      BY <2>2 DEF Entries
  <2>4. ents' = ents => Entries(j)' = Entries(j)
      BY DEF Entries
  <2> QED BY <2>3, <2>4
<1>17. ~stray => ents' = ents
  <2>1. Entries(x) = {}
      BY <1>5 DEF Entries
  <2>2. ~stray => ents[x] = Empty
      BY <2>1, <1>1, <1>5 DEF Rooted
  <2> QED BY <2>2, <1>3, <1>6
<1>18. Rooted'
    BY <1>1, <1>2, <1>6, <1>16, <1>17 DEF Rooted
<1>19. Links'
  <2> SUFFICES ASSUME NEW j \in Inums PROVE disk'[j].nlink >= Counted(j)' /\ (~stray => disk'[j].nlink = Counted(j)')
      BY <1>2 DEF Links
  <2>1. Counted(j)' = Cardinality(Entries(j)') + Cardinality(Subdirs(j)) + Cardinality(Owing(j)) + (IF j = ROOTINO THEN 1 ELSE 0)
      BY <1>14, <1>15 DEF Counted
  <2>2. Counted(j) = Cardinality(Entries(j)) + Cardinality(Subdirs(j)) + Cardinality(Owing(j)) + (IF j = ROOTINO THEN 1 ELSE 0)
      BY DEF Counted
  <2>3. /\ IsFiniteSet(Entries(j)) /\ Cardinality(Entries(j)) \in Nat
        /\ Cardinality(Subdirs(j)) \in Nat /\ Cardinality(Owing(j)) \in Nat
        /\ disk[j].nlink \in Nat /\ disk[j].nlink >= Counted(j) /\ (~stray => disk[j].nlink = Counted(j))
      BY CountParts
  <2>4. Cardinality(Entries(j)') \in Nat /\ Cardinality(Entries(j)') <= Cardinality(Entries(j))
      BY <2>3, <1>16, FS_Subset, FS_CardinalityType
  <2>5. ~stray => Cardinality(Entries(j)') = Cardinality(Entries(j))
      BY <1>16, <1>17
  <2>6. CASE j # x
    <3>1. disk'[j].nlink = disk[j].nlink
        BY <2>6, <1>7
    <3> QED BY <3>1, <2>1, <2>2, <2>3, <2>4, <2>5
  <2>7. CASE j = x
    <3>1. disk'[j].nlink = 0
        BY <2>7, <1>7 DEF Free
    <3>2. Entries(j)' = {} /\ Subdirs(j) = {} /\ Owing(j) = {} /\ j # ROOTINO
      <4>1. Entries(j) = {}
          BY <2>7, <1>5 DEF Entries
      <4> QED BY <4>1, <2>7, <1>5, <1>16
    <3>3. Counted(j)' = 0
        BY <2>1, <3>2, FS_EmptySet
    <3> QED BY <3>1, <3>3
  <2> QED BY <2>6, <2>7
<1> QED BY <1>2, <1>9, <1>10, <1>11, <1>12, <1>13, <1>18, <1>19, Assemble

(* The part of iput that holds the lock of the inode.                      *)
LEMMA IputInductive ==
    ASSUME FsIInv, NEW p \in Procs, NEW x \in Inums, iput(p, x)
    PROVE  FsIInv'
<1>1. CASE valid[x] /\ mem[x].nlink = 0 /\ ref[x] = 1
    BY <1>1, PutFrees
<1>2. CASE ~(valid[x] /\ mem[x].nlink = 0 /\ ref[x] = 1)
  <2>1. Types /\ TypeOK /\ RefExact /\ Coherent /\ Tree /\ Links /\ Rooted /\ Own(p)
      BY DEF FsIInv, Types, Own
  <2>2. /\ put' \in [Procs -> Seq(Inums)] /\ Len(put'[p]) <= 2 /\ drop' \in [Procs -> Maybe]
        /\ ref' = ref /\ lock' = lock /\ fd' = fd /\ cwd' = cwd /\ pc' = pc
        /\ call' = call /\ path' = path /\ new' = new /\ dp' = dp /\ ip' = ip /\ panic' = panic /\ stray' = stray
        /\ Others(p) /\ RefExact'
      BY PutMoves
  <2>3. disk' = disk /\ ents' = ents /\ mem' = mem /\ valid' = valid
      BY <1>2 DEF iput, Iput
  <2>4. Types'
      BY <2>1, <2>2, <2>3 DEF Types, TypeOK
  <2>5. Coherent'
      BY <2>1, <2>2, <2>3 DEF Coherent, Allocated
  <2>6. Own(p)'
    <3>1. Local(p)' /\ Held(p)' /\ Kinds(p)' /\ Locked(p)'
        BY <2>1, <2>2, <2>3 DEF Own, Local, Held, Kinds, Locked, Allocated, Empty
    <3>2. Fresh(p)'
        BY <2>1, <2>2, <2>3 DEF Own, Fresh, Empty
    <3> QED BY <3>1, <3>2 DEF Own
  <2>7. Kept(p)
      BY <2>2, <2>3 DEF Kept, Near
  <2>8. Tree' /\ Links' /\ Rooted'
    <3>1. \A j \in Inums : Owing(j)' = Owing(j)
        BY <2>2 DEF Owing
    <3> QED BY <3>1, <2>1, <2>2, <2>3, NamesSame
  <2> QED BY <2>2, <2>4, <2>5, <2>6, <2>7, <2>8, Assemble
<1> QED BY <1>1, <1>2

----------------------------------------------------------------------------
(* Steps that write or remove a name.                                      *)
RenameStep(p, l, i, s, d, n, y) ==
    /\ Goto(p, l, NoInode, i, s) /\ Rest(p) /\ put[p] = <<>> /\ ref' = ref /\ cwd' = cwd
    /\ \A j \in Inums : Change(p, l, NoInode, i, s, j) = 0
    /\ dp[p] = d /\ i \in {NoInode, ip[p]} /\ y \in {NoInode, ip[p]} /\ EntrySet(d, n, y)
    /\ panic' = FALSE /\ stray' \in BOOLEAN /\ (stray => stray')
    /\ lock' \in [Inums -> Procs \cup {NONE}] /\ lock[d] \in {NONE, p}
    /\ \A j \in Inums : lock'[j] = lock[j] \/ lock[j] \in {NONE, p}
    /\ disk' \in [Inums -> Dinodes] /\ mem' \in [Inums -> Dinodes] /\ valid' \in [Inums -> BOOLEAN] /\ Coherent'
    /\ \A j \in Inums \ {d, ip[p]} : disk'[j] = disk[j]
    /\ disk[d].type = "dir" /\ (y # NoInode => Allocated(y) /\ y # d)
    /\ \A j \in Inums : disk'[j].nlink = disk[j].nlink + B(y = j) - B(ents[d][n] = j)
           + (IF j = d THEN B(IsDir(y)) - B(IsDir(ents[d][n])) ELSE 0)
           + B(i = j /\ Owe(l, call'[p])) - B(ip[p] = j /\ Owe(pc[p], call[p]))
    /\ l \notin {"create_ip", "chdir_end"} /\ pc[p] # "chdir_end"
    /\ Local(p)' /\ Locked(p)' /\ Held(p)' /\ Kinds(p)' /\ Rooted'

LEMMA Rename ==
    ASSUME FsIInv, NEW p \in Procs, NEW l \in Labels, NEW i \in Maybe, NEW s \in Seq(Inums),
           NEW d \in Inums, NEW n \in Names, NEW y \in Maybe, RenameStep(p, l, i, s, d, n, y)
    PROVE  FsIInv'
<1> USE DEF RenameStep
<1>1. /\ pc' \in [Procs -> Labels] /\ dp' \in [Procs -> Maybe] /\ ip' \in [Procs -> Maybe]
      /\ put' \in [Procs -> Seq(Inums)] /\ drop' \in [Procs -> Maybe]
      /\ pc'[p] = l /\ dp'[p] = NoInode /\ ip'[p] = i /\ put'[p] = s /\ drop'[p] = drop[p]
      /\ Others(p)
  <2>1. NoInode \in Maybe
      BY DEF Maybe
  <2> QED BY <2>1, Went
<1>2. RefExact' /\ ref' \in [Inums -> Nat]
  <2>1. NoInode \in Maybe
      BY DEF Maybe
  <2>2. ref' \in [Inums -> Int] /\ \A j \in Inums : ref'[j] = ref[j] + 0
      BY RefsSame
  <2>3. \A j \in Inums : ref'[j] = ref[j] + Change(p, l, NoInode, i, s, j)
      BY <2>2
  <2>4. Goto(p, l, NoInode, i, s) /\ Rest(p) /\ put[p] = <<>>
      OBVIOUS
  <2> QED BY <2>1, <2>2, <2>3, <2>4, WentRefs
<1>3. Types /\ TypeOK /\ RefExact /\ Coherent /\ Tree
    BY DEF FsIInv, Types
<1>4. ents \in [Inums -> [Names -> Maybe]] /\ Empty' = Empty
    BY <1>3 DEF TypeOK, Maybe, Empty
<1>5. /\ ents' \in [Inums -> [Names -> Maybe]] /\ \A e \in Inums \ {d} : ents'[e] = ents[e]
      /\ \A e \in Inums, m \in Names : ents'[e][m] = IF e = d /\ m = n THEN y ELSE ents[e][m]
    BY <1>4 DEF EntrySet
<1>6. \A j \in Inums : disk'[j].type = disk[j].type
    BY DEF EntrySet
<1>7. Types'
    BY <1>1, <1>2, <1>3, <1>5 DEF Types, TypeOK, Rest, Maybe, Dinodes
<1>8. Fresh(p)'
    BY <1>1 DEF Fresh
<1>9. Kept(p)
  <2>1. \A j \in Inums, q \in Procs \ {p} : lock[j] = q => lock'[j] = q /\ j # d
      BY FsAssumption
  <2>2. \A j \in Inums : Near(p, j)' => Near(p, j)
    <3>1. \A j \in Inums : j # NoInode
        BY DEF Inums, NoInode
    <3> QED BY <1>1, <3>1 DEF Near
  <2>3. \A j \in Inums : j # dp[p] /\ j # ip[p] => disk'[j] = disk[j] /\ ents'[j] = ents[j]
      BY <1>5
  <2>4. \A e \in Inums, m \in Names : ents'[e][m] \in {ents[e][m], NoInode, ip[p]}
      BY <1>5
  <2> QED BY <1>1, <1>5, <1>6, <2>1, <2>2, <2>3, <2>4 DEF Kept
<1>10. Tree'
  <2>1. disk'[ROOTINO].type = "dir"
      BY <1>3, <1>6, FsAssumption DEF Tree
  <2>2. ASSUME NEW e \in Inums
        PROVE  /\ disk'[e].type # "dir" => ents'[e] = Empty
               /\ \A m \in Names : ents'[e][m] # NoInode => disk'[ents'[e][m]].type # "free" /\ ents'[e][m] # e
    <3>1. /\ disk[e].type # "dir" => ents[e] = Empty
          /\ \A m \in Names : ents[e][m] # NoInode => disk[ents[e][m]].type # "free" /\ ents[e][m] # e
        BY <1>3 DEF Tree, Allocated
    <3>2. disk'[e].type # "dir" => ents'[e] = Empty
        BY <3>1, <1>5, <1>6
    <3>3. ASSUME NEW m \in Names, ents'[e][m] # NoInode PROVE disk'[ents'[e][m]].type # "free" /\ ents'[e][m] # e
      <4>1. PICK z \in Inums : z = ents'[e][m]
          BY <3>3, <1>5 DEF Maybe
      <4>2. disk[z].type # "free" /\ z # e
          BY <4>1, <3>1, <3>3, <1>5 DEF Allocated
      <4> QED BY <4>1, <4>2, <1>6
    <3> QED BY <3>2, <3>3
  <2> QED BY <2>1, <2>2, <1>4 DEF Tree, Allocated
<1>11. Links'
  <2>1. \A j \in Inums : disk'[j].nlink = disk[j].nlink + B(y = j) - B(ents[d][n] = j)
           + (IF j = d THEN B(IsDir(y)) - B(IsDir(ents[d][n])) ELSE 0)
           + B(ip'[p] = j /\ Owe(pc'[p], call'[p])) - B(ip[p] = j /\ Owe(pc[p], call[p]))
      BY <1>1
  <2> QED BY <2>1, <1>1, EntryLinks
<1> QED BY <1>2, <1>7, <1>8, <1>9, <1>10, <1>11, Assemble DEF Own

(* A directory that gets a name has one itself, unless it was removed.     *)
LEMMA NameAdded ==
    ASSUME FsIInv, NEW p \in Procs, NEW d \in Inums, NEW n \in Names, NEW y \in Inums,
           EntrySet(d, n, y), ents[d][n] = NoInode, ents[y] = Empty, y # d,
           disk[d].type = "dir", lock[d] \in {NONE, p}, pc[p] # "unlink_dec",
           ~stray' => ~stray /\ disk[d].nlink # 0
    PROVE  Rooted'
<1>1. Rooted /\ ents \in [Inums -> [Names -> Maybe]] /\ Empty' = Empty
    BY DEF FsIInv, Types, TypeOK, Maybe, Empty
<1>2. \A e \in Inums, m \in Names : ents'[e][m] = IF e = d /\ m = n THEN y ELSE ents[e][m]
    BY <1>1 DEF EntrySet
<1>3. \A e \in Inums \ {d} : ents'[e] = ents[e]
    BY <1>1 DEF EntrySet
<1>4. ASSUME NEW e \in Inums PROVE Entries(e) \subseteq Entries(e)'
  <2>1. e # NoInode
      BY DEF Inums, NoInode
  <2>2. ASSUME NEW r \in Inums \X Names, ents[r[1]][r[2]] = e PROVE ents'[r[1]][r[2]] = e
      BY <2>1, <2>2, <1>2
  <2> QED BY <2>2 DEF Entries
<1>5. Owing(d) = {}
  <2> SUFFICES ASSUME NEW q \in Procs, ip[q] = d, Owe(pc[q], call[q]) PROVE FALSE
      BY DEF Owing, Owe
  <2>1. Kinds(q) /\ Locked(q)
      BY Here
  <2>2. pc[q] = "unlink_dec"
      BY <2>1 DEF Owe, Kinds
  <2> QED BY <2>1, <2>2, FsAssumption DEF Locked
<1>6. ASSUME ~stray' PROVE d = ROOTINO \/ Entries(d) # {}
  <2> SUFFICES ASSUME d # ROOTINO, Entries(d) = {} PROVE FALSE
      OBVIOUS
  <2>1. ents[d] = Empty
      BY <1>1, <1>6 DEF Rooted
  <2>2. Subdirs(d) = {}
      BY <2>1 DEF Subdirs, Empty
  <2>3. Counted(d) = 0
      BY <1>5, <2>2, FS_EmptySet DEF Counted
  <2> QED BY <1>6, <2>3, CountParts
<1> SUFFICES ASSUME ~stray', NEW e \in Inums, ents'[e] # Empty PROVE e = ROOTINO \/ Entries(e)' # {}
    BY <1>1 DEF Rooted
<1>7. e = ROOTINO \/ Entries(e) # {}
    BY <1>1, <1>3, <1>6 DEF Rooted
<1> QED BY <1>4, <1>7

LEMMA NameRemoved ==
    ASSUME FsIInv, NEW d \in Inums, NEW n \in Names, NEW x \in Inums,
           EntrySet(d, n, NoInode), ents[d][n] = x, ents[x] = Empty, x # d, stray' = stray
    PROVE  Rooted'
<1>1. Rooted /\ ents \in [Inums -> [Names -> Maybe]] /\ Empty' = Empty
    BY DEF FsIInv, Types, TypeOK, Maybe, Empty
<1>2. \A e \in Inums, m \in Names : ents'[e][m] = IF e = d /\ m = n THEN NoInode ELSE ents[e][m]
    BY <1>1 DEF EntrySet
<1>3. \A e \in Inums \ {d} : ents'[e] = ents[e]
    BY <1>1 DEF EntrySet
<1> SUFFICES ASSUME ~stray, NEW e \in Inums, ents'[e] # Empty PROVE e = ROOTINO \/ Entries(e)' # {}
    BY <1>1 DEF Rooted
<1>4. ents[e] # Empty
  <2> SUFFICES ASSUME ents[e] = Empty PROVE ents'[e] = Empty
      OBVIOUS
  <2>1. \A m \in Names : ents'[e][m] = NoInode
      BY <1>2 DEF Empty
  <2>2. ents'[e] \in [Names -> Maybe]
      BY <1>1 DEF EntrySet, Maybe
  <2> QED BY <2>1, <2>2 DEF Empty
<1>5. e # x
    BY <1>3, <1>4
<1>6. e = ROOTINO \/ Entries(e) # {}
    BY <1>1, <1>4 DEF Rooted
<1>7. Entries(e) \subseteq Entries(e)'
  <2>2. ASSUME NEW r \in Inums \X Names, ents[r[1]][r[2]] = e PROVE ents'[r[1]][r[2]] = e
      BY <1>5, <2>2, <1>2
  <2> QED BY <2>2 DEF Entries
<1> QED BY <1>6, <1>7

(* link writes the name it has counted.                                    *)
LEMMA LinkDirlinkInductive ==
    ASSUME FsIInv, NEW p \in Procs, link_dirlink(p)
    PROVE  FsIInv'
<1>1. /\ pc[p] = "link2" /\ put[p] = <<>> /\ lock[dp[p]] \in {NONE, NONE} /\ found(p) = NoInode
      /\ Load({dp[p]}, Inodes) /\ disk' = disk /\ Panics(dp[p], FALSE)
      /\ ents' = [ents EXCEPT ![dp[p]][name(p)] = ip[p]] /\ stray' = (stray \/ In(dp[p]).nlink = 0)
      /\ Goto(p, "end", NoInode, NoInode, <<dp[p], ip[p]>>) /\ Forget(p)
      /\ ref' = ref /\ lock' = lock /\ fd' = fd /\ cwd' = cwd
    BY DEF link_dirlink, At, Ready, Look
<1>2. PICK d \in Inums : d = dp[p] /\ Allocated(d) /\ disk[d].type = "dir"
    BY <1>1, Here DEF Local, Held, Kinds, HasDir, InParent, Maybe
<1>3. PICK x \in Inums : x = ip[p] /\ Allocated(x) /\ disk[x].type = "file" /\ call[p] = "link2"
    BY <1>1, Here DEF Local, Held, Kinds, Maybe
<1>4. PICK n \in Names : n = name(p) /\ ents[d][n] = NoInode
  <2>1. path[p] # <<>>
      BY <1>1, Here DEF Local, Searching, InParent
  <2> QED BY <1>1, <1>2, <2>1, FoundInode DEF found
<1>5. x # d /\ ents[x] = Empty
    BY <1>2, <1>3 DEF FsIInv, Tree
<1>6. Rest(p) /\ call'[p] = NONE /\ path'[p] = <<>> /\ new'[p] = <<>>
  <2>1. fd' \in [Procs -> Maybe] /\ cwd' \in [Procs -> Inums] /\ \A q \in Procs \ {p} : fd'[q] = fd[q] /\ cwd'[q] = cwd[q]
      BY <1>1, Here
  <2> QED BY <1>1, <2>1, Forgotten
<1>7. "end" \in Labels /\ NoInode \in Maybe /\ <<d, x>> \in Seq(Inums) /\ x \in Maybe
    BY DEF Labels, Maybe
<1>8. Goto(p, "end", NoInode, NoInode, <<d, x>>)
    BY <1>1, <1>2, <1>3
<1>9. pc'[p] = "end" /\ dp'[p] = NoInode /\ ip'[p] = NoInode /\ put'[p] = <<d, x>>
    BY <1>6, <1>7, <1>8, Went
<1>10. \A j \in Inums : Change(p, "end", NoInode, NoInode, <<d, x>>, j) = 0
  <2> SUFFICES ASSUME NEW j \in Inums PROVE Change(p, "end", NoInode, NoInode, <<d, x>>, j) = 0
      OBVIOUS
  <2>1. Hold(<<d, x>>, j) = B(d = j) + B(x = j)
      BY Holds
  <2>2. fd'[p] = fd[p] /\ cwd'[p] = cwd[p] /\ j # NoInode
      BY <1>1, Here
  <2> QED BY <1>1, <1>2, <1>3, <2>1, <2>2 DEF Change, B
<1>11. EntrySet(d, n, x)
    BY <1>1, <1>2, <1>3, <1>4 DEF EntrySet
<1>12. stray' \in BOOLEAN /\ (stray => stray') /\ (~stray' => ~stray /\ disk[d].nlink # 0)
  <2>1. In(d) = disk[d] /\ stray \in BOOLEAN
      BY Here DEF FsIInv, Types
  <2> QED BY <2>1, <1>1, <1>2
<1>13. lock[d] \in {NONE, p} /\ lock' \in [Inums -> Procs \cup {NONE}] /\ \A j \in Inums : lock'[j] = lock[j]
    BY <1>1, <1>2, Here
<1>14. Rooted'
  <2>1. pc[p] # "unlink_dec"
      BY <1>1
  <2> QED BY <2>1, <1>2, <1>4, <1>5, <1>11, <1>12, <1>13, NameAdded
<1>15. /\ Coherent' /\ mem' \in [Inums -> Dinodes] /\ valid' \in [Inums -> BOOLEAN] /\ disk' \in [Inums -> Dinodes]
  <2>1. ref[d] > 0
      BY <1>2, Referred DEF FsIInv
  <2>2. Load({d}, Inodes) /\ disk' = disk /\ ref'[d] > 0 /\ \A j \in Inums : ref[j] > 0 => ref'[j] > 0
      BY <1>1, <1>2, <2>1
  <2>3. disk \in [Inums -> Dinodes]
      BY DEF FsIInv, Types, TypeOK, Dinodes
  <2> QED BY <2>2, <2>3, <1>2, LookCoherent DEF Dinodes
<1>16. panic' = FALSE
    BY <1>1, <1>2, NoPanic
<1>17. ASSUME NEW j \in Inums
       PROVE  disk'[j].nlink = disk[j].nlink + B(x = j) - B(ents[d][n] = j)
           + (IF j = d THEN B(IsDir(x)) - B(IsDir(ents[d][n])) ELSE 0)
           + B(NoInode = j /\ Owe("end", call'[p])) - B(ip[p] = j /\ Owe(pc[p], call[p]))
  <2>1. disk'[j].nlink = disk[j].nlink /\ disk[j].nlink \in Nat /\ j # NoInode
      BY <1>1, CountParts, Here
  <2>2. ~IsDir(x) /\ ~IsDir(ents[d][n]) /\ Owe(pc[p], call[p])
      BY <1>3, <1>4 DEF IsDir, Owe
  <2> QED BY ONLY <2>1, <2>2, <1>3, <1>4 DEF B
<1>18. Local(p)' /\ Held(p)' /\ Kinds(p)' /\ Locked(p)'
  <2>1. Len(<<d, x>>) <= 2
      OBVIOUS
  <2>2. fd'[p] = fd[p] /\ cwd'[p] = cwd[p]
      BY <1>1
  <2>3. Local(p)'
      BY <1>6, <1>9, <2>1, FsAssumption DEF Local, HasDir, HasIno, Searching, InParent, InCalls, SysCalls
  <2>4. Held(p)'
      BY <1>1, <1>9, <2>2, Here DEF Held, Allocated
  <2>5. Kinds(p)'
      BY <1>6, <1>9, FsAssumption DEF Kinds, InParent
  <2>6. Locked(p)'
      BY <1>9 DEF Locked
  <2> QED BY <2>3, <2>4, <2>5, <2>6
<1>19. RenameStep(p, "end", NoInode, <<d, x>>, d, n, x)
    BY <1>1, <1>2, <1>3, <1>5, <1>6, <1>8, <1>10, <1>11, <1>12, <1>13, <1>14, <1>15, <1>16, <1>17, <1>18 DEF RenameStep
<1> QED BY <1>7, <1>19, Rename

(* unlink removes the name, which is still counted.                        *)
LEMMA UnlinkIpInductive ==
    ASSUME FsIInv, NEW p \in Procs, unlink_ip(p)
    PROVE  FsIInv'
<1> DEFINE k == IF In(ip[p]).type = "dir" THEN -1 ELSE 0
<1>1. /\ pc[p] = "unlink_ip" /\ put[p] = <<>> /\ lock[ip[p]] \in {NONE, NONE} /\ (In(ip[p]).type = "dir" => ents[ip[p]] = Empty)
      /\ iupdate({dp[p], ip[p]}, Linked(dp[p], k)) /\ Panics(ip[p], In(ip[p]).nlink < 1)
      /\ ents' = [ents EXCEPT ![dp[p]][name(p)] = NoInode] /\ lock' = [lock EXCEPT ![dp[p]] = NONE, ![ip[p]] = p]
      /\ Goto(p, "unlink_dec", NoInode, ip[p], <<dp[p]>>) /\ Forget(p)
      /\ ref' = ref /\ fd' = fd /\ cwd' = cwd /\ stray' = stray
    BY DEF unlink_ip, At, Ready, isdirempty
<1>2. PICK d \in Inums : d = dp[p] /\ Allocated(d) /\ disk[d].type = "dir" /\ lock[d] = p
    BY <1>1, Here DEF Local, Held, Kinds, Locked, HasDir, InParent, Maybe
<1>3. PICK x \in Inums : x = ip[p] /\ Allocated(x) /\ x # NoInode
    BY <1>1, Here DEF Local, Held, HasIno, Maybe
<1>4. PICK n \in Names : n = name(p) /\ ents[d][n] = x
  <2>1. path[p] # <<>>
      BY <1>1, Here DEF Local, Searching, InParent
  <2>2. name(p) \in Names
      BY <1>2, <2>1, FoundInode
  <2> QED BY <1>1, <1>2, <1>3, <2>2, Here DEF Locked, name
<1>5. x # d /\ ents[x] = Empty /\ In(x) = disk[x]
  <2>1. x # d
      BY <1>3, <1>4 DEF FsIInv, Tree
  <2>2. In(x) = disk[x]
      BY Here
  <2>3. disk[x].type # "dir" => ents[x] = Empty
      BY DEF FsIInv, Tree
  <2> QED BY <2>1, <2>2, <2>3, <1>1, <1>3
<1>6. Rest(p) /\ call'[p] = NONE /\ path'[p] = <<>> /\ new'[p] = <<>>
  <2>1. fd' \in [Procs -> Maybe] /\ cwd' \in [Procs -> Inums] /\ \A q \in Procs \ {p} : fd'[q] = fd[q] /\ cwd'[q] = cwd[q]
      BY <1>1, Here
  <2> QED BY <1>1, <2>1, Forgotten
<1>7. "unlink_dec" \in Labels /\ NoInode \in Maybe /\ <<d>> \in Seq(Inums) /\ x \in Maybe
    BY DEF Labels, HasIno, Maybe
<1>8. Goto(p, "unlink_dec", NoInode, x, <<d>>)
    BY <1>1, <1>2, <1>3
<1>9. pc'[p] = "unlink_dec" /\ dp'[p] = NoInode /\ ip'[p] = x /\ put'[p] = <<d>>
    BY <1>6, <1>7, <1>8, Went
<1>10. \A j \in Inums : Change(p, "unlink_dec", NoInode, x, <<d>>, j) = 0
  <2> SUFFICES ASSUME NEW j \in Inums PROVE Change(p, "unlink_dec", NoInode, x, <<d>>, j) = 0
      OBVIOUS
  <2>1. Hold(<<d>>, j) = B(d = j)
      BY Holds
  <2>2. fd'[p] = fd[p] /\ cwd'[p] = cwd[p] /\ j # NoInode
      BY <1>1, Here
  <2> QED BY <1>1, <1>2, <1>3, <2>1, <2>2 DEF Change, B
<1>11. k \in Int /\ k = -B(IsDir(x)) /\ disk[d].nlink + k \in Nat /\ disk[x].nlink >= 1
  <2>1. k \in Int /\ k = -B(IsDir(x))
      BY <1>3, <1>5 DEF B, IsDir
  <2>2. IsDir(x) => n \in Subdirs(d)
      BY <1>3, <1>4 DEF IsDir, Subdirs
  <2>3. IsDir(x) => disk[d].nlink >= 1
      BY <2>2, NamedIsLinked
  <2>4. disk[d].nlink \in Nat
      BY CountParts
  <2>5. disk[x].nlink >= 1
      BY <1>4, NamedIsLinked
  <2> HIDE DEF k
  <2> QED BY <2>1, <2>3, <2>4, <2>5 DEF B
<1> HIDE DEF k
<1>12. /\ iupdate({d, x}, Linked(d, k)) /\ {d, x} \in SUBSET Inums
       /\ \A j \in Inums : /\ Linked(d, k)[j] \in Dinodes /\ Linked(d, k)[j].type = disk[j].type
                           /\ Linked(d, k)[j].nlink = disk[j].nlink + (IF j = d THEN k ELSE 0)
    BY <1>1, <1>2, <1>3, <1>11, LinkedIs
<1>13. /\ Coherent' /\ disk' \in [Inums -> Dinodes] /\ mem' \in [Inums -> Dinodes] /\ valid' \in [Inums -> BOOLEAN]
       /\ \A j \in Inums : disk'[j] = IF j \in {d, x} THEN Linked(d, k)[j] ELSE disk[j]
       /\ \A j \in Inums : disk'[j].type = disk[j].type
  <2>1. ref[d] > 0 /\ ref[x] > 0
      BY <1>2, <1>3, Referred DEF FsIInv
  <2>2. \A j \in {d, x} : Linked(d, k)[j] \in Dinodes /\ Linked(d, k)[j].type = disk[j].type /\ Allocated(j) /\ ref'[j] > 0
      BY <1>1, <1>2, <1>3, <1>12, <2>1
  <2>3. \A j \in Inums : ref[j] > 0 => ref'[j] > 0
      BY <1>1
  <2> QED BY <1>12, <2>2, <2>3, Written
<1>14. EntrySet(d, n, NoInode)
    BY <1>1, <1>2, <1>4, <1>13 DEF EntrySet
<1>15. Rooted'
    BY <1>1, <1>4, <1>5, <1>14, NameRemoved
<1>16. /\ lock' \in [Inums -> Procs \cup {NONE}] /\ lock'[x] = p
       /\ \A j \in Inums : lock'[j] = lock[j] \/ lock[j] \in {NONE, p}
  <2>1. lock \in [Inums -> Procs \cup {NONE}] /\ lock' = [lock EXCEPT ![d] = NONE, ![x] = p] /\ lock[x] = NONE
      BY <1>1, <1>2, <1>3, Here
  <2> QED BY <2>1, <1>2
<1>17. panic' = FALSE
  <2>1. ~(disk[x].nlink < 1)
      BY <1>11, CountParts
  <2>2. panic' = (disk[x].type = "free" \/ disk[x].nlink < 1)
      BY <1>1, <1>3, <1>5 DEF Panics
  <2> QED BY <2>1, <2>2, <1>3 DEF Allocated
<1>18. ASSUME NEW j \in Inums
       PROVE  disk'[j].nlink = disk[j].nlink + B(NoInode = j) - B(ents[d][n] = j)
           + (IF j = d THEN B(IsDir(NoInode)) - B(IsDir(ents[d][n])) ELSE 0)
           + B(x = j /\ Owe("unlink_dec", call'[p])) - B(ip[p] = j /\ Owe(pc[p], call[p]))
  <2>1. disk[j].nlink \in Nat /\ j # NoInode
      BY CountParts, Here
  <2>2. disk'[j].nlink = disk[j].nlink + (IF j = d THEN k ELSE 0)
    <3>1. CASE j \in {d, x}
        BY <3>1, <1>12, <1>13
    <3>2. CASE j \notin {d, x}
        BY <3>2, <2>1, <1>13
    <3> QED BY <3>1, <3>2
  <2>3. ~IsDir(NoInode) /\ Owe("unlink_dec", call'[p])
      BY DEF IsDir, Owe
  <2>4. call[p] # "link2"
      BY <1>1, Here DEF Local
  <2>5. ~Owe(pc[p], call[p])
      BY <2>4, <1>1 DEF Owe
  <2>6. k = -B(IsDir(x)) /\ ents[d][n] = x
      BY <1>4, <1>11
  <2> QED BY ONLY <2>1, <2>2, <2>3, <2>5, <2>6 DEF B
<1>19. Local(p)' /\ Held(p)' /\ Kinds(p)' /\ Locked(p)'
  <2>1. Len(<<d>>) <= 2
      OBVIOUS
  <2>2. fd'[p] = fd[p] /\ cwd'[p] = cwd[p] /\ x # NoInode
      BY <1>1, <1>3
  <2>3. Local(p)'
      BY <1>6, <1>9, <2>1, <2>2, FsAssumption DEF Local, HasDir, HasIno, Searching, InParent, InCalls, SysCalls
  <2>4. Held(p)'
      BY <1>1, <1>3, <1>9, <1>13, <2>2, Here DEF Held, Allocated, Maybe
  <2>5. Kinds(p)'
      BY <1>6, <1>9, FsAssumption DEF Kinds, InParent
  <2>6. ents'[x] = Empty /\ Empty' = Empty
    <3>1. ents \in [Inums -> [Names -> Maybe]]
        BY DEF FsIInv, Types, TypeOK, Maybe
    <3> QED BY <3>1, <1>5, <1>14 DEF EntrySet, Empty
  <2>7. Locked(p)'
      BY <1>9, <1>16, <2>6 DEF Locked
  <2> QED BY <2>3, <2>4, <2>5, <2>7
<1>20. stray \in BOOLEAN
    BY DEF FsIInv, Types
<1>21. RenameStep(p, "unlink_dec", x, <<d>>, d, n, NoInode)
  <2>1. \A j \in Inums \ {d, ip[p]} : disk'[j] = disk[j]
      BY <1>3, <1>13
  <2> QED BY <2>1, <1>1, <1>2, <1>3, <1>6, <1>8, <1>10, <1>13, <1>14, <1>15, <1>16, <1>17, <1>18, <1>19, <1>20 DEF RenameStep
<1> QED BY <1>7, <1>21, Rename

(* create gives the inode it made a name.                                  *)
LEMMA CreateIpInductive ==
    ASSUME FsIInv, NEW p \in Procs, create_ip(p)
    PROVE  FsIInv'
<1> DEFINE k == IF call[p] = "mkdir" THEN 1 ELSE 0
<1>1. /\ pc[p] = "create_ip" /\ put[p] = <<>> /\ lock[ip[p]] \in {NONE, NONE}
      /\ iupdate({dp[p], ip[p]}, [Linked(dp[p], k) EXCEPT ![ip[p]].nlink = 1]) /\ Panics(ip[p], FALSE)
      /\ ents' = [ents EXCEPT ![dp[p]][name(p)] = ip[p], ![ip[p]] = Empty]
      /\ stray' = (stray \/ In(dp[p]).nlink = 0) /\ lock' = [lock EXCEPT ![dp[p]] = NONE, ![ip[p]] = p]
      /\ Goto(p, "open", NoInode, ip[p], <<dp[p]>>)
      /\ ref' = ref /\ fd' = fd /\ cwd' = cwd /\ call' = call /\ path' = path /\ new' = new
    BY DEF create_ip, At, Ready, locals
<1>2. PICK d \in Inums : d = dp[p] /\ Allocated(d) /\ disk[d].type = "dir" /\ lock[d] = p
    BY <1>1, Here DEF Local, Held, Kinds, Locked, HasDir, InParent, Maybe
<1>3. PICK x \in Inums : x = ip[p] /\ Allocated(x) /\ x # NoInode
    BY <1>1, Here DEF Local, Held, HasIno, Maybe
<1>4. PICK n \in Names : n = name(p) /\ ents[d][n] = NoInode
  <2>1. path[p] # <<>>
      BY <1>1, Here DEF Local, Searching, InParent
  <2>2. name(p) \in Names
      BY <1>2, <2>1, FoundInode
  <2> QED BY <1>1, <1>2, <1>3, <2>2, Here DEF Locked, name
<1>5. x # d /\ ents[x] = Empty /\ disk[x].nlink = 0 /\ disk[x].type = (IF call[p] = "mkdir" THEN "dir" ELSE "file")
      /\ call[p] \in {"create", "mkdir"}
    BY <1>1, <1>2, <1>3, Here DEF Fresh, Local
<1>6. Rest(p)
    BY <1>1, Here DEF Rest
<1>7. "open" \in Labels /\ NoInode \in Maybe /\ <<d>> \in Seq(Inums) /\ x \in Maybe
    BY DEF Labels, HasIno, Maybe
<1>8. Goto(p, "open", NoInode, x, <<d>>)
    BY <1>1, <1>2, <1>3
<1>9. pc'[p] = "open" /\ dp'[p] = NoInode /\ ip'[p] = x /\ put'[p] = <<d>>
    BY <1>6, <1>7, <1>8, Went
<1>10. \A j \in Inums : Change(p, "open", NoInode, x, <<d>>, j) = 0
  <2> SUFFICES ASSUME NEW j \in Inums PROVE Change(p, "open", NoInode, x, <<d>>, j) = 0
      OBVIOUS
  <2>1. Hold(<<d>>, j) = B(d = j)
      BY Holds
  <2>2. fd'[p] = fd[p] /\ cwd'[p] = cwd[p] /\ j # NoInode
      BY <1>1, Here
  <2> QED BY <1>1, <1>2, <1>3, <2>1, <2>2 DEF Change, B
<1>11. k \in Int /\ k = B(IsDir(x)) /\ disk[d].nlink + k \in Nat
  <2>1. k \in {0, 1} /\ k = B(IsDir(x))
      BY <1>3, <1>5 DEF B, IsDir
  <2>2. disk[d].nlink \in Nat
      BY CountParts
  <2> HIDE DEF k
  <2> QED BY <2>1, <2>2
<1> HIDE DEF k
<1>12. \A j \in Inums : /\ Linked(d, k)[j] \in Dinodes /\ Linked(d, k)[j].type = disk[j].type
                        /\ Linked(d, k)[j].nlink = disk[j].nlink + (IF j = d THEN k ELSE 0)
    BY <1>11, LinkedIs
<1>13. PICK f : iupdate({d, x}, f) /\ f = [Linked(d, k) EXCEPT ![x].nlink = 1]
    BY <1>1, <1>2, <1>3
<1>14. \A j \in {d, x} : /\ f[j] \in Dinodes /\ f[j].type = disk[j].type
                         /\ f[j].nlink = disk[j].nlink + (IF j = d THEN k ELSE 1)
  <2>1. DOMAIN Linked(d, k) = Inums
      BY DEF Linked, Inodes
  <2>2. f[d] = Linked(d, k)[d]
      BY <2>1, <1>5, <1>13
  <2>3. f[x] = [Linked(d, k)[x] EXCEPT !.nlink = 1]
      BY <2>1, <1>13
  <2>4. f[x] \in Dinodes /\ f[x].type = disk[x].type /\ f[x].nlink = 1
      BY <2>3, <1>12 DEF Dinodes
  <2> QED BY <2>2, <2>4, <1>5, <1>12
<1>15. /\ Coherent' /\ disk' \in [Inums -> Dinodes] /\ mem' \in [Inums -> Dinodes] /\ valid' \in [Inums -> BOOLEAN]
       /\ \A j \in Inums : disk'[j] = IF j \in {d, x} THEN f[j] ELSE disk[j]
       /\ \A j \in Inums : disk'[j].type = disk[j].type
  <2>1. ref[d] > 0 /\ ref[x] > 0
      BY <1>2, <1>3, Referred DEF FsIInv
  <2>2. \A j \in {d, x} : f[j] \in Dinodes /\ f[j].type = disk[j].type /\ Allocated(j) /\ ref'[j] > 0
      BY <1>1, <1>2, <1>3, <1>14, <2>1
  <2>3. \A j \in Inums : ref[j] > 0 => ref'[j] > 0
      BY <1>1
  <2>4. {d, x} \in SUBSET Inums
      OBVIOUS
  <2>5. iupdate({d, x}, f)
      BY <1>13
  <2> HIDE <1>13, <1>14
  <2> QED BY <2>2, <2>3, <2>4, <2>5, Written
<1>16. EntrySet(d, n, x)
  <2>1. ents \in [Inums -> [Names -> Maybe]]
      BY DEF FsIInv, Types, TypeOK, Maybe
  <2>2. ents' = [ents EXCEPT ![d][n] = x, ![x] = Empty]
      BY <1>1, <1>2, <1>3, <1>4
  <2>3. ents' = [ents EXCEPT ![d][n] = x]
    <3> DEFINE g == [ents EXCEPT ![d][n] = x]
    <3>1. g \in [Inums -> [Names -> Maybe]] /\ g[x] = Empty
        BY <2>1, <1>5 DEF Maybe
    <3>2. ents' = [g EXCEPT ![x] = Empty]
        BY <2>2
    <3> HIDE DEF g
    <3>3. ents' = g
        BY <3>1, <3>2
    <3> QED BY <3>3 DEF g
  <2> QED BY <2>3, <1>15 DEF EntrySet
<1>17. stray' \in BOOLEAN /\ (stray => stray') /\ (~stray' => ~stray /\ disk[d].nlink # 0)
  <2>1. In(d) = disk[d] /\ stray \in BOOLEAN
      BY Here DEF FsIInv, Types
  <2> QED BY <2>1, <1>1, <1>2
<1>18. Rooted'
  <2>1. pc[p] # "unlink_dec" /\ lock[d] \in {NONE, p}
      BY <1>1, <1>2
  <2> QED BY <2>1, <1>2, <1>4, <1>5, <1>16, <1>17, NameAdded
<1>19. /\ lock' \in [Inums -> Procs \cup {NONE}]
       /\ \A j \in Inums : lock'[j] = lock[j] \/ lock[j] \in {NONE, p}
  <2>1. lock \in [Inums -> Procs \cup {NONE}] /\ lock' = [lock EXCEPT ![d] = NONE, ![x] = p] /\ lock[x] = NONE
      BY <1>1, <1>2, <1>3, Here
  <2> QED BY <2>1, <1>2
<1>20. panic' = FALSE
    BY <1>1, <1>3, NoPanic
<1>21. ~Owe(pc[p], call[p]) /\ ~Owe("open", call'[p])
    BY <1>1, <1>5 DEF Owe
<1>22. ASSUME NEW j \in Inums
       PROVE  disk'[j].nlink = disk[j].nlink + B(x = j) - B(ents[d][n] = j)
           + (IF j = d THEN B(IsDir(x)) - B(IsDir(ents[d][n])) ELSE 0)
           + B(x = j /\ Owe("open", call'[p])) - B(ip[p] = j /\ Owe(pc[p], call[p]))
  <2>1. disk[j].nlink \in Nat /\ j # NoInode
      BY CountParts, Here
  <2>2. disk'[j].nlink = disk[j].nlink + (IF j = d THEN k ELSE IF j = x THEN 1 ELSE 0)
    <3>1. CASE j \in {d, x}
        BY <3>1, <1>14, <1>15
    <3>2. CASE j \notin {d, x}
        BY <3>2, <2>1, <1>15
    <3> QED BY <3>1, <3>2
  <2>3. ~IsDir(ents[d][n]) /\ ents[d][n] # j
      BY <2>1, <1>4 DEF IsDir
  <2> QED BY ONLY <2>1, <2>2, <2>3, <1>5, <1>11, <1>21 DEF B
<1>23. Local(p)' /\ Held(p)' /\ Kinds(p)' /\ Locked(p)'
  <2>1. Len(<<d>>) <= 2
      OBVIOUS
  <2>2. fd'[p] = fd[p] /\ cwd'[p] = cwd[p] /\ call'[p] = call[p] /\ x # NoInode
      BY <1>1, <1>3
  <2>3. Local(p)'
      BY <1>1, <1>5, <1>9, <2>1, <2>2, Here DEF Local, HasDir, HasIno, Searching, InParent
  <2>4. Held(p)'
      BY <1>1, <1>3, <1>9, <1>15, <2>2, Here DEF Held, Allocated, Maybe
  <2>5. Kinds(p)'
      BY <1>5, <1>9, <2>2 DEF Kinds, InParent
  <2>7. Locked(p)'
      BY <1>9 DEF Locked
  <2> QED BY <2>3, <2>4, <2>5, <2>7
<1>24. RenameStep(p, "open", x, <<d>>, d, n, x)
  <2>1. \A j \in Inums \ {d, ip[p]} : disk'[j] = disk[j]
      BY <1>3, <1>15
  <2>2. pc[p] # "chdir_end" /\ "open" \notin {"create_ip", "chdir_end"} /\ lock[d] \in {NONE, p}
      BY <1>1, <1>2
  <2> QED BY <2>1, <2>2, <1>1, <1>2, <1>3, <1>5, <1>6, <1>8, <1>10, <1>15, <1>16, <1>17, <1>18, <1>19, <1>20, <1>22, <1>23 DEF RenameStep
<1> QED BY <1>7, <1>24, Rename

(* ialloc takes an inode that nothing refers to.                           *)
LEMMA Unused ==
    ASSUME FsIInv, NEW z \in Inums, ~Allocated(z)
    PROVE  /\ ~valid[z] /\ ents[z] = Empty /\ z # ROOTINO
           /\ \A d \in Inums, n \in Names : ents[d][n] # z
           /\ \A q \in Procs : fd[q] # z /\ dp[q] # z /\ ip[q] # z /\ (pc[q] # "chdir_end" => cwd[q] # z)
           /\ Entries(z) = {} /\ Subdirs(z) = {} /\ Owing(z) = {}
<1>1. Coherent /\ Tree
    BY DEF FsIInv
<1>2. z # NoInode
    BY DEF Inums, NoInode
<1>3. ~valid[z] /\ ents[z] = Empty /\ z # ROOTINO
    BY <1>1 DEF Coherent, Tree, Allocated
<1>4. \A d \in Inums, n \in Names : ents[d][n] # z
    BY <1>1, <1>2 DEF Tree
<1>5. \A q \in Procs : fd[q] # z /\ dp[q] # z /\ ip[q] # z /\ (pc[q] # "chdir_end" => cwd[q] # z)
    BY <1>2, Here DEF Held
<1>6. Entries(z) = {} /\ Owing(z) = {}
    BY <1>4, <1>5 DEF Entries, Owing
<1>7. Subdirs(z) = {}
    BY <1>3 DEF Subdirs, Empty
<1> QED BY <1>3, <1>4, <1>5, <1>6, <1>7

(* create takes an inode, with the directory locked.                       *)
LEMMA CreateNewInductive ==
    ASSUME FsIInv, NEW p \in Procs, create_new(p)
    PROVE  FsIInv'
<1> DEFINE k == IF call[p] = "mkdir" THEN "dir" ELSE "file"
<1>1. /\ pc[p] \in {"create", "mkdir"} /\ put[p] = <<>> /\ lock[dp[p]] = NONE /\ found(p) = NoInode
      /\ \E i \in Inums : disk[i].type = "free"
      /\ Load({dp[p]}, Inodes) /\ Panics(dp[p], FALSE) /\ disk' = [disk EXCEPT ![ialloc] = [type |-> k, nlink |-> 0]]
      /\ idup(ialloc) /\ lock' = [lock EXCEPT ![dp[p]] = p]
      /\ Goto(p, "create_ip", dp[p], ialloc, <<>>)
      /\ ents' = ents /\ fd' = fd /\ cwd' = cwd /\ call' = call /\ path' = path /\ new' = new /\ stray' = stray
    BY DEF create_new, iget, NoDinode, At, Ready, locals
<1>2. PICK d \in Inums : d = dp[p] /\ Allocated(d) /\ disk[d].type = "dir" /\ lock[d] = NONE
    BY <1>1, Here DEF Local, Held, Kinds, HasDir, InParent, Maybe
<1>3. PICK z \in Inums : z = ialloc /\ ~Allocated(z)
  <2>1. {i \in Inums : disk[i].type = "free"} # {}
      BY <1>1
  <2> QED BY <2>1, Least DEF ialloc, Allocated
<1>4. /\ ~valid[z] /\ ents[z] = Empty /\ z # ROOTINO
      /\ \A e \in Inums, n \in Names : ents[e][n] # z
      /\ \A q \in Procs : fd[q] # z /\ dp[q] # z /\ ip[q] # z /\ (pc[q] # "chdir_end" => cwd[q] # z)
      /\ Entries(z) = {} /\ Subdirs(z) = {} /\ Owing(z) = {}
    BY <1>3, Unused
<1>5. /\ z # d /\ z # NoInode /\ path[p] # <<>> /\ ents[d][name(p)] = NoInode /\ ip[p] = NoInode
      /\ call[p] = pc[p] /\ name(p) = path[p][1]
  <2>1. path[p] # <<>> /\ ip[p] = NoInode /\ call[p] = pc[p]
      BY <1>1, Here DEF Local, Searching, InParent, HasIno
  <2> QED BY <2>1, <1>1, <1>2, <1>3, Here DEF found, name
<1>6. Types /\ TypeOK /\ RefExact /\ Coherent /\ Tree /\ Links /\ Rooted /\ Empty' = Empty
    BY DEF FsIInv, Types, Empty
<1>7. /\ disk \in [Inums -> Dinodes] /\ mem \in [Inums -> Dinodes] /\ valid \in [Inums -> BOOLEAN]
      /\ ents \in [Inums -> [Names -> Maybe]] /\ k \in {"dir", "file"}
    BY <1>6 DEF TypeOK, Dinodes, Maybe
<1> HIDE DEF k
<1>8. /\ disk' \in [Inums -> Dinodes] /\ disk'[z].type = k /\ disk'[z].nlink = 0
      /\ \A j \in Inums \ {z} : disk'[j] = disk[j]
  <2>1. [type |-> k, nlink |-> 0] \in Dinodes
      BY <1>7 DEF Dinodes
  <2>2. disk' = [disk EXCEPT ![z] = [type |-> k, nlink |-> 0]]
      BY <1>1, <1>3
  <2> QED BY <2>1, <2>2, <1>7
<1>9. Rest(p)
    BY <1>1, Here DEF Rest
<1>10. "create_ip" \in Labels /\ d \in Maybe /\ z \in Maybe /\ <<>> \in Seq(Inums) /\ Goto(p, "create_ip", d, z, <<>>)
    BY <1>1, <1>2, <1>3 DEF Labels, HasIno, Maybe
<1>11. /\ pc' \in [Procs -> Labels] /\ dp' \in [Procs -> Maybe] /\ ip' \in [Procs -> Maybe]
       /\ put' \in [Procs -> Seq(Inums)] /\ drop' \in [Procs -> Maybe]
       /\ pc'[p] = "create_ip" /\ dp'[p] = d /\ ip'[p] = z /\ put'[p] = <<>> /\ drop'[p] = drop[p]
       /\ Others(p)
    BY <1>9, <1>10, Went
<1>12. ref' \in [Inums -> Int] /\ \A j \in Inums : ref'[j] = ref[j] + B(z = j) /\ ref'[j] >= ref[j]
  <2>1. idup(z)
      BY <1>1, <1>3
  <2> QED BY <2>1, RefsGot
<1>13. RefExact' /\ ref' \in [Inums -> Nat]
  <2>1. ASSUME NEW j \in Inums PROVE Change(p, "create_ip", d, z, <<>>, j) = B(z = j)
    <3>1. Hold(<<>>, j) = 0
        BY Holds
    <3>2. fd'[p] = fd[p] /\ cwd'[p] = cwd[p] /\ j # NoInode /\ pc[p] # "chdir_end"
        BY <1>1, Here
    <3> QED BY <3>1, <3>2, <1>2, <1>5 DEF Change, B
  <2>2. \A j \in Inums : ref'[j] = ref[j] + Change(p, "create_ip", d, z, <<>>, j)
      BY <2>1, <1>12
  <2>3. put[p] = <<>> /\ Goto(p, "create_ip", d, z, <<>>) /\ Rest(p) /\ ref' \in [Inums -> Int]
      BY <1>1, <1>9, <1>10, <1>12
  <2>4. "create_ip" \in Labels /\ d \in Maybe /\ z \in Maybe /\ <<>> \in Seq(Inums)
      BY <1>10
  <2> HIDE <1>1, <1>2, <1>3
  <2> QED BY ONLY FsIInv, p \in Procs, <2>2, <2>3, <2>4, WentRefs
<1>14. /\ mem' \in [Inums -> Dinodes] /\ valid' \in [Inums -> BOOLEAN] /\ Coherent'
  <2>1. \A i \in Inums : In(i) = disk[i]
      BY Here
  <2>2. mem' = [i \in Inums |-> IF i \in {d} THEN disk[i] ELSE mem[i]] /\ valid' = [i \in Inums |-> valid[i] \/ i \in {d}]
      BY <2>1, <1>1, <1>2 DEF Load, Inodes
  <2>3. mem' \in [Inums -> Dinodes]
      BY <2>2, <1>7
  <2>4. valid' \in [Inums -> BOOLEAN]
      BY <2>2
  <2>5. ASSUME NEW j \in Inums, valid'[j] PROVE mem'[j] = disk'[j] /\ ref'[j] > 0 /\ disk'[j].type # "free"
    <3>1. ref[d] > 0
        BY <1>2, <1>6, Referred
    <3>2. j = d \/ (j # d /\ valid[j])
        BY <2>2, <2>5
    <3>3. ref[j] > 0 /\ disk[j].type # "free" /\ mem'[j] = disk[j] /\ j # z
        BY <3>1, <3>2, <2>2, <1>2, <1>4, <1>5, <1>6 DEF Coherent, Allocated
    <3>4. ref[j] \in Nat /\ ref'[j] \in Nat /\ ref'[j] >= ref[j]
        BY <1>6, <1>12, <1>13 DEF TypeOK
    <3>5. ref'[j] > 0
        BY <3>3, <3>4
    <3> QED BY <3>3, <3>5, <1>8
  <2> QED BY <2>3, <2>4, <2>5 DEF Coherent, Allocated
<1>15. lock' \in [Inums -> Procs \cup {NONE}] /\ lock'[d] = p /\ \A j \in Inums \ {d} : lock'[j] = lock[j]
  <2>1. lock \in [Inums -> Procs \cup {NONE}] /\ lock' = [lock EXCEPT ![d] = p]
      BY <1>1, <1>2, Here
  <2> QED BY <2>1
<1>16. panic' = FALSE
    BY <1>1, <1>2, NoPanic
<1>17. Types'
    BY <1>1, <1>6, <1>7, <1>8, <1>9, <1>11, <1>13, <1>14, <1>15, <1>16 DEF Types, TypeOK, Rest, Maybe, Dinodes
<1>18. Own(p)'
  <2>1. Len(<<>>) <= 2
      OBVIOUS
  <2>2. fd'[p] = fd[p] /\ cwd'[p] = cwd[p] /\ call'[p] = call[p] /\ path'[p] = path[p] /\ new'[p] = new[p] /\ d # NoInode
      BY <1>1, Here
  <2>3. Local(p)'
      BY <1>1, <1>5, <1>11, <2>1, <2>2, Here DEF Local, HasDir, HasIno, Searching, InParent
  <2>4. Held(p)'
    <3>1. fd[p] # NoInode => fd[p] \in Inums /\ fd[p] # z /\ disk[fd[p]].type # "free"
        BY <1>4, Here DEF Held, Allocated, Maybe
    <3>2. cwd[p] \in Inums /\ cwd[p] # z /\ disk[cwd[p]].type # "free"
        BY <1>1, <1>4, Here DEF Held, Allocated
    <3> QED BY <3>1, <3>2, <1>2, <1>5, <1>7, <1>8, <1>11, <2>2 DEF Held, Allocated
  <2>5. Kinds(p)'
      BY <1>1, <1>2, <1>5, <1>8, <1>11, <2>2 DEF Kinds, InParent
  <2>6. Locked(p)'
      BY <1>1, <1>5, <1>11, <1>15, <2>2 DEF Locked
  <2>7. Fresh(p)'
    <3>1. disk'[z].type = (IF call[p] = "mkdir" THEN "dir" ELSE "file")
        BY <1>8 DEF k
    <3>2. \A q \in Procs \ {p} : dp'[q] # z /\ ip'[q] # z /\ (pc'[q] # "chdir_end" => cwd'[q] # z)
        BY <1>4, <1>11 DEF Others
    <3> QED BY <3>1, <3>2, <1>1, <1>4, <1>5, <1>6, <1>8, <1>11, <2>2 DEF Fresh
  <2> QED BY <2>3, <2>4, <2>5, <2>6, <2>7 DEF Own
<1>19. Kept(p)
  <2>1. \A q \in Procs \ {p}, i \in Inums : Uses(q, i) => disk'[i].type = disk[i].type
      BY <1>4, <1>8 DEF Uses
  <2>2. \A i \in Inums, q \in Procs \ {p} : lock[i] = q => lock'[i] = q /\ ents'[i] = ents[i]
      BY <1>1, <1>2, <1>15, FsAssumption
  <2>3. \A i \in Inums, q \in Procs \ {p} : ip[q] = i => disk'[i] = disk[i] /\ ents'[i] = ents[i]
      BY <1>1, <1>4, <1>8
  <2>4. \A e \in Inums, n \in Names : ents'[e][n] = ents[e][n]
      BY <1>1
  <2>5. \A i \in Inums : Near(p, i)' => Near(p, i) \/ ~Allocated(i)
      BY <1>1, <1>2, <1>3, <1>11 DEF Near
  <2> QED BY <2>1, <2>2, <2>3, <2>4, <2>5, <1>11 DEF Kept
<1>20. \A j \in Inums : Entries(j)' = Entries(j) /\ Subdirs(j)' = Subdirs(j) /\ Owing(j)' = Owing(j)
  <2>1. \A j \in Inums : Entries(j)' = Entries(j)
      BY <1>1 DEF Entries
  <2>2. ASSUME NEW j \in Inums PROVE Subdirs(j)' = Subdirs(j)
    <3>1. \A n \in Names : ents[j][n] # z /\ ents[j][n] \in Maybe
        BY <1>4, <1>7
    <3>2. \A n \in Names : ents[j][n] # NoInode => disk'[ents[j][n]] = disk[ents[j][n]]
        BY <3>1, <1>8 DEF Maybe
    <3> QED BY <3>2, <1>1 DEF Subdirs
  <2>3. ~Owe(pc[p], call[p]) /\ ~Owe(pc'[p], call'[p])
      BY <1>1, <1>5, <1>11 DEF Owe
  <2>4. \A j \in Inums : Owing(j)' = Owing(j)
      BY <2>3, <1>11, OwingSame
  <2> QED BY <2>1, <2>2, <2>4
<1>21. Tree'
  <2>1. disk'[ROOTINO].type = "dir"
      BY <1>4, <1>6, <1>8, FsAssumption DEF Tree
  <2>2. ASSUME NEW e \in Inums
        PROVE  /\ disk'[e].type # "dir" => ents[e] = Empty
               /\ \A m \in Names : ents[e][m] # NoInode => disk'[ents[e][m]].type # "free" /\ ents[e][m] # e
    <3>1. /\ disk[e].type # "dir" => ents[e] = Empty
          /\ \A m \in Names : ents[e][m] # NoInode => disk[ents[e][m]].type # "free" /\ ents[e][m] # e
        BY <1>6 DEF Tree, Allocated
    <3>2. \A m \in Names : ents[e][m] # z /\ ents[e][m] \in Maybe
        BY <1>4, <1>7
    <3> QED BY <3>1, <3>2, <1>4, <1>8 DEF Maybe
  <2> QED BY <2>1, <2>2, <1>1, <1>6 DEF Tree, Allocated
<1>22. Rooted'
    BY <1>1, <1>6, <1>20 DEF Rooted
<1>23. Links'
  <2> SUFFICES ASSUME NEW j \in Inums PROVE disk'[j].nlink >= Counted(j)' /\ (~stray => disk'[j].nlink = Counted(j)')
      BY <1>1 DEF Links
  <2>1. Counted(j)' = Counted(j)
      BY <1>20 DEF Counted
  <2>2. CASE j # z
      BY <2>1, <2>2, <1>8, CountParts
  <2>3. CASE j = z
    <3>1. Counted(j) = 0
        BY <2>3, <1>4, FS_EmptySet DEF Counted
    <3> QED BY <2>1, <2>3, <3>1, <1>8
  <2> QED BY <2>2, <2>3
<1> QED BY <1>13, <1>14, <1>17, <1>18, <1>19, <1>21, <1>22, <1>23, Assemble

----------------------------------------------------------------------------
(* The invariant.                                                          *)
LEMMA InitInv == Init => FsIInv
<1> SUFFICES ASSUME Init PROVE FsIInv
    OBVIOUS
<1>1. ROOTINO \in Inums /\ Ninodes \in Nat /\ ROOTINO # NoInode
    BY FsAssumption DEF Inums, NoInode
<1>2. /\ disk = [i \in Inums |-> IF i = ROOTINO THEN [type |-> "dir", nlink |-> 1] ELSE Free]
      /\ ents = [i \in Inums |-> Empty] /\ mem = [i \in Inums |-> Free] /\ valid = [i \in Inums |-> FALSE]
      /\ ref = [i \in Inums |-> IF i = ROOTINO THEN Cardinality(Procs) ELSE 0] /\ lock = [i \in Inums |-> NONE]
      /\ fd = [p \in Procs |-> NoInode] /\ cwd = [p \in Procs |-> ROOTINO]
      /\ pc = [p \in Procs |-> "user"] /\ call = [p \in Procs |-> NONE]
      /\ path = [p \in Procs |-> <<>>] /\ new = [p \in Procs |-> <<>>]
      /\ dp = [p \in Procs |-> NoInode] /\ ip = [p \in Procs |-> NoInode]
      /\ put = [p \in Procs |-> <<>>] /\ drop = [p \in Procs |-> NoInode]
      /\ panic = FALSE /\ stray = FALSE
    BY DEF Init
<1>3. /\ \A p \in Procs : /\ pc[p] = "user" /\ call[p] = NONE /\ fd[p] = NoInode /\ dp[p] = NoInode /\ ip[p] = NoInode
                          /\ cwd[p] = ROOTINO /\ put[p] = <<>> /\ drop[p] = NoInode
      /\ disk[ROOTINO].type = "dir" /\ disk[ROOTINO].nlink = 1
      /\ \A i \in Inums \ {ROOTINO} : disk[i] = Free
      /\ \A i \in Inums : ents[i] = Empty
      /\ \A i \in Inums, n \in Names : ents[i][n] = NoInode
    BY <1>1, <1>2 DEF Empty
<1>4. Types
  <2>1. Cardinality(Procs) \in Nat
      BY FsAssumption, FS_CardinalityType
  <2>2. ref \in [Inums -> Nat]
      BY <1>2, <2>1
  <2>3. disk \in [Inums -> Dinodes] /\ mem \in [Inums -> Dinodes]
    <3>1. Free \in Dinodes /\ [type |-> "dir", nlink |-> 1] \in Dinodes
        BY DEF Free, Dinodes
    <3> QED BY <1>2, <3>1
  <2>4. ents \in [Inums -> [Names -> Inums \cup {NoInode}]]
      BY <1>2 DEF Empty
  <2>5. valid \in [Inums -> BOOLEAN] /\ lock \in [Inums -> Procs \cup {NONE}]
        /\ fd \in [Procs -> Inums \cup {NoInode}] /\ cwd \in [Procs -> Inums]
      BY <1>1, <1>2
  <2>6. TypeOK
      BY <2>2, <2>3, <2>4, <2>5 DEF TypeOK, Dinodes
  <2>7. dp \in [Procs -> Maybe] /\ ip \in [Procs -> Maybe] /\ drop \in [Procs -> Maybe]
      BY <1>2 DEF Maybe
  <2>8. pc \in [Procs -> Labels] /\ call \in [Procs -> InCalls \cup {NONE}]
      BY <1>2 DEF Labels
  <2>9. put \in [Procs -> Seq(Inums)] /\ path \in [Procs -> Seq(Names)] /\ new \in [Procs -> Seq(Names)]
    <3>1. <<>> \in Seq(Inums) /\ <<>> \in Seq(Names)
        OBVIOUS
    <3> QED BY <1>2, <3>1
  <2> QED BY <1>2, <2>6, <2>7, <2>8, <2>9 DEF Types
<1>5. ASSUME NEW p \in Procs PROVE Local(p) /\ Held(p) /\ Kinds(p) /\ Locked(p) /\ Fresh(p)
  <2>1. Local(p)
    <3>1. Len(<<>>) <= 2
        OBVIOUS
    <3> QED BY <1>3, <3>1, FsAssumption DEF Local, HasDir, HasIno, Searching, InParent, SysCalls
  <2>2. Held(p) /\ Kinds(p)
      BY <1>3, FsAssumption DEF Held, Kinds, Allocated, InParent
  <2>3. Locked(p) /\ Fresh(p)
      BY <1>3 DEF Locked, Fresh
  <2> QED BY <2>1, <2>2, <2>3
<1>6. RefExact
  <2> SUFFICES ASSUME NEW i \in Inums
               PROVE ref[i] = Pointing(fd, i) + Pointing(dp, i) + Pointing(ip, i) + Pointing(drop, i) + InCwd(i) + InPut(i)
      BY DEF RefExact
  <2>1. i # NoInode
      BY DEF Inums, NoInode
  <2>2. Pointing(fd, i) = 0 /\ Pointing(dp, i) = 0 /\ Pointing(ip, i) = 0 /\ Pointing(drop, i) = 0
    <3>1. /\ {q \in Procs : fd[q] = i} = {} /\ {q \in Procs : dp[q] = i} = {}
          /\ {q \in Procs : ip[q] = i} = {} /\ {q \in Procs : drop[q] = i} = {}
        BY <1>3, <2>1
    <3> QED BY <3>1, FS_EmptySet DEF Pointing
  <2>3. InPut(i) = 0
    <3>1. \A q \in Procs : DOMAIN put[q] = {}
        BY <1>3
    <3>2. {r \in Procs \X (1 .. 2) : r[2] \in DOMAIN put[r[1]] /\ put[r[1]][r[2]] = i} = {}
        BY <3>1
    <3> QED BY <3>2, FS_EmptySet DEF InPut
  <2>4. InCwd(i) = ref[i]
    <3>1. CASE i = ROOTINO
      <4>1. {q \in Procs : cwd[q] = i /\ pc[q] # "chdir_end"} = Procs
          BY <3>1, <1>3
      <4> QED BY <4>1, <3>1, <1>2 DEF InCwd
    <3>2. CASE i # ROOTINO
      <4>1. {q \in Procs : cwd[q] = i /\ pc[q] # "chdir_end"} = {}
          BY <3>2, <1>3
      <4> QED BY <4>1, <3>2, <1>2, FS_EmptySet DEF InCwd
    <3> QED BY <3>1, <3>2
  <2>5. ref[i] \in Nat
      BY <1>4 DEF Types, TypeOK
  <2> QED BY <2>2, <2>3, <2>4, <2>5
<1>7. Coherent
    BY <1>2 DEF Coherent
<1>8. Tree
    BY <1>3 DEF Tree
<1>9. \A i \in Inums : Entries(i) = {} /\ Subdirs(i) = {} /\ Owing(i) = {}
  <2> SUFFICES ASSUME NEW i \in Inums PROVE Entries(i) = {} /\ Subdirs(i) = {} /\ Owing(i) = {}
      OBVIOUS
  <2>1. i # NoInode
      BY DEF Inums, NoInode
  <2>2. Entries(i) = {}
      BY <1>3, <2>1 DEF Entries
  <2>3. Subdirs(i) = {}
      BY <1>3 DEF Subdirs
  <2>4. Owing(i) = {}
      BY <1>3, <2>1 DEF Owing
  <2> QED BY <2>2, <2>3, <2>4
<1>10. Links
  <2> SUFFICES ASSUME NEW i \in Inums PROVE disk[i].nlink = Counted(i) /\ disk[i].nlink \in Nat
      BY DEF Links
  <2>1. Counted(i) = IF i = ROOTINO THEN 1 ELSE 0
      BY <1>9, FS_EmptySet DEF Counted
  <2> QED BY <1>3, <2>1 DEF Free
<1>11. Rooted
    BY <1>3 DEF Rooted
<1> QED BY <1>4, <1>5, <1>6, <1>7, <1>8, <1>10, <1>11 DEF FsIInv

(* All that the invariant speaks of.                                       *)
Same ==
    /\ disk' = disk /\ ents' = ents /\ mem' = mem /\ valid' = valid /\ ref' = ref /\ lock' = lock /\ fd' = fd /\ cwd' = cwd
    /\ pc' = pc /\ call' = call /\ path' = path /\ new' = new /\ dp' = dp /\ ip' = ip /\ put' = put /\ drop' = drop
    /\ panic' = panic /\ stray' = stray

LEMMA SameInv ==
    ASSUME FsIInv, Same
    PROVE  FsIInv'
<1>1. /\ disk' = disk /\ ents' = ents /\ mem' = mem /\ valid' = valid /\ ref' = ref /\ lock' = lock /\ fd' = fd /\ cwd' = cwd
      /\ pc' = pc /\ call' = call /\ path' = path /\ new' = new /\ dp' = dp /\ ip' = ip /\ put' = put /\ drop' = drop
      /\ panic' = panic /\ stray' = stray /\ Empty' = Empty
    BY DEF Same, Empty
<1>2. Types'
    BY <1>1 DEF FsIInv, Types, TypeOK
<1>3. \A p \in Procs : Local(p)' /\ Held(p)' /\ Kinds(p)' /\ Locked(p)' /\ Fresh(p)'
    BY <1>1 DEF FsIInv, Local, Held, Kinds, Locked, Fresh, Allocated
<1>4. RefExact'
    BY <1>1 DEF FsIInv, RefExact, Pointing, InCwd, InPut
<1>5. Coherent'
    BY <1>1 DEF FsIInv, Coherent, Allocated
<1>6. Tree' /\ Links' /\ Rooted'
  <2>1. \A j \in Inums : Owing(j)' = Owing(j)
      BY <1>1 DEF Owing
  <2> QED BY <2>1, <1>1, NamesSame DEF FsIInv
<1> QED BY <1>2, <1>3, <1>4, <1>5, <1>6 DEF FsIInv

(* The panics for want of an inode leave everything else alone.            *)
LEMMA PanicsInductive ==
    ASSUME FsIInv, NEW p \in Procs, ialloc_panics(p) \/ iget_panics(p)
    PROVE  FsIInv'
<1>1. Same
    BY DEF ialloc_panics, iget_panics, Same, cache, locals, hands
<1> QED BY <1>1, SameInv

LEMMA StepInv ==
    ASSUME FsIInv, NEW p \in Procs, Step(p)
    PROVE  FsIInv'
<1>1. ASSUME namex_fail(p) PROVE FsIInv'
    BY <1>1, NamexFailInductive, NamexBadInductive
<1>2. ASSUME namex_next(p) PROVE FsIInv'
    BY <1>2, NamexNextInductive, NamexLastInductive
<1>3. ASSUME chdir(p) PROVE FsIInv'
    BY <1>3, ChdirInductive, ChdirFailsInductive
<1>4. ASSUME unlock_dp(p) PROVE FsIInv'
    BY <1>4, UnlockDpInductive, UnlockBadInductive
<1> QED BY <1>1, <1>2, <1>3, <1>4, UnrefInductive, IputInductive, NamexParentInductive, OpenInductive, OpenPutInductive,
           CreateFoundInductive, CreateNewInductive, CreateIpInductive, LinkInductive, LinkDirInductive,
           LinkDirlinkInductive, LinkExistsInductive, LinkBadInductive, UnlinkNoneInductive, UnlinkInductive,
           UnlinkFullInductive, UnlinkIpInductive, UnlinkDecInductive, ChdirEndInductive, EndOpInductive, PanicsInductive DEF Step

(* The invariant is inductive.                                             *)
LEMMA FsInductive == Spec => []FsIInv
<1>1. FsIInv /\ [Next]_vars => FsIInv'
  <2> SUFFICES ASSUME FsIInv, [Next]_vars PROVE FsIInv'
      OBVIOUS
  <2>1. CASE UNCHANGED vars
    <3>1. Same
        BY <2>1 DEF Same, vars, cache, locals, hands, ghosts
    <3> QED BY <3>1, SameInv
  <2>2. CASE Next
    <3>1. PICK p \in Procs : Step(p) \/ close(p) \/ \E c \in DOMAIN Paths : \E s, t \in Paths[c] : system_call(p, c, s, t)
        BY <2>2 DEF Next
    <3> QED BY <3>1, StepInv, CloseInductive, SystemCallInductive
  <2> QED BY <2>1, <2>2
<1> QED BY <1>1, InitInv, PTL DEF Spec

----------------------------------------------------------------------------
(* The limits: dinodes and entries of the cache.  A step counts nothing,   *)
(* or idups an inode that has an entry, or igets one, or drops one.        *)
LEMMA CacheFinite == IsFiniteSet(InCache) /\ Cardinality(InCache) \in Nat
<1>1. IsFiniteSet(Inums)
  <2>1. 1 \in Int /\ Ninodes \in Int
      BY FsAssumption
  <2> QED BY <2>1, FS_Interval DEF Inums
<1>2. InCache \in SUBSET Inums
    BY DEF InCache
<1> QED BY <1>1, <1>2, FS_Subset, FS_CardinalityType

RoomKept == full' = full /\ full = "no" /\ entries' = entries /\ Cardinality(InCache') <= entries

LEMMA RoomSame ==
    ASSUME FullForReal, full = "no", full' = full, entries' = entries, ref' = ref
    PROVE  RoomKept
BY DEF RoomKept, FullForReal, InCache

LEMMA RoomGot ==
    ASSUME FsIInv, FullForReal, full = "no", full' = full, entries' = entries, NEW i \in Inums, iget(i)
    PROVE  RoomKept
<1>1. ref \in [Inums -> Nat] /\ ref' = [ref EXCEPT ![i] = @ + 1] /\ HasEntry(i)
    BY DEF FsIInv, Types, TypeOK, iget, idup
<1>2. \A j \in Inums : ref[j] \in Nat /\ ref'[j] = IF j = i THEN ref[j] + 1 ELSE ref[j]
    BY <1>1
<1>3. InCache' = InCache \cup {i}
    BY <1>2 DEF InCache
<1>4. Cardinality(InCache) <= entries /\ entries \in Nat
    BY DEF FullForReal
<1>5. CASE i \in InCache
  <2>1. InCache' = InCache
      BY <1>3, <1>5
  <2> QED BY <1>4, <2>1 DEF RoomKept
<1>6. CASE i \notin InCache
  <2>1. Cardinality(InCache) < entries
      BY <1>1, <1>6 DEF HasEntry
  <2>2. Cardinality(InCache \cup {i}) = Cardinality(InCache) + 1
      BY <1>6, CacheFinite, FS_AddElement
  <2>3. Cardinality(InCache) + 1 <= entries
      BY <1>4, <2>1, CacheFinite
  <2> QED BY <1>3, <2>2, <2>3 DEF RoomKept
<1> QED BY <1>5, <1>6

(* The current directory has an entry already.                             *)
LEMMA RoomDup ==
    ASSUME FsIInv, FullForReal, full = "no", full' = full, entries' = entries, NEW p \in Procs, idup(cwd[p]), pc[p] # "chdir_end"
    PROVE  RoomKept
<1>1. cwd[p] \in Inums /\ RefExact
    BY Here DEF FsIInv
<1>2. ref[cwd[p]] > 0
    BY <1>1, Referred
<1>3. iget(cwd[p])
    BY <1>1, <1>2 DEF iget, HasEntry, InCache
<1> QED BY <1>1, <1>3, RoomGot

LEMMA RoomUnref ==
    ASSUME FsIInv, FullForReal, full = "no", full' = full, entries' = entries,
           NEW i \in Inums, ref' = [ref EXCEPT ![i] = @ - 1]
    PROVE  RoomKept
<1>1. ref \in [Inums -> Nat]
    BY DEF FsIInv, Types, TypeOK
<1>2. \A j \in Inums : ref[j] \in Nat /\ ref'[j] <= ref[j]
    BY <1>1
<1>3. \A j \in Inums : ref'[j] \in Int
    BY <1>1
<1>4. InCache' \subseteq InCache
    BY <1>2, <1>3 DEF InCache
<1>5. Cardinality(InCache') <= Cardinality(InCache) /\ Cardinality(InCache') \in Nat
    BY <1>4, CacheFinite, FS_Subset, FS_CardinalityType
<1>6. Cardinality(InCache) <= entries /\ entries \in Nat
    BY DEF FullForReal
<1>7. Cardinality(InCache') <= entries
    BY <1>5, <1>6, CacheFinite
<1> QED BY <1>7 DEF RoomKept

LEMMA StepRoom ==
    ASSUME FsIInv, FullForReal, NEW p \in Procs,
           \/ Step(p) /\ ~ialloc_panics(p) /\ ~iget_panics(p)
           \/ close(p)
           \/ \E c \in DOMAIN Paths : \E s, t \in Paths[c] : system_call(p, c, s, t)
    PROVE  RoomKept
<1>1. ASSUME full = "no", full' = full, entries' = entries, ref' = ref PROVE RoomKept
    BY <1>1, RoomSame
<1>2. ASSUME namex_next(p) \/ create_found(p) \/ link_exists(p) \/ unlink(p) PROVE RoomKept
  <2>1. /\ full = "no" /\ full' = full /\ entries' = entries /\ iget(found(p)) /\ found(p) # NoInode
        /\ pc[p] \in {"namex", "create", "mkdir", "link2", "unlink"}
      BY <1>2 DEF namex_next, create_found, link_exists, unlink, InDir, Descends, At, Ready, Stopped, Panics
  <2>2. dp[p] \in Inums /\ path[p] # <<>>
      BY <2>1, Here DEF Local, Held, HasDir, Searching, InParent, Maybe
  <2>3. found(p) \in Inums
      BY <2>1, <2>2, FoundInode
  <2> QED BY <2>1, <2>3, RoomGot
<1>3. ASSUME create_new(p) PROVE RoomKept
  <2>1. full = "no" /\ full' = full /\ entries' = entries /\ iget(ialloc) /\ ~NoDinode
      BY <1>3 DEF create_new, At, Ready, Stopped, Panics
  <2>2. {i \in Inums : disk[i].type = "free"} # {}
      BY <2>1 DEF NoDinode
  <2>3. ialloc \in Inums
      BY <2>2, Least DEF ialloc
  <2> QED BY <2>1, <2>3, RoomGot
<1>4. ASSUME link(p) \/ \E c \in DOMAIN Paths : \E s, t \in Paths[c] : system_call(p, c, s, t) PROVE RoomKept
  <2>1. full = "no" /\ full' = full /\ entries' = entries /\ idup(cwd[p]) /\ pc[p] # "chdir_end"
      BY <1>4 DEF link, system_call, Start, At, Ready, Stopped, Panics, ghosts
  <2> QED BY <2>1, RoomDup
<1>5. ASSUME iput_unref(p) PROVE RoomKept
  <2>1. /\ full = "no" /\ full' = full /\ entries' = entries /\ drop[p] # NoInode
        /\ ref' = [ref EXCEPT ![drop[p]] = @ - 1]
      BY <1>5 DEF iput_unref, Stopped, ghosts
  <2>2. drop[p] \in Inums
      BY <2>1 DEF FsIInv, Types, Maybe
  <2> QED BY <2>1, <2>2, RoomUnref
<1>6. ASSUME (\E i \in Inums : iput(p, i)) \/ unlock_dp(p) \/ unlink_dec(p) \/ chdir_end(p) \/ end_op(p) \/ close(p) PROVE RoomKept
  <2>1. full = "no" /\ full' = full /\ entries' = entries /\ ref' = ref
      BY <1>6 DEF iput, Iput, Putting, unlock_dp, unlink_dec, chdir_end, end_op, close, Ready, Stopped, ghosts
  <2> QED BY <2>1, <1>1
<1>7. ASSUME namex_fail(p) \/ namex_parent(p) \/ open(p) \/ open_put(p) \/ create_ip(p) PROVE RoomKept
  <2>1. full = "no" /\ full' = full /\ entries' = entries /\ ref' = ref
      BY <1>7 DEF namex_fail, namex_parent, InDir, open, open_put, create_ip, At, Ready, Stopped, Panics
  <2> QED BY <2>1, <1>1
<1>8. ASSUME link_dir(p) \/ link_dirlink(p) \/ link_bad(p) \/ unlink_none(p) \/ unlink_full(p) \/ unlink_ip(p) \/ chdir(p) PROVE RoomKept
  <2>1. full = "no" /\ full' = full /\ entries' = entries /\ ref' = ref
      BY <1>8 DEF link_dir, link_dirlink, link_bad, LinkBad, unlink_none, unlink_full, unlink_ip, chdir, At, Ready, Stopped, Panics
  <2> QED BY <2>1, <1>1
<1> QED BY <1>2, <1>3, <1>4, <1>5, <1>6, <1>7, <1>8 DEF Step

LEMMA RoomInductive == Spec => []FullForReal
<1>1. ASSUME Init PROVE FullForReal
  <2>1. full = "no" /\ entries \in 1 .. NINODE /\ \A i \in Inums : i # ROOTINO => ref[i] = 0
      BY <1>1 DEF Init
  <2>2. InCache \subseteq {ROOTINO}
      BY <2>1 DEF InCache
  <2>3. IsFiniteSet({ROOTINO}) /\ Cardinality({ROOTINO}) = 1
      BY FS_Singleton
  <2>4. Cardinality(InCache) <= 1
      BY <2>2, <2>3, FS_Subset
  <2>5. Cardinality(InCache) <= entries
      BY <2>1, <2>4, CacheFinite, FsAssumption
  <2> QED BY <2>1, <2>5 DEF FullForReal
<1>2. ASSUME FsIInv, FullForReal, [Next]_vars PROVE FullForReal'
  <2>1. CASE UNCHANGED vars
      BY <2>1, <1>2 DEF vars, ghosts, FullForReal, InCache, NoDinode
  <2>2. ASSUME RoomKept PROVE FullForReal'
      BY <2>2, <1>2 DEF RoomKept, FullForReal
  <2>3. ASSUME NEW p \in Procs, ialloc_panics(p) PROVE FullForReal'
    <3>1. full = "no" /\ full' = "ialloc" /\ entries' = entries /\ ref' = ref /\ disk' = disk /\ NoDinode
        BY <2>3 DEF ialloc_panics, At, Ready, Stopped
    <3> QED BY <3>1, <1>2 DEF FullForReal, InCache, NoDinode
  <2>4. ASSUME NEW p \in Procs, iget_panics(p) PROVE FullForReal'
    <3>1. full = "no" /\ full' = "iget" /\ entries' = entries /\ ref' = ref /\ ~(Cardinality(InCache) < entries)
        BY <2>4 DEF iget_panics, At, Ready, Stopped, HasEntry
    <3>2. Cardinality(InCache) = entries
        BY <3>1, <1>2, CacheFinite DEF FullForReal
    <3> QED BY <3>1, <3>2, <1>2 DEF FullForReal, InCache
  <2>5. CASE Next
    <3>1. PICK p \in Procs : Step(p) \/ close(p) \/ \E c \in DOMAIN Paths : \E s, t \in Paths[c] : system_call(p, c, s, t)
        BY <2>5 DEF Next
    <3> QED BY <3>1, <1>2, <2>2, <2>3, <2>4, StepRoom
  <2> QED BY <1>2, <2>1, <2>5
<1> QED BY <1>1, <1>2, FsInductive, PTL DEF Spec

----------------------------------------------------------------------------
(* The theorems.                                                           *)
(* Whatever calls overlap, an inode's reference count is the number of     *)
(* pointers to it, no name, open file, current directory or call in        *)
(* progress leads to a free inode, and so neither ilock nor unlink panics; *)
(* ialloc panics only when every dinode is in use, and iget only when all  *)
(* the entries it may take are referred to (iget, ilock, iput and ialloc   *)
(* of fs.c with the calls of sysfile.c).                                   *)
THEOREM NothingInUseIsFree == Spec => []FsInv
<1>1. FsIInv /\ FullForReal => FsInv
  <2> SUFFICES ASSUME FsIInv, FullForReal PROVE FsInv
      OBVIOUS
  <2>1. TypeOK /\ RefExact /\ ~panic /\ Tree
      BY DEF FsIInv, Types
  <2>2. \A d \in Inums, n \in Names : ents[d][n] # NoInode => disk[ents[d][n]].type # "free"
      BY <2>1 DEF Tree, Allocated
  <2>3. ASSUME NEW p \in Procs PROVE {fd[p], dp[p], ip[p]} \cap {i \in Inums : disk[i].type = "free"} = {}
    <3>1. \A i \in Inums : i # NoInode
        BY Here
    <3> QED BY <3>1, Here DEF Held, Allocated
  <2> QED BY <2>1, <2>2, <2>3 DEF FsInv, InUseIsAllocated
<1> QED BY <1>1, FsInductive, RoomInductive, PTL

(* The cached copy of an inode in use is what the disk holds: iupdate      *)
(* writes every change through, and iput and iget give up the copy of an   *)
(* entry that is freed or recycled (fs.c).                                 *)
THEOREM CacheIsWriteThrough == Spec => []CacheCoherent
<1>1. FsIInv => CacheCoherent
    BY DEF FsIInv, Coherent, CacheCoherent
<1> QED BY <1>1, FsInductive, PTL

(* Between system calls every link count is the number of names, however   *)
(* link, unlink, create and mkdir overlapped before, unless a name was put *)
(* into a directory that had been removed (sysfile.c).                     *)
THEOREM LinkCountsAreNames == Spec => []LinkCountExact
<1>1. FsIInv => LinkCountExact
  <2> SUFFICES ASSUME FsIInv, AtRest, ~stray, NEW i \in Inums \ {ROOTINO}
               PROVE  disk[i].nlink = Cardinality(Entries(i)) + IF Entries(i) = {} THEN 0 ELSE Cardinality(Subdirs(i))
      BY DEF LinkCountExact
  <2>1. Owing(i) = {}
    <3> SUFFICES ASSUME NEW q \in Procs, ip[q] = i, Owe(pc[q], call[q]) PROVE FALSE
        BY DEF Owing, Owe
    <3>1. pc[q] = "user"
        BY DEF AtRest, Ready
    <3> QED BY <3>1, Here DEF Owe, Local
  <2>2. Cardinality(Owing(i)) = 0
      BY <2>1, FS_EmptySet
  <2>3. Entries(i) = {} => Cardinality(Subdirs(i)) = 0
    <3> SUFFICES ASSUME Entries(i) = {} PROVE Cardinality(Subdirs(i)) = 0
        OBVIOUS
    <3>1. ents[i] = Empty
        BY DEF FsIInv, Rooted
    <3>2. Subdirs(i) = {}
        BY <3>1 DEF Subdirs, Empty
    <3> QED BY <3>2, FS_EmptySet
  <2>4. Cardinality(Entries(i)) \in Nat /\ Cardinality(Subdirs(i)) \in Nat /\ disk[i].nlink = Counted(i)
      BY CountParts
  <2>5. Counted(i) = Cardinality(Entries(i)) + Cardinality(Subdirs(i))
      BY <2>2, <2>4 DEF Counted
  <2> QED BY <2>3, <2>4, <2>5
<1> QED BY <1>1, FsInductive, PTL
=============================================================================
