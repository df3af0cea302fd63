---------------------------- MODULE PartsProofs -----------------------------
(***************************************************************************)
(* Theorems about the smaller components: exec, lazy mmap, the console,    *)
(* spin locks, the elastic allocator, the contents of files and malloc,    *)
(* for every number of frames, pages, processes, characters, locks, files, *)
(* blocks and units of the heap.                                           *)
(***************************************************************************)
EXTENDS Parts, TLAPS, FunctionTheorems, FiniteSetTheorems, SequenceTheorems

----------------------------------------------------------------------------
(* exec.  Every frame is in one of three places.                           *)
Built == IF pgdir = NONE THEN {} ELSE pgdir

ExecFramesKept ==
    /\ image \subseteq ExecFrames /\ image # {}
    /\ pgdir # NONE => pgdir \subseteq ExecFrames /\ pgdir # {}
    /\ image \cap Built = {}
    /\ xfree = (ExecFrames \ image) \ Built

(* What exec has at each point: bad tells from pgdir and ip what to undo.  *)
ExecHolds ==
    /\ xpc \in {"user", "namei", "header", "load", "stack", "args"}
    /\ ref \in Nat /\ ops \in Nat
    /\ xpc \in {"user", "namei", "header"} <=> pgdir = NONE
    /\ IF xpc \in {"header", "load"} THEN ip = "inode" /\ ref = 1 ELSE ip = NONE /\ ref = 0
    /\ ops = IF xpc \in {"namei", "header", "load"} THEN 1 ELSE 0

(* The inductive invariant of exec.                                        *)
ExecIInv == ExecFramesKept /\ ExecHolds

(* Before the first exec.                                                  *)
LEMMA ExecInit == X!Init => ExecIInv
<1> SUFFICES ASSUME X!Init PROVE ExecIInv
    OBVIOUS
<1>1. PICK f \in ExecFrames : image = {f}
    BY ExecAssumption DEF X!Init
<1>2. pgdir = NONE /\ ip = NONE /\ xpc = "user" /\ ref = 0 /\ ops = 0 /\ xfree = ExecFrames \ image
    BY DEF X!Init
<1> QED BY <1>1, <1>2 DEF ExecIInv, ExecFramesKept, ExecHolds, Built

(* Frames taken from the free ones are added to the new image.             *)
LEMMA ExecTakes ==
    ASSUME ExecFramesKept, NEW s \in SUBSET xfree, xfree' = xfree \ s, image' = image,
           pgdir' = Built \cup s, pgdir' # {}
    PROVE  ExecFramesKept' /\ pgdir' # NONE
<1>1. s \subseteq ExecFrames /\ s \cap image = {} /\ Built \subseteq ExecFrames
    BY DEF ExecFramesKept, Built
<1>2. pgdir' \in SUBSET ExecFrames
    BY <1>1
<1>3. pgdir' # NONE
    BY <1>2, ExecAssumption
<1>4. Built' = pgdir'
    BY <1>3 DEF Built
<1> QED BY <1>1, <1>2, <1>3, <1>4 DEF ExecFramesKept

(* Every step of exec.                                                     *)
LEMMA ExecStep == ExecIInv /\ [X!Next]_X!xvars => ExecIInv'
<1> SUFFICES ASSUME ExecIInv, [X!Next]_X!xvars PROVE ExecIInv'
    OBVIOUS
<1> USE DEF ExecIInv
<1>1. ASSUME UNCHANGED <<image, pgdir, xfree>> PROVE ExecFramesKept'
    BY <1>1 DEF ExecFramesKept, Built
<1>2. CASE X!exec \/ X!namei_fails \/ X!namei \/ X!loaded
    <2>1. UNCHANGED <<image, pgdir, xfree>>
        BY <1>2 DEF X!exec, X!namei_fails, X!namei, X!loaded
    <2>2. ExecHolds'
        BY <1>2, ExecAssumption DEF X!exec, X!namei_fails, X!namei, X!loaded, X!Goto, ExecHolds
    <2> QED BY <1>1, <2>1, <2>2
<1>3. CASE X!setupkvm
    <2>1. PICK s \in SUBSET xfree : Cardinality(s) = 1 /\ xfree' = xfree \ s /\ pgdir' = s
        BY <1>3, Zenon DEF X!setupkvm, X!Take, X!Cardinality, Cardinality
    <2>2. xpc = "header" /\ xpc' = "load" /\ UNCHANGED <<image, ip, ref, ops>>
        BY <1>3 DEF X!setupkvm, X!Goto
    <2>3. s # {}
        BY <2>1, FS_EmptySet
    <2>4. pgdir' = Built \cup s
        BY <2>1, <2>2 DEF ExecHolds, Built
    <2>5. ExecFramesKept' /\ pgdir' # NONE
        BY <2>1, <2>2, <2>3, <2>4, ExecTakes
    <2>6. ExecHolds'
        BY <2>2, <2>5 DEF ExecHolds
    <2> QED BY <2>5, <2>6
<1>4. CASE X!load_segment \/ X!stack
    <2>1. PICK s \in SUBSET xfree : xfree' = xfree \ s /\ pgdir' = pgdir \cup s
        BY <1>4 DEF X!load_segment, X!stack, X!Take
    <2>2. xpc \in {"load", "stack"} /\ UNCHANGED <<image, ip, ref, ops>>
          /\ (xpc = "load" => xpc' = "load") /\ (xpc = "stack" => xpc' = "args")
        BY <1>4 DEF X!load_segment, X!stack, X!Goto
    <2>3. pgdir # NONE /\ pgdir # {}
        BY <2>2 DEF ExecHolds, ExecFramesKept
    <2>4. pgdir' = Built \cup s /\ pgdir' # {}
        BY <2>1, <2>3 DEF Built
    <2>5. ExecFramesKept' /\ pgdir' # NONE
        BY <2>1, <2>2, <2>4, ExecTakes
    <2>6. ExecHolds'
        BY <2>2, <2>5 DEF ExecHolds
    <2> QED BY <2>5, <2>6
<1>5. CASE X!commit
    <2>1. /\ xpc = "args" /\ xpc' = "user" /\ image' = pgdir /\ xfree' = xfree \cup image
          /\ pgdir' = NONE /\ UNCHANGED <<ip, ref, ops>>
        BY <1>5 DEF X!commit, X!Goto
    <2>2. pgdir # NONE
        BY <2>1 DEF ExecHolds
    <2>3. ExecFramesKept'
        BY <2>1, <2>2 DEF ExecFramesKept, Built
    <2>4. ExecHolds'
        BY <2>1 DEF ExecHolds
    <2> QED BY <2>3, <2>4
<1>6. CASE X!bad
    <2>1. /\ xpc \in {"header", "load", "stack", "args"} /\ xpc' = "user"
          /\ xfree' = xfree \cup Built
          /\ IF ip = NONE THEN UNCHANGED <<ref, ops>> ELSE ref' = ref - 1 /\ ops' = ops - 1
          /\ pgdir' = NONE /\ ip' = NONE /\ image' = image
        BY <1>6 DEF X!bad, X!Goto, Built
    <2>2. ExecFramesKept'
        BY <2>1 DEF ExecFramesKept, Built
    <2>3. ExecHolds'
        BY <2>1, ExecAssumption DEF ExecHolds
    <2> QED BY <2>2, <2>3
<1>7. CASE UNCHANGED X!xvars
    BY <1>1, <1>7 DEF X!xvars, ExecHolds
<1> QED BY <1>2, <1>3, <1>4, <1>5, <1>6, <1>7 DEF X!Next

(* On whichever step exec fails or succeeds, it has given back the inode,  *)
(* ended its transaction and lost no frame, for any number of frames,      *)
(* segments and pages; meanwhile the old image stays whole.                *)
THEOREM ExecIsCareful == X!Spec => []ExecLeaksNothing
<1>1. ExecIInv => ExecLeaksNothing
    BY DEF ExecIInv, ExecFramesKept, ExecHolds, Built, ExecLeaksNothing, X!LeaksNothing
<1> QED BY <1>1, ExecInit, ExecStep, PTL DEF X!Spec

----------------------------------------------------------------------------
(* Lazy mmap.  The instance counts as FiniteSets does.                     *)
LEMMA LazyCounts == \A S : L!Cardinality(S) = Cardinality(S)
BY Zenon DEF L!Cardinality, Cardinality

Entries == LazyFrames \cup {LAZY, NONE}

LazyTypes ==
    /\ size \in [Procs -> Nat \cup {NONE}]
    /\ entry \in [Procs -> [L!Pages -> Entries]]
    /\ kfreelist \subseteq LazyFrames /\ lost \subseteq LazyFrames

(* The frames without an entry are free or lost, and no frame has two.     *)
OneEntryEach ==
    /\ \A f \in LazyFrames : f \in kfreelist \/ f \in lost <=> \A p \in Procs, i \in L!Pages : entry[p][i] # f
    /\ \A f \in LazyFrames : ~(f \in kfreelist /\ f \in lost)
    /\ \A p, q \in Procs : \A i, j \in L!Pages :
          entry[p][i] \in LazyFrames /\ entry[p][i] = entry[q][j] => p = q /\ i = j

(* A process that is not careless has an entry for exactly the pages below *)
(* sz, and none is left when it is gone.                                   *)
UpToSz ==
    /\ \A p \in Procs, i \in L!Pages : size[p] = NONE => entry[p][i] = NONE
    /\ \A p \in Procs, i \in L!Pages :
          p \notin careless /\ size[p] # NONE => (entry[p][i] # NONE <=> i * PGSIZE < size[p])

(* Why the kernel has panicked.                                            *)
Excused == panicked # <<>> => panicked[1] \in careless \/ (panicked[2] = "trap" /\ kfreelist = {})

(* The inductive invariant of lazy mmap.                                   *)
LazyIInv == LazyTypes /\ OneEntryEach /\ UpToSz /\ Excused

(* A product grows with its first factor.                                  *)
LEMMA Monotone ==
    ASSUME NEW a \in Int, NEW b \in Int, NEW c \in Nat, a <= b
    PROVE  a * c <= b * c
<1>1. PICK d \in Nat : b = a + d
    <2>1. b - a \in Nat /\ b = a + (b - a)
        OBVIOUS
    <2> QED BY <2>1
<1>2. b * c = a * c + d * c
    BY <1>1
<1>3. d * c \in Nat
    OBVIOUS
<1> QED BY <1>2, <1>3

(* The pages below PGROUNDUP(x) are those that begin below x.              *)
LEMMA RoundUp ==
    ASSUME NEW x \in Nat, NEW i \in Nat
    PROVE  /\ L!PGROUNDUP(x) \in Int
           /\ i < L!PGROUNDUP(x) <=> i * PGSIZE < x
<1> DEFINE q == (x + PGSIZE - 1) \div PGSIZE
<1>1. PGSIZE \in Nat \ {0} /\ x + PGSIZE - 1 \in Nat
    BY LazyAssumption
<1>2. q \in Int /\ q * PGSIZE <= x + PGSIZE - 1 /\ x + PGSIZE - 1 < q * PGSIZE + PGSIZE
    BY <1>1, Z3
<1>3. L!PGROUNDUP(x) = q
    BY DEF L!PGROUNDUP
<1> HIDE DEF q
<1>4. CASE i < q
    <2>1. (i + 1) * PGSIZE <= q * PGSIZE
        BY <1>1, <1>2, <1>4, Monotone
    <2>2. (i + 1) * PGSIZE = i * PGSIZE + PGSIZE
        BY <1>1
    <2>3. i * PGSIZE \in Int /\ q * PGSIZE \in Int
        BY <1>1, <1>2
    <2> QED BY <1>1, <1>2, <1>3, <1>4, <2>1, <2>2, <2>3
<1>5. CASE ~(i < q)
    <2>1. q * PGSIZE <= i * PGSIZE
        BY <1>1, <1>2, <1>5, Monotone
    <2>3. i * PGSIZE \in Int /\ q * PGSIZE \in Int
        BY <1>1, <1>2
    <2> QED BY <1>1, <1>2, <1>3, <1>5, <2>1, <2>3
<1> QED BY <1>4, <1>5

(* With enough free frames kalloc gives each page one of its own.          *)
LEMMA KallocGives ==
    ASSUME kfreelist \subseteq LazyFrames, NEW s \in SUBSET L!Pages, L!Enough(s)
    PROVE  /\ L!kalloc(s) \in [s -> kfreelist]
           /\ \A i, j \in s : i # j => L!kalloc(s)[i] # L!kalloc(s)[j]
<1> DEFINE m == Cardinality(s)
           k == Cardinality(kfreelist)
<1>1. IsFiniteSet(s) /\ IsFiniteSet(kfreelist)
    <2>1. IsFiniteSet(L!Pages)
        BY LazyAssumption, FS_Interval DEF L!Pages
    <2> QED BY <2>1, LazyAssumption, FS_Subset
<1>2. m \in Nat /\ k \in Nat /\ m <= k
    BY <1>1, FS_CardinalityType, LazyCounts DEF L!Enough
<1>3. PICK f \in Bijection(1 .. m, s) : TRUE
    BY <1>1, FS_CardinalityType DEF ExistsBijection
<1>4. PICK h \in Bijection(1 .. k, kfreelist) : TRUE
    BY <1>1, FS_CardinalityType DEF ExistsBijection
<1> HIDE DEF m, k
<1>5. f \in [1 .. m -> s] /\ \A i \in s : \E a \in 1 .. m : f[a] = i
    BY <1>3, Fun_IsBij, Fun_IsSurj DEF Bijection, Surjection
<1>6. h \in [1 .. k -> kfreelist] /\ \A a, b \in 1 .. k : h[a] = h[b] => a = b
    BY <1>4 DEF Bijection, Injection, IsInjective
<1> DEFINE at(i) == CHOOSE a \in 1 .. m : f[a] = i
           g == [i \in s |-> h[at(i)]]
<1>7. \A i \in s : at(i) \in 1 .. m /\ f[at(i)] = i
    BY <1>5
<1>8. \A i \in s : at(i) \in 1 .. k
    BY <1>2, <1>7
<1> HIDE DEF at
<1>9. g \in [s -> kfreelist]
    BY <1>6, <1>8
<1>10. \A i, j \in s : i # j => g[i] # g[j]
    BY <1>6, <1>7, <1>8
<1> QED BY <1>9, <1>10 DEF L!kalloc

(* One process's entries change.                                           *)
LEMMA OneTable ==
    ASSUME LazyTypes, NEW p \in Procs, NEW e \in [L!Pages -> Entries], entry' = [entry EXCEPT ![p] = e]
    PROVE  /\ entry' \in [Procs -> [L!Pages -> Entries]]
           /\ entry'[p] = e /\ \A q \in Procs : q # p => entry'[q] = entry[q]
BY DEF LazyTypes

(* Frames fresh from the free list are mapped at pages that had none.      *)
LEMMA MapsFrames ==
    ASSUME OneEntryEach, NEW p \in Procs, NEW s \in SUBSET L!Pages,
           \A q \in Procs : q # p => entry'[q] = entry[q],
           \A i \in s : /\ entry[p][i] \notin LazyFrames
                        /\ entry'[p][i] \in LazyFrames /\ entry'[p][i] \in kfreelist,
           \A i, j \in s : entry'[p][i] = entry'[p][j] => i = j,
           \A i \in L!Pages \ s :
               entry[p][i] \in LazyFrames \/ entry'[p][i] \in LazyFrames => entry'[p][i] = entry[p][i],
           \A f \in LazyFrames : f \in kfreelist' <=> f \in kfreelist /\ \A i \in s : entry'[p][i] # f,
           lost' = lost
    PROVE  OneEntryEach'
<1>1. \A q \in Procs, i \in L!Pages :
          entry'[q][i] \in LazyFrames /\ ~(q = p /\ i \in s) => entry'[q][i] = entry[q][i]
    OBVIOUS
<1>2. \A q \in Procs, i \in L!Pages : entry[q][i] \in LazyFrames => entry'[q][i] = entry[q][i]
    OBVIOUS
<1>3. \A i \in s : \A q \in Procs, j \in L!Pages : entry[q][j] # entry'[p][i]
    BY DEF OneEntryEach
<1>4. ASSUME NEW f \in LazyFrames
      PROVE  f \in kfreelist' \/ f \in lost <=> \A q \in Procs, i \in L!Pages : entry'[q][i] # f
    <2>1. CASE f \in kfreelist'
        <3>1. f \in kfreelist /\ \A i \in s : entry'[p][i] # f
            BY <2>1
        <3>2. \A q \in Procs, i \in L!Pages : entry[q][i] # f
            BY <3>1 DEF OneEntryEach
        <3> QED BY <2>1, <3>1, <3>2, <1>1
    <2>2. CASE f \in lost
        <3>1. f \notin kfreelist /\ \A q \in Procs, i \in L!Pages : entry[q][i] # f
            BY <2>2 DEF OneEntryEach
        <3>2. \A i \in s : entry'[p][i] # f
            BY <3>1
        <3> QED BY <2>2, <3>1, <3>2, <1>1
    <2>3. CASE f \notin kfreelist /\ f \notin lost
        <3>1. PICK q \in Procs, i \in L!Pages : entry[q][i] = f
            BY <2>3 DEF OneEntryEach
        <3> QED BY <2>3, <3>1, <1>2
    <2>4. CASE f \notin lost /\ \E i \in s : entry'[p][i] = f
        BY <2>4
    <2> QED BY <2>1, <2>2, <2>3, <2>4
<1>5. ASSUME NEW q \in Procs, NEW r \in Procs, NEW i \in L!Pages, NEW j \in L!Pages,
             entry'[q][i] \in LazyFrames, entry'[q][i] = entry'[r][j]
      PROVE  q = r /\ i = j
    <2>1. CASE q = p /\ i \in s
        <3>1. r = p /\ j \in s
            BY <2>1, <1>1, <1>3, <1>5
        <3> QED BY <2>1, <3>1, <1>5
    <2>2. CASE ~(q = p /\ i \in s)
        <3>1. entry'[q][i] = entry[q][i]
            BY <2>2, <1>1, <1>5
        <3>2. ~(r = p /\ j \in s)
            <4> SUFFICES ASSUME r = p, j \in s PROVE FALSE
                OBVIOUS
            <4>1. entry[q][i] # entry'[p][j]
                BY <1>3
            <4> QED BY <3>1, <4>1, <1>5
        <3> QED BY <3>1, <3>2, <1>1, <1>5 DEF OneEntryEach
    <2> QED BY <2>1, <2>2
<1>6. \A f \in LazyFrames : ~(f \in kfreelist' /\ f \in lost')
    BY DEF OneEntryEach
<1> QED BY <1>4, <1>5, <1>6 DEF OneEntryEach

(* Frames that are unmapped become free, or are lost.                      *)
LEMMA UnmapsFrames ==
    ASSUME OneEntryEach, NEW p \in Procs, NEW s \in SUBSET L!Pages,
           \A q \in Procs : q # p => entry'[q] = entry[q],
           \A i \in s : entry'[p][i] \notin LazyFrames,
           \A i \in L!Pages \ s : entry'[p][i] = entry[p][i],
           \A f \in LazyFrames : f \in kfreelist' \/ f \in lost' <=>
               f \in kfreelist \/ f \in lost \/ \E i \in s : entry[p][i] = f,
           kfreelist' = kfreelist \/ lost' = lost,
           \A f \in LazyFrames : f \in kfreelist' => f \in kfreelist \/ \E i \in s : entry[p][i] = f,
           \A f \in LazyFrames : f \in lost' => f \in lost \/ \E i \in s : entry[p][i] = f
    PROVE  OneEntryEach'
<1>1. \A q \in Procs, i \in L!Pages :
          entry'[q][i] \in LazyFrames => ~(q = p /\ i \in s) /\ entry'[q][i] = entry[q][i]
    OBVIOUS
<1>2. \A q \in Procs, i \in L!Pages : ~(q = p /\ i \in s) => entry'[q][i] = entry[q][i]
    OBVIOUS
<1>3. ASSUME NEW f \in LazyFrames
      PROVE  f \in kfreelist' \/ f \in lost' <=> \A q \in Procs, i \in L!Pages : entry'[q][i] # f
    <2>1. CASE f \in kfreelist \/ f \in lost
        BY <2>1, <1>1 DEF OneEntryEach
    <2>2. CASE \E i \in s : entry[p][i] = f
        <3>1. PICK i \in s : entry[p][i] = f
            BY <2>2
        <3>2. \A q \in Procs, j \in L!Pages : entry[q][j] = f => q = p /\ j = i
            BY <3>1 DEF OneEntryEach
        <3> QED BY <3>1, <3>2, <1>1
    <2>3. CASE f \notin kfreelist /\ f \notin lost /\ \A i \in s : entry[p][i] # f
        <3>1. PICK q \in Procs, i \in L!Pages : entry[q][i] = f
            BY <2>3 DEF OneEntryEach
        <3>2. entry'[q][i] = f
            BY <2>3, <3>1, <1>2
        <3> QED BY <2>3, <3>2
    <2> QED BY <2>1, <2>2, <2>3
<1>4. ASSUME NEW q \in Procs, NEW r \in Procs, NEW i \in L!Pages, NEW j \in L!Pages,
             entry'[q][i] \in LazyFrames, entry'[q][i] = entry'[r][j]
      PROVE  q = r /\ i = j
    BY <1>1, <1>4 DEF OneEntryEach
<1>5. ASSUME NEW f \in LazyFrames, f \in kfreelist', f \in lost' PROVE FALSE
    <2>1. CASE kfreelist' = kfreelist
        <3>1. f \notin lost /\ \A i \in s : entry[p][i] # f
            BY <1>5, <2>1 DEF OneEntryEach
        <3> QED BY <1>5, <3>1
    <2>2. CASE lost' = lost
        <3>1. f \notin kfreelist /\ \A i \in s : entry[p][i] # f
            BY <1>5, <2>2 DEF OneEntryEach
        <3> QED BY <1>5, <3>1
    <2> QED BY <2>1, <2>2
<1> QED BY <1>3, <1>4, <1>5 DEF OneEntryEach

(* The pages between two sizes.                                            *)
LEMMA BetweenSizes ==
    ASSUME NEW a \in Nat, NEW b \in Nat
    PROVE  /\ L!Between(a, b) \in SUBSET L!Pages
           /\ \A i \in L!Pages : i \in L!Between(a, b) <=> ~(i * PGSIZE < a) /\ i * PGSIZE < b
<1>1. \A i \in L!Pages : i \in Nat
    BY LazyAssumption DEF L!Pages
<1>2. ASSUME NEW i \in L!Pages
      PROVE  i \in L!Between(a, b) <=> ~(i * PGSIZE < a) /\ i * PGSIZE < b
    <2>1. L!PGROUNDUP(a) \in Int /\ (i < L!PGROUNDUP(a) <=> i * PGSIZE < a)
        BY <1>1, RoundUp
    <2>2. L!PGROUNDUP(b) \in Int /\ (i < L!PGROUNDUP(b) <=> i * PGSIZE < b)
        BY <1>1, RoundUp
    <2>3. i \in Int
        BY <1>1
    <2> QED BY <2>1, <2>2, <2>3 DEF L!Between
<1> QED BY <1>2 DEF L!Between

(* A number is its quotient times the divisor plus its remainder.          *)
LEMMA DivMod ==
    ASSUME NEW a \in Int, NEW m \in Nat \ {0}
    PROVE  a = m * (a \div m) + (a % m) /\ (a \div m) \in Int /\ (a % m) \in 0 .. m - 1
BY Z3

(* Whole pages divide evenly.                                              *)
LEMMA WholePages ==
    ASSUME NEW x \in Nat, x % PGSIZE = 0
    PROVE  \E a \in Nat : x \div PGSIZE = a /\ x = a * PGSIZE
<1> DEFINE a == x \div PGSIZE
<1>1. PGSIZE \in Nat \ {0}
    BY LazyAssumption
<1>2. x = PGSIZE * a /\ a \in Int
    BY <1>1, DivMod, Z3
<1> HIDE DEF a
<1>3. x = a * PGSIZE
    BY <1>1, <1>2
<1>4. a \in Nat
    <2> SUFFICES ASSUME a <= -1 PROVE FALSE
        BY <1>2
    <2>1. a * PGSIZE <= (-1) * PGSIZE
        BY <1>1, <1>2, Monotone
    <2> QED BY <1>1, <1>2, <1>3, <2>1
<1> QED BY <1>3, <1>4 DEF a

(* The page at which a multiple of PGSIZE lies.                            *)
LEMMA PageOf == ASSUME NEW x \in Nat PROVE L!PGROUNDDOWN(x * PGSIZE) = x
<1>1. PGSIZE \in Nat \ {0}
    BY LazyAssumption
<1> DEFINE y == x * PGSIZE
           q == y \div PGSIZE
<1>2. y \in Nat
    BY <1>1
<1>3. q \in Nat /\ q * PGSIZE <= y /\ y < q * PGSIZE + PGSIZE
    BY <1>1, <1>2, Z3
<1>4. L!PGROUNDDOWN(y) = q
    BY DEF L!PGROUNDDOWN
<1> HIDE DEF q
<1>5. ASSUME q > x PROVE FALSE
    <2>1. (x + 1) * PGSIZE <= q * PGSIZE
        BY <1>1, <1>3, <1>5, Monotone
    <2>2. (x + 1) * PGSIZE = x * PGSIZE + PGSIZE
        BY <1>1
    <2>3. q * PGSIZE \in Int
        BY <1>1, <1>3
    <2> QED BY <1>1, <1>2, <1>3, <2>1, <2>2, <2>3
<1>6. ASSUME q < x PROVE FALSE
    <2>1. (q + 1) * PGSIZE <= x * PGSIZE
        BY <1>1, <1>3, <1>6, Monotone
    <2>2. (q + 1) * PGSIZE = q * PGSIZE + PGSIZE
        BY <1>1, <1>3
    <2>3. q * PGSIZE \in Int
        BY <1>1, <1>3
    <2> QED BY <1>1, <1>2, <1>3, <2>1, <2>2, <2>3
<1> QED BY <1>3, <1>4, <1>5, <1>6

(* A page begins below a multiple of PGSIZE when it is one of its pages.   *)
LEMMA BelowPages ==
    ASSUME NEW i \in Nat, NEW a \in Nat
    PROVE  i * PGSIZE < a * PGSIZE <=> i < a
<1>1. PGSIZE \in Nat \ {0}
    BY LazyAssumption
<1>2. i * PGSIZE \in Int /\ a * PGSIZE \in Int
    BY <1>1
<1>3. CASE i < a
    <2>1. (i + 1) * PGSIZE <= a * PGSIZE
        BY <1>1, <1>3, Monotone
    <2>2. (i + 1) * PGSIZE = i * PGSIZE + PGSIZE
        BY <1>1
    <2> QED BY <1>1, <1>2, <1>3, <2>1, <2>2
<1>4. CASE ~(i < a)
    <2>1. a * PGSIZE <= i * PGSIZE
        BY <1>1, <1>4, Monotone
    <2> QED BY <1>2, <1>4, <2>1
<1> QED BY <1>3, <1>4

(* The entries mmap marks, when sz is a multiple of PGSIZE, are those      *)
(* between the old size and the new one.                                   *)
LEMMA MmapMarks ==
    ASSUME NEW p \in Procs, size[p] \in Nat, size[p] % PGSIZE = 0,
           NEW k \in Nat, k % PGSIZE = 0
    PROVE  \A i \in L!Pages :
               i \in L!mmap_entries(p, k) <=> ~(i * PGSIZE < size[p]) /\ i * PGSIZE < size[p] + k
<1>1. PGSIZE \in Nat \ {0}
    BY LazyAssumption
<1>2. PICK a \in Nat : size[p] = a * PGSIZE
    BY WholePages
<1>3. PICK b \in Nat : k = b * PGSIZE /\ k \div PGSIZE = b
    BY WholePages
<1>4. \A j \in Nat : L!PGROUNDDOWN(size[p] + j * PGSIZE) = a + j
    <2> TAKE j \in Nat
    <2>1. a + j \in Nat /\ size[p] + j * PGSIZE = (a + j) * PGSIZE
        BY <1>1, <1>2
    <2> QED BY <2>1, PageOf
<1>5. \A i \in L!Pages :
          i \in L!mmap_entries(p, k) <=> \E j \in 0 .. b - 1 : i = L!PGROUNDDOWN(size[p] + j * PGSIZE)
    BY <1>3 DEF L!mmap_entries
<1>6. \A i \in L!Pages : i \in L!mmap_entries(p, k) <=> \E j \in 0 .. b - 1 : i = a + j
    <2>1. \A j \in 0 .. b - 1 : L!PGROUNDDOWN(size[p] + j * PGSIZE) = a + j
        BY <1>3, <1>4
    <2>2. ASSUME NEW i, NEW j \in 0 .. b - 1, i = L!PGROUNDDOWN(size[p] + j * PGSIZE)
          PROVE  i = a + j
        BY <2>1, <2>2, Zenon
    <2>3. ASSUME NEW i, NEW j \in 0 .. b - 1, i = a + j
          PROVE  i = L!PGROUNDDOWN(size[p] + j * PGSIZE)
        BY <2>1, <2>3, Zenon
    <2>4. ASSUME NEW i \in L!Pages, i \in L!mmap_entries(p, k)
          PROVE  \E j \in 0 .. b - 1 : i = a + j
        <3>1. PICK j \in 0 .. b - 1 : i = L!PGROUNDDOWN(size[p] + j * PGSIZE)
            BY <1>5, <2>4, Zenon
        <3> QED BY <2>2, <3>1, Zenon
    <2>5. ASSUME NEW i \in L!Pages, NEW j \in 0 .. b - 1, i = a + j
          PROVE  i \in L!mmap_entries(p, k)
        BY <1>5, <2>3, <2>5, Zenon
    <2> QED BY <2>4, <2>5, Zenon
<1>7. size[p] + k = (a + b) * PGSIZE
    BY <1>1, <1>2, <1>3
<1>8. ASSUME NEW i \in L!Pages
      PROVE  i \in L!mmap_entries(p, k) <=> ~(i * PGSIZE < size[p]) /\ i * PGSIZE < size[p] + k
    <2>1. i \in Nat
        BY LazyAssumption DEF L!Pages
    <2>2. (i * PGSIZE < size[p] <=> i < a) /\ (i * PGSIZE < size[p] + k <=> i < a + b)
        BY <1>2, <1>7, <2>1, BelowPages
    <2>3. i \in L!mmap_entries(p, k) <=> a <= i /\ i < a + b
        <3>1. ASSUME a <= i, i < a + b PROVE i - a \in 0 .. b - 1 /\ i = a + (i - a)
            BY <2>1, <3>1
        <3>2. ASSUME a <= i, i < a + b PROVE \E j \in 0 .. b - 1 : i = a + j
            BY <3>1, <3>2, Zenon
        <3>3. ASSUME NEW j \in 0 .. b - 1, i = a + j PROVE a <= i /\ i < a + b
            BY <3>3, <1>2, <1>3
        <3> QED BY <1>6, <3>2, <3>3
    <2> QED BY <2>1, <2>2, <2>3
<1> QED BY <1>8

(* One process's size and entries change, and still match.                 *)
LEMMA SizesMatch ==
    ASSUME LazyTypes, UpToSz, NEW p \in Procs, NEW z \in Nat \cup {NONE}, NEW e \in [L!Pages -> Entries],
           size' = [size EXCEPT ![p] = z], entry' = [entry EXCEPT ![p] = e],
           \A q \in Procs : q # p /\ q \in careless => q \in careless',
           z = NONE => \A i \in L!Pages : e[i] = NONE,
           p \notin careless' /\ z # NONE => \A i \in L!Pages : e[i] # NONE <=> i * PGSIZE < z
    PROVE  size' \in [Procs -> Nat \cup {NONE}] /\ UpToSz'
<1>1. size'[p] = z /\ entry'[p] = e
    BY DEF LazyTypes
<1>2. \A q \in Procs : q # p => size'[q] = size[q] /\ entry'[q] = entry[q]
    BY DEF LazyTypes
<1>3. size' \in [Procs -> Nat \cup {NONE}]
    BY DEF LazyTypes
<1>4. ASSUME NEW q \in Procs, NEW i \in L!Pages, size'[q] = NONE PROVE entry'[q][i] = NONE
    BY <1>1, <1>2, <1>4 DEF UpToSz
<1>5. ASSUME NEW q \in Procs, NEW i \in L!Pages, q \notin careless', size'[q] # NONE
      PROVE  entry'[q][i] # NONE <=> i * PGSIZE < size'[q]
    <2>1. CASE q = p
        BY <1>1, <1>5, <2>1
    <2>2. CASE q # p
        BY <1>2, <1>5, <2>2 DEF UpToSz
    <2> QED BY <2>1, <2>2
<1> QED BY <1>3, <1>4, <1>5 DEF UpToSz

(* The first process has one page.                                         *)
LEMMA LazyInit == L!Init => LazyIInv
<1> SUFFICES ASSUME L!Init PROVE LazyIInv
    OBVIOUS
<1> DEFINE p == CHOOSE p \in Procs : TRUE
           f == CHOOSE f \in LazyFrames : TRUE
<1>1. p \in Procs /\ f \in LazyFrames
    BY LazyAssumption
<1>2. /\ size = [q \in Procs |-> IF q = p THEN PGSIZE ELSE NONE]
      /\ entry = [q \in Procs |-> IF q = p THEN [L!Unmapped EXCEPT ![0] = f] ELSE L!Unmapped]
      /\ kfreelist = LazyFrames \ {f} /\ panicked = <<>> /\ careless = {} /\ lost = {}
    BY DEF L!Init
<1> HIDE DEF p, f
<1>3. 0 \in L!Pages /\ PGSIZE \in Nat \ {0}
    BY LazyAssumption DEF L!Pages
<1>4. \A q \in Procs, i \in L!Pages : entry[q][i] = IF q = p /\ i = 0 THEN f ELSE NONE
    BY <1>2, <1>3 DEF L!Unmapped
<1>5. LazyTypes
    <2>1. entry \in [Procs -> [L!Pages -> Entries]]
        BY <1>1, <1>2, <1>3 DEF L!Unmapped, Entries
    <2> QED BY <1>2, <1>3, <2>1 DEF LazyTypes
<1>6. OneEntryEach
    BY <1>1, <1>2, <1>3, <1>4, LazyAssumption DEF OneEntryEach
<1>7. UpToSz
    <2>1. \A i \in L!Pages : i * PGSIZE < PGSIZE <=> i = 0
        <3> TAKE i \in L!Pages
        <3>1. i \in Nat
            BY LazyAssumption DEF L!Pages
        <3>2. i * PGSIZE < 1 * PGSIZE <=> i < 1
            BY <3>1, BelowPages
        <3> QED BY <1>3, <3>1, <3>2
    <2>2. size[p] = PGSIZE /\ \A q \in Procs : q # p => size[q] = NONE
        BY <1>1, <1>2
    <2>3. PGSIZE # NONE /\ f # NONE
        BY <1>1, LazyAssumption
    <2> QED BY <1>1, <1>4, <2>1, <2>2, <2>3 DEF UpToSz
<1> QED BY <1>2, <1>5, <1>6, <1>7 DEF LazyIInv, Excused

(* allocuvm maps fresh frames at pages of p that have none.                *)
LEMMA MapKeeps ==
    ASSUME LazyTypes, OneEntryEach, NEW p \in Procs, NEW s \in SUBSET L!Pages, L!Enough(s),
           L!Map(p, s, L!kalloc(s)), \A i \in s : ~L!Present(p, i), lost' = lost
    PROVE  /\ kfreelist' \subseteq LazyFrames /\ OneEntryEach'
           /\ \E e \in [L!Pages -> Entries] :
                 /\ entry' = [entry EXCEPT ![p] = e]
                 /\ \A i \in L!Pages : IF i \in s THEN e[i] \in LazyFrames ELSE e[i] = entry[p][i]
<1> DEFINE g == L!kalloc(s)
           e == [i \in L!Pages |-> IF i \in s THEN g[i] ELSE entry[p][i]]
<1>1. g \in [s -> kfreelist] /\ \A i, j \in s : i # j => g[i] # g[j]
    BY KallocGives DEF LazyTypes
<1>2. kfreelist' = kfreelist \ {g[i] : i \in s} /\ entry' = [entry EXCEPT ![p] = e]
    BY DEF L!Map
<1> HIDE DEF g
<1>3. \A i \in s : g[i] \in LazyFrames /\ g[i] \in kfreelist
    BY <1>1 DEF LazyTypes
<1>4. e \in [L!Pages -> Entries]
    BY <1>3 DEF LazyTypes, Entries
<1>5. \A i \in L!Pages : e[i] = IF i \in s THEN g[i] ELSE entry[p][i]
    OBVIOUS
<1> HIDE DEF e
<1>6. entry'[p] = e /\ \A q \in Procs : q # p => entry'[q] = entry[q]
    BY <1>2, <1>4, OneTable
<1>7. \A i \in s : entry[p][i] \notin LazyFrames /\ e[i] \in LazyFrames /\ e[i] \in kfreelist
    BY <1>3, <1>5 DEF L!Present
<1>8. \A i, j \in s : e[i] = e[j] => i = j
    BY <1>1, <1>5
<1>9. \A i \in L!Pages \ s : e[i] = entry[p][i]
    BY <1>5
<1>10. \A f \in LazyFrames : f \in kfreelist' <=> f \in kfreelist /\ \A i \in s : e[i] # f
    BY <1>2, <1>5
<1>11. OneEntryEach'
    BY <1>6, <1>7, <1>8, <1>9, <1>10, MapsFrames
<1>12. kfreelist' \subseteq LazyFrames
    BY <1>2 DEF LazyTypes
<1>13. \A i \in L!Pages : IF i \in s THEN e[i] \in LazyFrames ELSE e[i] = entry[p][i]
    BY <1>3, <1>5
<1> QED BY <1>2, <1>4, <1>11, <1>12, <1>13

(* The entries of p after deallocuvm of s.                                 *)
Cleared(p, s, t) == [i \in L!Pages |-> IF i \in t \/ (i \in s /\ L!Present(p, i)) THEN NONE ELSE entry[p][i]]

(* deallocuvm frees the present pages of s; t had none.                    *)
LEMMA UnmapKeeps ==
    ASSUME LazyTypes, OneEntryEach, NEW p \in Procs, NEW s \in SUBSET L!Pages, NEW t \in SUBSET L!Pages,
           L!Unmap(p, s, t), \A i \in t : ~L!Present(p, i), lost' = lost
    PROVE  /\ kfreelist' \subseteq LazyFrames /\ OneEntryEach'
           /\ Cleared(p, s, t) \in [L!Pages -> Entries]
           /\ entry' = [entry EXCEPT ![p] = Cleared(p, s, t)]
<1> DEFINE u == {i \in L!Pages : i \in t \/ (i \in s /\ L!Present(p, i))}
           e == Cleared(p, s, t)
<1>1. /\ kfreelist' = kfreelist \cup {entry[p][i] : i \in {j \in s : L!Present(p, j)}}
      /\ entry' = [entry EXCEPT ![p] = e]
    BY DEF L!Unmap, L!kfree, Cleared
<1>2. e \in [L!Pages -> Entries]
    BY DEF LazyTypes, Entries, Cleared
<1>3. \A i \in L!Pages : e[i] = IF i \in t \/ (i \in s /\ L!Present(p, i)) THEN NONE ELSE entry[p][i]
    BY DEF Cleared
<1> HIDE DEF e
<1>4. entry'[p] = e /\ \A q \in Procs : q # p => entry'[q] = entry[q]
    BY <1>1, <1>2, OneTable
<1>5. \A i \in u : e[i] \notin LazyFrames
    BY <1>3, LazyAssumption
<1>6. \A i \in L!Pages \ u : e[i] = entry[p][i]
    BY <1>3
<1>7. /\ kfreelist' \subseteq LazyFrames
      /\ \A f \in LazyFrames : f \in kfreelist' <=> f \in kfreelist \/ \E i \in u : entry[p][i] = f
    BY <1>1 DEF LazyTypes, L!Present
<1>8. u \in SUBSET L!Pages
    OBVIOUS
<1> HIDE DEF u
<1>9. OneEntryEach'
    BY <1>4, <1>5, <1>6, <1>7, <1>8, UnmapsFrames
<1> QED BY <1>1, <1>2, <1>7, <1>9 DEF e

(* A call of a live process has not panicked.                              *)
LEMMA NotPanicked ==
    ASSUME NEW p, L!Alive(p), panicked' = panicked
    PROVE  Excused'
BY DEF L!Alive, Excused

(* allocuvm in growproc.                                                   *)
LEMMA GrowKeeps ==
    ASSUME LazyIInv, NEW p \in Procs, NEW k \in Int, L!growproc(p, k)
    PROVE  LazyIInv'
<1> USE DEF LazyIInv
<1>1. L!Alive(p) /\ size[p] \in Nat /\ k > 0
    BY DEF L!growproc, L!Grows, L!Alive, LazyTypes
<1> DEFINE z == size[p] + k
           s == L!Between(size[p], z)
<1>2. /\ L!Enough(s) /\ L!Map(p, s, L!kalloc(s)) /\ size' = [size EXCEPT ![p] = z]
      /\ \A i \in s : ~L!Present(p, i)
      /\ panicked' = panicked /\ careless' = careless /\ lost' = lost
    BY DEF L!growproc
<1>3. z \in Nat /\ z # NONE /\ z > size[p] /\ size[p] # NONE
    BY <1>1, LazyAssumption
<1>4. /\ s \in SUBSET L!Pages
      /\ \A i \in L!Pages : i \in s <=> ~(i * PGSIZE < size[p]) /\ i * PGSIZE < z
    BY <1>1, <1>3, BetweenSizes
<1> HIDE DEF s, z
<1>5. PICK e \in [L!Pages -> Entries] :
          /\ entry' = [entry EXCEPT ![p] = e]
          /\ \A i \in L!Pages : IF i \in s THEN e[i] \in LazyFrames ELSE e[i] = entry[p][i]
    BY <1>2, <1>4, MapKeeps
<1>6. kfreelist' \subseteq LazyFrames /\ OneEntryEach'
    BY <1>2, <1>4, MapKeeps
<1>7. ASSUME p \notin careless', NEW i \in L!Pages PROVE e[i] # NONE <=> i * PGSIZE < z
    <2>1. i * PGSIZE \in Nat
        BY LazyAssumption DEF L!Pages
    <2>2. entry[p][i] # NONE <=> i * PGSIZE < size[p]
        BY <1>2, <1>3, <1>7 DEF UpToSz
    <2> QED BY <1>1, <1>3, <1>4, <1>5, <2>1, <2>2, LazyAssumption
<1>8. size' \in [Procs -> Nat \cup {NONE}] /\ UpToSz'
    BY <1>2, <1>3, <1>5, <1>7, SizesMatch
<1>9. entry' \in [Procs -> [L!Pages -> Entries]]
    BY <1>5, OneTable
<1> QED BY <1>1, <1>2, <1>6, <1>8, <1>9, NotPanicked DEF LazyTypes

(* allocuvm that runs out of frames.                                       *)
LEMMA GrowFailsKeeps ==
    ASSUME LazyIInv, NEW p \in Procs, NEW k \in Int, L!growproc_fails(p, k)
    PROVE  LazyIInv'
<1> USE DEF LazyIInv
<1>1. L!Alive(p) /\ size[p] \in Nat /\ k > 0
    BY DEF L!growproc_fails, L!Grows, L!Alive, LazyTypes
<1> DEFINE z == size[p] + k
           s == L!Between(size[p], z)
           t == L!Reached(s)
<1>2. /\ L!Unmap(p, s, t) /\ size' = size /\ \A i \in t : ~L!Present(p, i)
      /\ panicked' = panicked /\ careless' = careless /\ lost' = lost
    BY DEF L!growproc_fails
<1>3. z \in Nat /\ size[p] # NONE
    BY <1>1, LazyAssumption
<1>4. /\ s \in SUBSET L!Pages
      /\ \A i \in L!Pages : i \in s <=> ~(i * PGSIZE < size[p]) /\ i * PGSIZE < z
    BY <1>1, <1>3, BetweenSizes
<1>5. t \in SUBSET s
    BY DEF L!Reached
<1> HIDE DEF s, z, t
<1>6. t \in SUBSET L!Pages
    BY <1>4, <1>5
<1> DEFINE e == Cleared(p, s, t)
<1>7. /\ kfreelist' \subseteq LazyFrames /\ OneEntryEach'
      /\ e \in [L!Pages -> Entries] /\ entry' = [entry EXCEPT ![p] = e]
    BY <1>2, <1>4, <1>6, UnmapKeeps
<1>8. \A i \in L!Pages : e[i] = IF i \in t \/ (i \in s /\ L!Present(p, i)) THEN NONE ELSE entry[p][i]
    BY DEF Cleared
<1> HIDE DEF e
<1>9. ASSUME p \notin careless', NEW i \in L!Pages PROVE e[i] # NONE <=> i * PGSIZE < size[p]
    BY <1>2, <1>3, <1>4, <1>5, <1>8, <1>9 DEF UpToSz
<1>10. size' = [size EXCEPT ![p] = size[p]]
    BY <1>2 DEF LazyTypes
<1>11. size' \in [Procs -> Nat \cup {NONE}] /\ UpToSz'
    BY <1>1, <1>2, <1>3, <1>7, <1>9, <1>10, SizesMatch
<1>12. entry' \in [Procs -> [L!Pages -> Entries]]
    BY <1>7, OneTable
<1> QED BY <1>1, <1>2, <1>7, <1>11, <1>12, NotPanicked DEF LazyTypes

(* deallocuvm in growproc.                                                 *)
LEMMA ShrinkKeeps ==
    ASSUME LazyIInv, NEW p \in Procs, NEW k \in Int, L!growproc_shrink(p, k)
    PROVE  LazyIInv'
<1> USE DEF LazyIInv
<1>1. L!Alive(p) /\ size[p] \in Nat /\ k < 0 /\ size[p] + k > 0
    BY DEF L!growproc_shrink, L!Alive, LazyTypes
<1> DEFINE z == size[p] + k
           s == L!Between(z, size[p])
           t == {}
<1>2. z \in Nat /\ z # NONE /\ z < size[p] /\ size[p] # NONE
    BY <1>1, LazyAssumption
<1>3. /\ L!Unmap(p, s, t) /\ size' = [size EXCEPT ![p] = z]
      /\ careless' = IF \E i \in s : entry[p][i] = LAZY THEN careless \cup {p} ELSE careless
      /\ panicked' = panicked /\ lost' = lost
    BY DEF L!growproc_shrink
<1>4. /\ s \in SUBSET L!Pages
      /\ \A i \in L!Pages : i \in s <=> ~(i * PGSIZE < z) /\ i * PGSIZE < size[p]
    BY <1>1, <1>2, BetweenSizes
<1>5. t \in SUBSET L!Pages /\ \A i \in t : ~L!Present(p, i)
    OBVIOUS
<1>12. \A i \in L!Pages : i \notin t
    OBVIOUS
<1>13. L!Unmap(p, s, t) /\ lost' = lost
    BY <1>3
<1> HIDE DEF s, z, t
<1> DEFINE e == Cleared(p, s, t)
<1>6. /\ kfreelist' \subseteq LazyFrames /\ OneEntryEach'
      /\ e \in [L!Pages -> Entries] /\ entry' = [entry EXCEPT ![p] = e]
    BY <1>4, <1>5, <1>13, UnmapKeeps
<1>7. \A i \in L!Pages : e[i] = IF i \in t \/ (i \in s /\ L!Present(p, i)) THEN NONE ELSE entry[p][i]
    BY DEF Cleared
<1> HIDE DEF e
<1>8. ASSUME p \notin careless', NEW i \in L!Pages PROVE e[i] # NONE <=> i * PGSIZE < z
    <2>1. i * PGSIZE \in Nat
        BY LazyAssumption DEF L!Pages
    <2>2. p \notin careless /\ \A j \in s : entry[p][j] # LAZY
        BY <1>3, <1>8
    <2>3. entry[p][i] # NONE <=> i * PGSIZE < size[p]
        BY <1>2, <2>2 DEF UpToSz
    <2>4. CASE i \in s
        <3>1. L!Present(p, i)
            BY <1>4, <2>2, <2>3, <2>4 DEF L!Present, LazyTypes, Entries
        <3> QED BY <1>4, <1>7, <2>4, <3>1
    <2>5. CASE i \notin s
        BY <1>1, <1>2, <1>4, <1>7, <1>12, <2>1, <2>3, <2>5
    <2> QED BY <2>4, <2>5
<1>9. \A q \in Procs : q # p /\ q \in careless => q \in careless'
    BY <1>3
<1>10. size' \in [Procs -> Nat \cup {NONE}] /\ UpToSz'
    BY <1>2, <1>3, <1>6, <1>8, <1>9, SizesMatch
<1>11. entry' \in [Procs -> [L!Pages -> Entries]]
    BY <1>6, OneTable
<1> QED BY <1>1, <1>3, <1>6, <1>10, <1>11, NotPanicked DEF LazyTypes

(* With sz at a page boundary mmap marks the pages of the new memory.      *)
LEMMA MmapNew ==
    ASSUME LazyIInv, NEW p \in Procs, NEW k \in Int, L!sys_mmap(p, k), p \notin careless'
    PROVE  \A i \in L!Pages :
               i \in L!mmap_entries(p, k) <=> ~(i * PGSIZE < size[p]) /\ i * PGSIZE < size[p] + k
<1> DEFINE z == size[p] + k
           s == L!mmap_entries(p, k)
<1>1. /\ size[p] \in Nat /\ k \in Nat /\ k % PGSIZE = 0
      /\ careless' = IF k > 0 /\ size[p] % PGSIZE # 0 THEN careless \cup {p} ELSE careless
    BY DEF L!sys_mmap, L!Alive, LazyIInv, LazyTypes
<1>2. CASE size[p] % PGSIZE = 0
    BY <1>1, <1>2, MmapMarks
<1>3. CASE k = 0
    <2>1. s = {}
        <3>1. PICK b \in Nat : k = b * PGSIZE /\ k \div PGSIZE = b
            BY <1>1, WholePages
        <3>2. b = 0
            <4> SUFFICES ASSUME b >= 1 PROVE FALSE
                BY <3>1
            <4>1. 1 * PGSIZE <= b * PGSIZE /\ PGSIZE \in Nat \ {0}
                BY <3>1, Monotone, LazyAssumption
            <4> QED BY <1>3, <3>1, <4>1
        <3> QED BY <3>1, <3>2 DEF L!mmap_entries
    <2>2. z = size[p]
        BY <1>1, <1>3
    <2> QED BY <2>1, <2>2
<1> QED BY <1>1, <1>2, <1>3

(* mmap marks entries; the frames it overwrites are lost, and only with    *)
(* sz inside a page, or after such a call, is there one.                   *)
LEMMA MmapKeeps ==
    ASSUME LazyIInv, NEW p \in Procs, NEW k \in Int, L!sys_mmap(p, k)
    PROVE  LazyIInv'
<1> USE DEF LazyIInv
<1> DEFINE z == size[p] + k
           s == L!mmap_entries(p, k)
           e == [i \in L!Pages |-> IF i \in s THEN LAZY ELSE entry[p][i]]
<1>1. /\ L!Alive(p) /\ size[p] \in Nat /\ k \in Nat /\ k % PGSIZE = 0
      /\ size' = [size EXCEPT ![p] = z] /\ entry' = [entry EXCEPT ![p] = e]
      /\ careless' = IF k > 0 /\ size[p] % PGSIZE # 0 THEN careless \cup {p} ELSE careless
      /\ lost' = lost \cup {entry[p][i] : i \in {j \in s : p \in careless' /\ L!Present(p, j)}}
      /\ kfreelist' = kfreelist /\ panicked' = panicked
    BY DEF L!sys_mmap, L!Alive, LazyTypes
<1>2. z \in Nat /\ z # NONE /\ size[p] <= z /\ size[p] # NONE
    BY <1>1, LazyAssumption
<1>3. s \in SUBSET L!Pages
    BY DEF L!mmap_entries
<1>4. ASSUME p \notin careless'
      PROVE  \A i \in L!Pages : i \in s <=> ~(i * PGSIZE < size[p]) /\ i * PGSIZE < z
    BY <1>4, MmapNew
<1> HIDE DEF z, s
<1>5. e \in [L!Pages -> Entries]
    BY DEF LazyTypes, Entries
<1>6. \A i \in L!Pages : e[i] = IF i \in s THEN LAZY ELSE entry[p][i]
    OBVIOUS
<1> HIDE DEF e
<1>7. ASSUME p \notin careless', NEW i \in L!Pages PROVE entry[p][i] # NONE <=> i * PGSIZE < size[p]
    BY <1>1, <1>2, <1>7 DEF UpToSz
<1>8. /\ lost' \subseteq LazyFrames
      /\ \A f \in LazyFrames : f \in lost' <=> f \in lost \/ \E i \in s : entry[p][i] = f
    <2>1. CASE p \in careless'
        BY <1>1, <2>1 DEF LazyTypes, L!Present
    <2>2. CASE p \notin careless'
        <3>1. \A i \in s : entry[p][i] \notin LazyFrames
            BY <1>3, <1>4, <1>7, <2>2, LazyAssumption
        <3> QED BY <1>1, <2>2, <3>1 DEF LazyTypes
    <2> QED BY <2>1, <2>2
<1>9. entry' \in [Procs -> [L!Pages -> Entries]] /\ OneEntryEach'
    <2>1. /\ entry' \in [Procs -> [L!Pages -> Entries]]
          /\ entry'[p] = e /\ \A q \in Procs : q # p => entry'[q] = entry[q]
        BY <1>1, <1>5, OneTable
    <2>2. \A i \in s : e[i] \notin LazyFrames
        BY <1>3, <1>6, LazyAssumption
    <2>3. \A i \in L!Pages \ s : e[i] = entry[p][i]
        BY <1>6
    <2>4. \A f \in LazyFrames : f \in kfreelist' \/ f \in lost' <=>
               f \in kfreelist \/ f \in lost \/ \E i \in s : entry[p][i] = f
        BY <1>1, <1>8
    <2>5. \A i \in s : entry'[p][i] \notin LazyFrames
        BY <2>1, <2>2
    <2>6. \A i \in L!Pages \ s : entry'[p][i] = entry[p][i]
        BY <2>1, <2>3
    <2>7. kfreelist' = kfreelist
        BY <1>1
    <2>8. OneEntryEach'
        BY <1>3, <1>8, <2>1, <2>4, <2>5, <2>6, <2>7, UnmapsFrames
    <2> QED BY <2>1, <2>8
<1>10. size' \in [Procs -> Nat \cup {NONE}] /\ UpToSz'
    <2>1. ASSUME p \notin careless', NEW i \in L!Pages PROVE e[i] # NONE <=> i * PGSIZE < z
        <3>1. i * PGSIZE \in Nat
            BY LazyAssumption DEF L!Pages
        <3> QED BY <1>1, <1>2, <1>4, <1>6, <1>7, <2>1, <3>1, LazyAssumption
    <2>2. \A q \in Procs : q # p /\ q \in careless => q \in careless'
        BY <1>1
    <2> QED BY <1>1, <1>2, <1>5, <2>1, <2>2, SizesMatch
<1> QED BY <1>1, <1>8, <1>9, <1>10, NotPanicked DEF LazyTypes

(* The page-fault handler.                                                 *)
LEMMA FaultKeeps ==
    ASSUME LazyIInv, NEW p \in Procs, NEW v \in L!Pages, L!fault(p, v)
    PROVE  LazyIInv'
<1> USE DEF LazyIInv
<1> DEFINE s == {v}
<1>1. /\ L!Alive(p) /\ size[p] \in Nat /\ entry[p][v] = LAZY /\ L!Enough(s) /\ L!Map(p, s, L!kalloc(s))
      /\ size' = size /\ panicked' = panicked /\ careless' = careless /\ lost' = lost
    BY DEF L!fault, L!Alive, LazyTypes
<1>2. s \in SUBSET L!Pages /\ \A i \in s : i \in L!Pages /\ entry[p][i] = LAZY /\ ~L!Present(p, i)
    BY <1>1, LazyAssumption DEF L!Present
<1> HIDE DEF s
<1>3. PICK e \in [L!Pages -> Entries] :
          /\ entry' = [entry EXCEPT ![p] = e]
          /\ \A i \in L!Pages : IF i \in s THEN e[i] \in LazyFrames ELSE e[i] = entry[p][i]
    BY <1>1, <1>2, MapKeeps
<1>4. kfreelist' \subseteq LazyFrames /\ OneEntryEach'
    BY <1>1, <1>2, MapKeeps
<1>5. size[p] # NONE /\ size' = [size EXCEPT ![p] = size[p]]
    BY <1>1, LazyAssumption DEF LazyTypes
<1>6. ASSUME p \notin careless', NEW i \in L!Pages PROVE e[i] # NONE <=> i * PGSIZE < size[p]
    <2>1. entry[p][i] # NONE <=> i * PGSIZE < size[p]
        BY <1>1, <1>5, <1>6 DEF UpToSz
    <2>2. e[i] # NONE <=> entry[p][i] # NONE
        BY <1>2, <1>3, LazyAssumption
    <2> QED BY <2>1, <2>2
<1>7. size' \in [Procs -> Nat \cup {NONE}] /\ UpToSz'
    BY <1>1, <1>3, <1>5, <1>6, SizesMatch
<1>8. entry' \in [Procs -> [L!Pages -> Entries]]
    BY <1>3, OneTable
<1> QED BY <1>1, <1>4, <1>7, <1>8, NotPanicked DEF LazyTypes

(* exit, and the parent's freevm.                                          *)
LEMMA ExitKeeps ==
    ASSUME LazyIInv, NEW p \in Procs, L!exit(p)
    PROVE  LazyIInv'
<1> USE DEF LazyIInv
<1> DEFINE s == L!Pages
           e == L!Unmapped
<1>1. /\ L!Alive(p) /\ kfreelist' = kfreelist \cup {entry[p][i] : i \in {j \in s : L!Present(p, j)}}
      /\ entry' = [entry EXCEPT ![p] = e] /\ size' = [size EXCEPT ![p] = NONE] /\ panicked' = panicked
      /\ careless' = careless \ {p} /\ lost' = lost
    BY DEF L!exit, L!kfree
<1>2. e \in [L!Pages -> Entries] /\ \A i \in L!Pages : e[i] = NONE
    BY DEF L!Unmapped, Entries
<1>3. s \in SUBSET L!Pages /\ \A i \in L!Pages : i \in s
    OBVIOUS
<1> HIDE DEF e, s
<1>5. /\ entry' \in [Procs -> [L!Pages -> Entries]] /\ kfreelist' \subseteq LazyFrames
      /\ OneEntryEach'
    <2>1. /\ entry' \in [Procs -> [L!Pages -> Entries]]
          /\ entry'[p] = e /\ \A q \in Procs : q # p => entry'[q] = entry[q]
        BY <1>1, <1>2, OneTable
    <2>2. \A i \in s : e[i] \notin LazyFrames
        BY <1>2, <1>3, LazyAssumption
    <2>3. /\ kfreelist' \subseteq LazyFrames
          /\ \A f \in LazyFrames : f \in kfreelist' <=> f \in kfreelist \/ \E i \in s : entry[p][i] = f
        BY <1>1 DEF LazyTypes, L!Present
    <2>4. \A i \in s : entry'[p][i] \notin LazyFrames
        BY <2>1, <2>2
    <2>5. \A i \in L!Pages \ s : entry'[p][i] = entry[p][i]
        BY <1>3
    <2>6. lost' = lost /\ s \in SUBSET L!Pages
        BY <1>1, <1>3
    <2>7. OneEntryEach'
        BY <2>1, <2>3, <2>4, <2>5, <2>6, UnmapsFrames
    <2> QED BY <2>1, <2>3, <2>7
<1>6. size' \in [Procs -> Nat \cup {NONE}] /\ UpToSz'
    BY <1>1, <1>2, SizesMatch
<1> QED BY <1>1, <1>5, <1>6, NotPanicked DEF LazyTypes

(* copyuvm gives the child a copy of each present page and marks its lazy  *)
(* pages; the child is as if its parent had not been careless.             *)
LEMMA ForkKeeps ==
    ASSUME LazyIInv, NEW p \in Procs, NEW c \in Procs, L!fork(p, c)
    PROVE  LazyIInv'
<1> USE DEF LazyIInv
<1> DEFINE s == L!Copied(p)
           g == L!kalloc(s)
           e == [i \in L!Pages |->
                   CASE i \in s -> g[i] [] i \in L!Mine(p) \ s -> LAZY [] OTHER -> NONE]
<1>1. L!Alive(p) /\ size[p] \in Nat /\ size[p] # NONE /\ size[c] = NONE /\ L!Enough(s)
    BY DEF L!fork, L!Alive, LazyTypes
<1>2. /\ s \in SUBSET L!Pages
      /\ \A i \in L!Pages : i \in L!Mine(p) <=> i * PGSIZE < size[p]
      /\ \A i \in L!Pages : i \in s <=> i \in L!Mine(p) /\ entry[p][i] # LAZY
    BY DEF L!Copied, L!Mine
<1>4. g \in [s -> kfreelist] /\ \A i, j \in s : i # j => g[i] # g[j]
    BY <1>1, <1>2, KallocGives DEF LazyTypes
<1>5. /\ kfreelist' = kfreelist \ {g[i] : i \in s}
      /\ entry' = [entry EXCEPT ![c] = e]
      /\ size' = [size EXCEPT ![c] = size[p]]
      /\ panicked' = panicked /\ careless' = careless /\ lost' = lost
    BY DEF L!fork
<1> HIDE DEF s, g
<1>6. \A i \in s : g[i] \in LazyFrames /\ g[i] \in kfreelist
    BY <1>4 DEF LazyTypes
<1>7. /\ \A i \in s : e[i] = g[i]
      /\ \A i \in L!Pages \ s : e[i] = IF i \in L!Mine(p) THEN LAZY ELSE NONE
    BY <1>2
<1>8. e \in [L!Pages -> Entries]
    BY <1>6 DEF Entries
<1>9. \A i \in L!Pages : entry[c][i] = NONE
    BY <1>1 DEF UpToSz
<1> HIDE DEF e
<1>10. /\ entry' \in [Procs -> [L!Pages -> Entries]] /\ kfreelist' \subseteq LazyFrames
       /\ OneEntryEach'
    <2>1. /\ entry' \in [Procs -> [L!Pages -> Entries]]
          /\ entry'[c] = e /\ \A q \in Procs : q # c => entry'[q] = entry[q]
        BY <1>5, <1>8, OneTable
    <2>2. \A i \in s : entry[c][i] \notin LazyFrames /\ e[i] \in LazyFrames /\ e[i] \in kfreelist
        BY <1>2, <1>6, <1>7, <1>9, LazyAssumption
    <2>3. \A i, j \in s : e[i] = e[j] => i = j
        BY <1>4, <1>7
    <2>4. \A i \in L!Pages \ s : entry[c][i] \notin LazyFrames /\ e[i] \notin LazyFrames
        BY <1>7, <1>9, LazyAssumption
    <2>5. \A f \in LazyFrames : f \in kfreelist' <=> f \in kfreelist /\ \A i \in s : e[i] # f
        BY <1>5, <1>7
    <2>6. kfreelist' \subseteq LazyFrames
        BY <1>5 DEF LazyTypes
    <2>7. OneEntryEach'
        <3>1. s \in SUBSET L!Pages /\ lost' = lost
            BY <1>2, <1>5
        <3>2. \A i \in s : /\ entry[c][i] \notin LazyFrames
                           /\ entry'[c][i] \in LazyFrames /\ entry'[c][i] \in kfreelist
            BY <2>1, <2>2
        <3>3. \A i, j \in s : entry'[c][i] = entry'[c][j] => i = j
            BY <2>1, <2>3
        <3>4. \A i \in L!Pages \ s :
                 entry[c][i] \in LazyFrames \/ entry'[c][i] \in LazyFrames => entry'[c][i] = entry[c][i]
            BY <2>1, <2>4
        <3>5. \A f \in LazyFrames : f \in kfreelist' <=> f \in kfreelist /\ \A i \in s : entry'[c][i] # f
            BY <2>1, <2>5
        <3> HIDE DEF LazyIInv
        <3> QED BY <2>1, <3>1, <3>2, <3>3, <3>4, <3>5, MapsFrames DEF LazyIInv
    <2> QED BY <2>1, <2>6, <2>7
<1>11. size' \in [Procs -> Nat \cup {NONE}] /\ UpToSz'
    <2>1. \A i \in L!Pages : e[i] # NONE <=> i * PGSIZE < size[p]
        BY <1>2, <1>6, <1>7, LazyAssumption
    <2> QED BY <1>1, <1>5, <1>8, <2>1, SizesMatch
<1> QED BY <1>1, <1>5, <1>10, <1>11, NotPanicked DEF LazyTypes

(* A step that leaves sizes, entries and the free list alone.              *)
LEMMA LazySame ==
    ASSUME LazyIInv, UNCHANGED <<size, entry, kfreelist, careless, lost>>, Excused'
    PROVE  LazyIInv'
BY DEF LazyIInv, LazyTypes, OneEntryEach, UpToSz

(* mappages and copyuvm panic only in a careless process, and the trap     *)
(* handler in one that is careless or finds no memory.                     *)
LEMMA PanicKeeps ==
    ASSUME LazyIInv, NEW p \in Procs,
           \/ \E k \in Int : L!growproc_remap(p, k)
           \/ \E i \in L!Pages : L!fault_in_kernel(p, i)
           \/ \E c \in Procs : L!fork_panics(p, c)
    PROVE  LazyIInv'
<1> USE DEF LazyIInv
<1>1. L!Alive(p) /\ size[p] \in Nat /\ size[p] # NONE
    BY DEF L!growproc_remap, L!Grows, L!fault_in_kernel, L!fork_panics, L!Alive, LazyTypes
<1>2. CASE p \in careless
    <2>1. \E s : L!panic(p, s)
        BY DEF L!growproc_remap, L!fault_in_kernel, L!fork_panics
    <2>2. Excused' /\ UNCHANGED <<size, entry, kfreelist, careless, lost>>
        BY <1>2, <2>1 DEF L!panic, Excused
    <2> QED BY <2>2, LazySame
<1>3. CASE p \notin careless
    <2>1. \A i \in L!Pages : entry[p][i] # NONE <=> i * PGSIZE < size[p]
        BY <1>1, <1>3 DEF UpToSz
    <2>2. ASSUME NEW k \in Int, L!growproc_remap(p, k) PROVE FALSE
        <3>1. k > 0 /\ size[p] + k \in Nat
            BY <1>1, <2>2 DEF L!growproc_remap, L!Grows
        <3>2. PICK i \in L!Between(size[p], size[p] + k) : L!Present(p, i)
            BY <2>2 DEF L!growproc_remap, L!Reached
        <3>3. i \in L!Pages /\ ~(i * PGSIZE < size[p])
            BY <1>1, <3>1, <3>2, BetweenSizes
        <3> QED BY <2>1, <3>2, <3>3, LazyAssumption DEF L!Present
    <2>3. ASSUME NEW c \in Procs, L!fork_panics(p, c) PROVE FALSE
        <3>1. \A i \in L!Copied(p) : L!Present(p, i)
            BY <2>1 DEF L!Copied, L!Mine, L!Present, LazyTypes, Entries
        <3>2. L!Whole(p) = L!Copied(p)
            BY <3>1 DEF L!Whole
        <3> QED BY <2>3, <3>2 DEF L!fork_panics
    <2>4. ASSUME NEW i \in L!Pages, L!fault_in_kernel(p, i) PROVE LazyIInv'
        <3>1. /\ i * PGSIZE < size[p] /\ ~L!Present(p, i) /\ (entry[p][i] = LAZY => kfreelist = {})
              /\ L!panic(p, "trap")
            BY <2>4 DEF L!fault_in_kernel, L!Mine
        <3>2. kfreelist = {}
            BY <2>1, <3>1 DEF L!Present, LazyTypes, Entries
        <3>3. Excused' /\ UNCHANGED <<size, entry, kfreelist, careless, lost>>
            BY <3>1, <3>2 DEF L!panic, Excused
        <3> QED BY <3>3, LazySame
    <2> QED BY <2>2, <2>3, <2>4
<1> QED BY <1>2, <1>3

(* Every call and fault.                                                   *)
LEMMA LazyStep == LazyIInv /\ [L!Next]_L!lvars => LazyIInv'
<1> SUFFICES ASSUME LazyIInv, [L!Next]_L!lvars PROVE LazyIInv'
    OBVIOUS
<1>0. CASE UNCHANGED L!lvars
    BY <1>0, LazySame DEF L!lvars, LazyIInv, Excused
<1>1. ASSUME NEW p \in Procs, L!exit(p) PROVE LazyIInv'
    BY <1>1, ExitKeeps
<1>2. ASSUME NEW p \in Procs, NEW k \in Sbrks,
             \/ L!growproc(p, k) \/ L!growproc_remap(p, k) \/ L!growproc_fails(p, k)
             \/ L!growproc_shrink(p, k) \/ L!growproc_wraps(p, k)
      PROVE  LazyIInv'
    <2>1. k \in Int
        BY LazyAssumption
    <2>2. CASE L!growproc_wraps(p, k)
        BY <1>0, <2>2 DEF L!growproc_wraps
    <2>3. CASE L!growproc_remap(p, k)
        BY <2>1, <2>3, PanicKeeps
    <2> QED BY <1>2, <2>1, <2>2, <2>3, GrowKeeps, GrowFailsKeeps, ShrinkKeeps
<1>3. ASSUME NEW p \in Procs, NEW k \in Mmaps, L!sys_mmap(p, k) \/ L!sys_mmap_invalid(p, k)
      PROVE  LazyIInv'
    <2>1. k \in Int
        BY LazyAssumption
    <2>2. CASE L!sys_mmap_invalid(p, k)
        BY <1>0, <2>2 DEF L!sys_mmap_invalid
    <2> QED BY <1>3, <2>1, <2>2, MmapKeeps
<1>4. ASSUME NEW p \in Procs, NEW i \in L!Pages,
             \/ L!fault(p, i) \/ L!fault_fails(p, i) \/ L!fault_in_kernel(p, i)
             \/ \E v \in LazyVals : L!user_write(p, i, v)
      PROVE  LazyIInv'
    <2>1. CASE \E v \in LazyVals : L!user_write(p, i, v)
        <3>1. L!Alive(p) /\ panicked' = panicked /\ UNCHANGED <<size, entry, kfreelist, careless, lost>>
            BY <2>1 DEF L!user_write
        <3> QED BY <3>1, LazySame, NotPanicked
    <2>2. CASE L!fault_fails(p, i)
        BY <1>1, <2>2 DEF L!fault_fails
    <2>3. CASE L!fault_in_kernel(p, i)
        BY <2>3, PanicKeeps
    <2> QED BY <1>4, <2>1, <2>2, <2>3, FaultKeeps
<1>5. ASSUME NEW p \in Procs, NEW c \in Procs, L!fork(p, c) \/ L!fork_panics(p, c) \/ L!fork_fails(p, c)
      PROVE  LazyIInv'
    <2>1. CASE L!fork_fails(p, c)
        BY <1>0, <2>1 DEF L!fork_fails
    <2>2. CASE L!fork_panics(p, c)
        BY <2>2, PanicKeeps
    <2> QED BY <1>5, <2>1, <2>2, ForkKeeps
<1> QED BY <1>0, <1>1, <1>2, <1>3, <1>4, <1>5 DEF L!Next

(* Frames and mappings correspond one to one.                              *)
LEMMA LazyAccounts == LazyIInv => LazyFramesAccounted
<1> SUFFICES ASSUME LazyIInv PROVE LazyFramesAccounted
    OBVIOUS
<1> USE DEF LazyIInv
<1> DEFINE M == L!Mappings
           T == L!Mapped
           h == [m \in M |-> entry[m[1]][m[2]]]
<1>1. \A m : m \in M <=> m \in Procs \X L!Pages /\ entry[m[1]][m[2]] \in LazyFrames
    BY DEF L!Mappings, L!Present
<1>2. M \subseteq Procs \X L!Pages
    BY <1>1
<1>3. IsFiniteSet(M)
    <2>1. IsFiniteSet(L!Pages)
        BY LazyAssumption, FS_Interval DEF L!Pages
    <2> QED BY <1>2, <2>1, LazyAssumption, FS_Product, FS_Subset
<1>4. \A f : f \in T <=> \E m \in M : f = entry[m[1]][m[2]]
    BY DEF L!Mapped
<1> HIDE DEF M, T
<1>5. \A m \in M : m[1] \in Procs /\ m[2] \in L!Pages /\ h[m] = entry[m[1]][m[2]] /\ h[m] \in LazyFrames
    BY <1>1
<1>6. \A m \in M : h[m] \in T
    BY <1>4, <1>5
<1>7. \A m, k \in M : h[m] = h[k] => m = k
    <2> TAKE m, k \in M
    <2> HAVE h[m] = h[k]
    <2>1. m[1] = k[1] /\ m[2] = k[2]
        BY <1>5 DEF OneEntryEach
    <2> QED BY <1>2, <2>1
<1>8. \A f \in T : \E m \in M : h[m] = f
    BY <1>4
<1>9. h \in Bijection(M, T)
    BY <1>6, <1>7, <1>8, Fun_IsBij
<1>10. Cardinality(M) = Cardinality(T) /\ IsFiniteSet(T)
    BY <1>3, <1>9, FS_Bijection DEF ExistsBijection
<1>11. T \subseteq LazyFrames /\ \A f \in LazyFrames : f \in T <=> \E p \in Procs, i \in L!Pages : entry[p][i] = f
    <2>1. \A f \in T : f \in LazyFrames /\ \E p \in Procs, i \in L!Pages : entry[p][i] = f
        BY <1>5, <1>8
    <2>2. ASSUME NEW f \in LazyFrames, NEW p \in Procs, NEW i \in L!Pages, entry[p][i] = f PROVE f \in T
        <3>1. <<p, i>> \in M
            BY <1>1, <2>2
        <3>2. f = entry[<<p, i>>[1]][<<p, i>>[2]]
            BY <2>2
        <3> QED BY <1>4, <3>1, <3>2
    <2> QED BY <2>1, <2>2
<1> HIDE DEF h
<1> DEFINE R == kfreelist \cup T
<1>12. kfreelist \cap T = {} /\ R \cap lost = {} /\ R \cup lost = LazyFrames
    BY <1>11 DEF OneEntryEach, LazyTypes
<1>13. IsFiniteSet(kfreelist) /\ IsFiniteSet(lost)
    BY LazyAssumption, FS_Subset DEF LazyTypes
<1>14. IsFiniteSet(R) /\ Cardinality(R) = Cardinality(kfreelist) + Cardinality(T) - Cardinality(kfreelist \cap T)
    BY <1>10, <1>13, FS_Union
<1>15. /\ Cardinality(LazyFrames) = Cardinality(R) + Cardinality(lost) - Cardinality(R \cap lost)
    <2> HIDE DEF R
    <2> QED BY <1>12, <1>13, <1>14, FS_Union
<1>16. Cardinality({}) = 0
    BY FS_EmptySet
<1>17. Cardinality(kfreelist) \in Nat /\ Cardinality(T) \in Nat /\ Cardinality(lost) \in Nat
    BY <1>10, <1>13, FS_CardinalityType
<1>18. Cardinality(kfreelist) + Cardinality(M) + Cardinality(lost) = Cardinality(LazyFrames)
    <2>1. Cardinality(kfreelist \cap T) = 0 /\ Cardinality(R \cap lost) = 0
        BY <1>12, <1>16
    <2> HIDE DEF R
    <2> QED BY <1>10, <1>14, <1>15, <1>17, <2>1
<1>19. kfreelist \cup L!Mapped \cup lost = LazyFrames
    BY <1>12 DEF T
<1>20. L!Cardinality(kfreelist) + L!Cardinality(L!Mappings) + L!Cardinality(lost) = L!Cardinality(LazyFrames)
    BY <1>18, LazyCounts DEF M
<1>21. \A p \in Procs \ careless : L!Exact(p)
    BY DEF L!Exact, UpToSz
<1> QED BY <1>19, <1>20, <1>21 DEF LazyFramesAccounted, L!FramesAccounted, Excused

(* sbrk, mmap, fork, exit and page faults of the Activity B tree, for any  *)
(* number of processes and frames: a frame is free, mapped once, or lost   *)
(* by the mmap of a careless process; the others have entries for exactly  *)
(* the pages below sz, and panic only when the kernel finds no memory.     *)
THEOREM LazyLosesNoFrame == L!Spec => []LazyFramesAccounted
BY LazyInit, LazyStep, LazyAccounts, PTL DEF L!Spec

----------------------------------------------------------------------------
(* Lazy memory looks like memory that was there from the start.            *)
LazyContents == content \in [LazyFrames -> LazyVals \cup {LazyZero, LazyJunk}]

(* What process p reads from page i.                                       *)
Reads(p, i) == IF L!Present(p, i) THEN content[entry[p][i]] ELSE LazyZero

(* What the refinement maps to the image of EagerMem.                      *)
Memory == [p \in Procs |-> L!Image(p)]

LEMMA MemoryIs ==
    ASSUME NEW p \in Procs
    PROVE  Memory[p] = IF size[p] = NONE THEN NONE ELSE [i \in L!Mine(p) |-> Reads(p, i)]
BY DEF Memory, L!Image, Reads

(* A live process has an image.                                            *)
LEMMA MemoryThere ==
    ASSUME LazyIInv, LazyContents, NEW p \in Procs
    PROVE  Memory[p] = NONE <=> size[p] = NONE
<1>1. \A i \in L!Mine(p) : Reads(p, i) \in LazyVals \cup {LazyZero, LazyJunk}
    BY DEF LazyContents, Reads, L!Present
<1>2. L!Mine(p) \in SUBSET (0 .. LazyPages - 1)
    BY DEF L!Mine, L!Pages
<1>3. [i \in L!Mine(p) |-> Reads(p, i)] \in [L!Mine(p) -> LazyVals \cup {LazyZero, LazyJunk}]
    BY <1>1
<1>4. [i \in L!Mine(p) |-> Reads(p, i)] # NONE
    BY <1>2, <1>3, ImageAssumption
<1> QED BY <1>4, MemoryIs

(* The pages below a size are the first n.                                 *)
LEMMA FirstPages ==
    ASSUME NEW z \in Nat
    PROVE  \E k \in 0 .. LazyPages : {i \in L!Pages : i * PGSIZE < z} = 0 .. k - 1
<1> DEFINE u == L!PGROUNDUP(z)
           k == IF u < 0 THEN 0 ELSE IF u > LazyPages THEN LazyPages ELSE u
<1>1. LazyPages \in Nat
    BY LazyAssumption
<1>2. u \in Int
    BY RoundUp
<1>3. \A i \in L!Pages : i \in Nat /\ (i < u <=> i * PGSIZE < z)
    BY <1>1, RoundUp DEF L!Pages
<1> HIDE DEF u
<1>4. k \in 0 .. LazyPages
    BY <1>1, <1>2
<1>5. \A i : i \in L!Pages /\ i < u <=> i \in 0 .. k - 1
    BY <1>1, <1>2 DEF L!Pages
<1>6. {i \in L!Pages : i * PGSIZE < z} = 0 .. k - 1
    BY <1>3, <1>5
<1> QED BY <1>4, <1>6

(* The memory of processes whose size and pages stay.                      *)
LEMMA OthersKeep ==
    ASSUME NEW p \in Procs, size'[p] = size[p], \A i \in L!Pages : Reads(p, i)' = Reads(p, i)
    PROVE  Memory'[p] = Memory[p]
<1>1. Memory'[p] = IF size'[p] = NONE THEN NONE ELSE [i \in L!Mine(p)' |-> Reads(p, i)']
    BY DEF Memory, L!Image, Reads, L!Mine, L!Present
<1>2. L!Mine(p)' = L!Mine(p) /\ L!Mine(p) \subseteq L!Pages
    BY DEF L!Mine
<1> QED BY <1>1, <1>2, MemoryIs

(* One process's memory becomes m.                                         *)
LEMMA OneMemory ==
    ASSUME NEW p \in Procs, NEW m, Memory'[p] = m, \A q \in Procs : q # p => Memory'[q] = Memory[q]
    PROVE  Memory' = [Memory EXCEPT ![p] = m]
BY DEF Memory

(* A process's size changes: Resize.                                       *)
LEMMA ResizeRefines ==
    ASSUME LazyIInv, LazyContents, NEW p \in Procs, NEW z \in Nat, size[p] \in Nat,
           size' = [size EXCEPT ![p] = z],
           \A q \in Procs : q # p => \A i \in L!Pages : Reads(q, i)' = Reads(q, i),
           \A i \in L!Pages : i * PGSIZE < z =>
               Reads(p, i)' = IF i * PGSIZE < size[p] THEN Reads(p, i) ELSE LazyZero,
           careless' = careless
    PROVE  \E k \in 0 .. LazyPages : L!Eager!Resize(p, k)
<1>1. PICK k \in 0 .. LazyPages : {i \in L!Pages : i * PGSIZE < z} = 0 .. k - 1
    BY FirstPages
<1>2. size[p] # NONE /\ z # NONE
    BY LazyAssumption
<1>3. size'[p] = z /\ \A q \in Procs : q # p => size'[q] = size[q]
    BY DEF LazyIInv, LazyTypes
<1>4. Memory[p] = [i \in L!Mine(p) |-> Reads(p, i)] /\ Memory[p] # NONE
    BY <1>2, MemoryIs, MemoryThere
<1>5. Memory'[p] = [i \in L!Mine(p)' |-> Reads(p, i)']
    BY <1>2, <1>3 DEF Memory, L!Image, Reads, L!Mine, L!Present
<1>6. L!Mine(p)' = 0 .. k - 1
    BY <1>1, <1>3 DEF L!Mine
<1>7. \A i \in 0 .. k - 1 : i \in L!Pages /\ i * PGSIZE < z
    BY <1>1
<1>8. \A i \in 0 .. k - 1 : i \in L!Mine(p) <=> i * PGSIZE < size[p]
    BY <1>7 DEF L!Mine
<1>9. DOMAIN Memory[p] = L!Mine(p) /\ \A i \in L!Mine(p) : Memory[p][i] = Reads(p, i)
    BY <1>4
<1>10. \A i \in 0 .. k - 1 : Reads(p, i)' = IF i \in DOMAIN Memory[p] THEN Memory[p][i] ELSE LazyZero
    BY <1>7, <1>8, <1>9
<1>11. Memory'[p] = [i \in 0 .. k - 1 |-> IF i \in DOMAIN Memory[p] THEN Memory[p][i] ELSE LazyZero]
    BY <1>5, <1>6, <1>10
<1>12. \A q \in Procs : q # p => Memory'[q] = Memory[q]
    BY <1>3, OthersKeep
<1>13. Memory' = [Memory EXCEPT ![p] = [i \in 0 .. k - 1 |-> IF i \in DOMAIN Memory[p] THEN Memory[p][i] ELSE LazyZero]]
    BY <1>11, <1>12, OneMemory
<1> QED BY <1>4, <1>13 DEF L!Eager!Resize, Memory

(* Fresh frames are zero, and were nobody's: nobody reads anything else    *)
(* than before.                                                            *)
LEMMA MapReads ==
    ASSUME LazyIInv, NEW p \in Procs, NEW s \in SUBSET L!Pages, NEW g \in [s -> kfreelist], L!Map(p, s, g),
           \A i \in s : entry[p][i] \notin LazyFrames
    PROVE  \A q \in Procs, i \in L!Pages : Reads(q, i)' = Reads(q, i)
<1>1. \A i \in s : g[i] \in LazyFrames /\ g[i] \in kfreelist
    BY DEF LazyIInv, LazyTypes
<1>2. /\ \A i \in L!Pages : entry'[p][i] = IF i \in s THEN g[i] ELSE entry[p][i]
      /\ \A q \in Procs : q # p => entry'[q] = entry[q]
    BY DEF L!Map, LazyIInv, LazyTypes
<1>3. \A f \in LazyFrames : content'[f] = IF \E i \in s : g[i] = f THEN LazyZero ELSE content[f]
    BY DEF L!Map
<1>4. ASSUME NEW q \in Procs, NEW i \in L!Pages, entry[q][i] \in LazyFrames
      PROVE  content'[entry[q][i]] = content[entry[q][i]]
    <2>1. \A j \in s : g[j] # entry[q][i]
        BY <1>1, <1>4 DEF LazyIInv, OneEntryEach
    <2> QED BY <1>3, <1>4, <2>1
<1>5. ASSUME NEW q \in Procs, NEW i \in L!Pages PROVE Reads(q, i)' = Reads(q, i)
    <2>1. CASE q = p /\ i \in s
        <3>1. entry'[q][i] = g[i] /\ g[i] \in LazyFrames /\ content'[g[i]] = LazyZero
            BY <1>1, <1>2, <1>3, <2>1
        <3>2. Reads(q, i)' = LazyZero
            BY <3>1 DEF Reads, L!Present
        <3> QED BY <2>1, <3>2 DEF Reads, L!Present
    <2>2. CASE ~(q = p /\ i \in s)
        <3>1. entry'[q][i] = entry[q][i]
            BY <1>2, <2>2
        <3> QED BY <1>4, <3>1 DEF Reads, L!Present
    <2> QED BY <2>1, <2>2
<1> QED BY <1>5

(* The memory of every process stays.                                      *)
LEMMA MemoryStays ==
    ASSUME size' = size, \A q \in Procs, i \in L!Pages : Reads(q, i)' = Reads(q, i)
    PROVE  Memory' = Memory
<1>1. \A q \in Procs : Memory'[q] = Memory[q]
    BY OthersKeep
<1> QED BY <1>1 DEF Memory

(* A careless process, or one that becomes careless, disturbs no memory    *)
(* but its own.                                                            *)
LEMMA DisturbRefines ==
    ASSUME LazyIInv, LazyContents, LazyIInv', LazyContents', NEW p \in Procs,
           size[p] # NONE, size'[p] # NONE, \A q \in Procs : q # p => size'[q] = size[q],
           \A q \in Procs : q # p => \A i \in L!Pages : Reads(q, i)' = Reads(q, i),
           careless' = careless \cup {p}
    PROVE  L!Eager!Disturb(p)
<1>1. Memory[p] # NONE
    BY MemoryThere
<1>2. Memory'[p] # NONE
    <2>1. \A i \in L!Mine(p)' : Reads(p, i)' \in LazyVals \cup {LazyZero, LazyJunk}
        BY DEF LazyContents, Reads, L!Present
    <2>2. L!Mine(p)' \in SUBSET (0 .. LazyPages - 1)
        BY DEF L!Mine, L!Pages
    <2>3. [i \in L!Mine(p)' |-> Reads(p, i)'] \in [L!Mine(p)' -> LazyVals \cup {LazyZero, LazyJunk}]
        BY <2>1
    <2>4. [i \in L!Mine(p)' |-> Reads(p, i)'] # NONE
        BY <2>2, <2>3, ImageAssumption
    <2>5. Memory'[p] = [i \in L!Mine(p)' |-> Reads(p, i)']
        BY DEF Memory, L!Image, Reads, L!Mine, L!Present
    <2> QED BY <2>4, <2>5
<1>3. \A q \in Procs : q # p => Memory'[q] = Memory[q]
    BY OthersKeep
<1>4. Memory' = [Memory EXCEPT ![p] = Memory'[p]]
    BY <1>3, OneMemory
<1> QED BY <1>1, <1>2, <1>4 DEF L!Eager!Disturb, Memory

(* Frames of p that are freed are nobody else's.                           *)
LEMMA FreeReads ==
    ASSUME LazyIInv, NEW p \in Procs, NEW s \in SUBSET L!Pages,
           L!kfree({entry[p][i] : i \in {j \in s : L!Present(p, j)}}),
           NEW q \in Procs, NEW i \in L!Pages, entry'[q][i] = entry[q][i],
           q = p => i \notin s \/ ~L!Present(p, i)
    PROVE  Reads(q, i)' = Reads(q, i)
<1>1. CASE L!Present(q, i)
    <2> DEFINE f == entry[q][i]
    <2>1. f \in LazyFrames /\ entry'[q][i] = f
        BY <1>1 DEF L!Present
    <2>2. \A j \in s : L!Present(p, j) => entry[p][j] # f
        BY <1>1, <2>1 DEF LazyIInv, OneEntryEach
    <2>3. content'[f] = content[f]
        BY <2>1, <2>2 DEF L!kfree
    <2> QED BY <1>1, <2>1, <2>3 DEF Reads, L!Present
<1>2. CASE ~L!Present(q, i)
    BY <1>2 DEF Reads, L!Present
<1> QED BY <1>1, <1>2

(* sbrk and mmap: of a careful process they are seen as a change of size.  *)
LEMMA GrowReads ==
    ASSUME LazyIInv, NEW p \in Procs, NEW k \in Int, L!growproc(p, k)
    PROVE  \A q \in Procs, i \in L!Pages : Reads(q, i)' = Reads(q, i)
<1> DEFINE z == size[p] + k
           s == L!Between(size[p], z)
           g == L!kalloc(s)
<1>1. /\ size[p] \in Nat /\ z \in Nat /\ L!Enough(s) /\ L!Map(p, s, g)
      /\ \A i \in s : ~L!Present(p, i)
    BY DEF L!growproc, L!Grows, L!Alive, LazyIInv, LazyTypes
<1>2. s \in SUBSET L!Pages
    BY <1>1, BetweenSizes
<1> HIDE DEF z, s
<1>3. g \in [s -> kfreelist]
    BY <1>1, <1>2, KallocGives DEF LazyIInv, LazyTypes
<1> HIDE DEF g
<1>4. \A i \in s : entry[p][i] \notin LazyFrames
    BY <1>1 DEF L!Present
<1> QED BY <1>1, <1>2, <1>3, <1>4, MapReads

LEMMA GrowRefines ==
    ASSUME LazyIInv, LazyContents, LazyIInv', LazyContents', NEW p \in Procs, NEW k \in Int, L!growproc(p, k)
    PROVE  L!Eager!Disturb(p) \/ \E m \in 0 .. LazyPages : L!Eager!Resize(p, m)
<1> DEFINE z == size[p] + k
<1>1. /\ size[p] \in Nat /\ z \in Nat /\ size' = [size EXCEPT ![p] = z] /\ careless' = careless
      /\ size[p] # NONE /\ z # NONE
    BY LazyAssumption DEF L!growproc, L!Grows, L!Alive, LazyIInv, LazyTypes
<1>2. \A q \in Procs, i \in L!Pages : Reads(q, i)' = Reads(q, i)
    BY GrowReads
<1> HIDE DEF z
<1>3. CASE p \in careless
    <2>1. size'[p] = z /\ \A q \in Procs : q # p => size'[q] = size[q]
        BY <1>1 DEF LazyIInv, LazyTypes
    <2>2. careless' = careless \cup {p}
        BY <1>1, <1>3
    <2> QED BY <1>1, <1>2, <2>1, <2>2, DisturbRefines
<1>4. CASE p \notin careless
    <2>1. \A i \in L!Pages : ~(i * PGSIZE < size[p]) => entry[p][i] = NONE
        BY <1>1, <1>4 DEF LazyIInv, UpToSz
    <2>2. \A i \in L!Pages : ~(i * PGSIZE < size[p]) => Reads(p, i) = LazyZero
        BY <2>1, LazyAssumption DEF Reads, L!Present
    <2>3. \A i \in L!Pages : i * PGSIZE < z =>
              Reads(p, i)' = IF i * PGSIZE < size[p] THEN Reads(p, i) ELSE LazyZero
        BY <1>2, <2>2
    <2> QED BY <1>1, <1>2, <2>3, ResizeRefines
<1> QED BY <1>3, <1>4

LEMMA GrowFailsRefines ==
    ASSUME LazyIInv, LazyContents, LazyIInv', LazyContents', NEW p \in Procs, NEW k \in Int, L!growproc_fails(p, k)
    PROVE  L!Eager!Disturb(p) \/ (Memory' = Memory /\ careless' = careless)
<1> DEFINE z == size[p] + k
           s == L!Between(size[p], z)
           t == L!Reached(s)
<1>1. /\ size[p] \in Nat /\ z \in Nat /\ size' = size /\ careless' = careless /\ L!Unmap(p, s, t)
      /\ size[p] # NONE
    BY LazyAssumption DEF L!growproc_fails, L!Grows, L!Alive, LazyIInv, LazyTypes
<1>2. /\ s \in SUBSET L!Pages
      /\ \A i \in L!Pages : i \in s => ~(i * PGSIZE < size[p])
    BY <1>1, BetweenSizes
<1>3. t \in SUBSET s
    BY DEF L!Reached
<1> HIDE DEF z, s, t
<1>4. /\ L!kfree({entry[p][i] : i \in {j \in s : L!Present(p, j)}})
      /\ \A q \in Procs : q # p => entry'[q] = entry[q]
      /\ \A i \in L!Pages : entry'[p][i] = IF i \in t \/ (i \in s /\ L!Present(p, i)) THEN NONE ELSE entry[p][i]
    BY <1>1 DEF L!Unmap, LazyIInv, LazyTypes
<1>5. \A q \in Procs : q # p => \A i \in L!Pages : Reads(q, i)' = Reads(q, i)
    BY <1>2, <1>4, FreeReads
<1>6. CASE p \in careless
    <2>1. careless' = careless \cup {p}
        BY <1>1, <1>6
    <2> QED BY <1>1, <1>5, <2>1, DisturbRefines
<1>7. CASE p \notin careless
    <2>1. \A i \in s : entry[p][i] = NONE
        BY <1>1, <1>2, <1>7 DEF LazyIInv, UpToSz
    <2>2. ASSUME NEW i \in L!Pages PROVE entry'[p][i] = entry[p][i] /\ (i \notin s \/ ~L!Present(p, i))
        BY <1>3, <1>4, <2>1, LazyAssumption DEF L!Present
    <2>3. \A i \in L!Pages : Reads(p, i)' = Reads(p, i)
        BY <1>2, <1>4, <2>2, FreeReads
    <2>4. \A q \in Procs, i \in L!Pages : Reads(q, i)' = Reads(q, i)
        BY <1>5, <2>3
    <2> QED BY <1>1, <2>4, MemoryStays
<1> QED BY <1>6, <1>7

LEMMA ShrinkRefines ==
    ASSUME LazyIInv, LazyContents, LazyIInv', LazyContents', NEW p \in Procs, NEW k \in Int, L!growproc_shrink(p, k)
    PROVE  L!Eager!Disturb(p) \/ \E m \in 0 .. LazyPages : L!Eager!Resize(p, m)
<1> DEFINE z == size[p] + k
           s == L!Between(z, size[p])
<1>1. /\ size[p] \in Nat /\ z \in Nat /\ z < size[p] /\ L!Unmap(p, s, {}) /\ size' = [size EXCEPT ![p] = z]
      /\ careless' = careless \/ careless' = careless \cup {p}
    BY DEF L!growproc_shrink, L!Alive, LazyIInv, LazyTypes
<1>2. /\ s \in SUBSET L!Pages
      /\ \A i \in L!Pages : i \in s <=> ~(i * PGSIZE < z) /\ i * PGSIZE < size[p]
    BY <1>1, BetweenSizes
<1> HIDE DEF z, s
<1>3. /\ L!kfree({entry[p][i] : i \in {j \in s : L!Present(p, j)}})
      /\ \A q \in Procs : q # p => entry'[q] = entry[q]
      /\ \A i \in L!Pages : i \notin s => entry'[p][i] = entry[p][i]
    BY <1>1 DEF L!Unmap, LazyIInv, LazyTypes
<1>4. \A q \in Procs : q # p => \A i \in L!Pages : Reads(q, i)' = Reads(q, i)
    BY <1>2, <1>3, FreeReads
<1>5. \A i \in L!Pages : i \notin s => Reads(p, i)' = Reads(p, i)
    BY <1>2, <1>3, FreeReads
<1>6. CASE careless' = careless \cup {p}
    <2>1. size'[p] = z /\ \A q \in Procs : q # p => size'[q] = size[q]
        BY <1>1 DEF LazyIInv, LazyTypes
    <2>2. size[p] # NONE /\ z # NONE
        BY <1>1, LazyAssumption
    <2> QED BY <1>4, <1>6, <2>1, <2>2, DisturbRefines
<1>7. CASE careless' = careless
    <2>1. \A i \in L!Pages : i * PGSIZE < z => i * PGSIZE < size[p]
        <3> TAKE i \in L!Pages
        <3>1. i * PGSIZE \in Int
            BY LazyAssumption DEF L!Pages
        <3> QED BY <1>1, <3>1
    <2>2. \A i \in L!Pages : i * PGSIZE < z =>
              Reads(p, i)' = IF i * PGSIZE < size[p] THEN Reads(p, i) ELSE LazyZero
        BY <1>2, <1>5, <2>1
    <2> QED BY <1>1, <1>4, <1>7, <2>2, ResizeRefines
<1> QED BY <1>1, <1>6, <1>7

LEMMA MmapRefines ==
    ASSUME LazyIInv, LazyContents, LazyIInv', LazyContents', NEW p \in Procs, NEW k \in Int, L!sys_mmap(p, k)
    PROVE  L!Eager!Disturb(p) \/ \E m \in 0 .. LazyPages : L!Eager!Resize(p, m)
<1> DEFINE z == size[p] + k
           s == L!mmap_entries(p, k)
<1>1. /\ size[p] \in Nat /\ k \in Nat /\ z \in Nat /\ k % PGSIZE = 0
      /\ size' = [size EXCEPT ![p] = z] /\ content' = content
      /\ \A q \in Procs : q # p => entry'[q] = entry[q]
      /\ \A i \in L!Pages : entry'[p][i] = IF i \in s THEN LAZY ELSE entry[p][i]
      /\ careless' = careless \/ careless' = careless \cup {p}
    BY DEF L!sys_mmap, L!Alive, LazyIInv, LazyTypes
<1>2. p \notin careless' => UpToSz' /\ UpToSz
    BY DEF LazyIInv
<1>3. size[p] # NONE /\ z # NONE /\ size'[p] = z /\ \A q \in Procs : q # p => size'[q] = size[q]
    BY <1>1, LazyAssumption DEF LazyIInv, LazyTypes
<1> HIDE DEF z, s
<1>4. \A q \in Procs : q # p => \A i \in L!Pages : Reads(q, i)' = Reads(q, i)
    BY <1>1 DEF Reads, L!Present
<1>5. CASE p \in careless'
    <2>1. careless' = careless \cup {p}
        BY <1>1, <1>5
    <2> QED BY <1>3, <1>4, <2>1, DisturbRefines
<1>6. CASE p \notin careless'
    <2>1. careless' = careless /\ p \notin careless
        BY <1>1, <1>6
    <2>2. \A i \in L!Pages : i \in s <=> ~(i * PGSIZE < size[p]) /\ i * PGSIZE < z
        BY <1>6, MmapNew DEF s, z
    <2>3. \A i \in L!Pages : i * PGSIZE < size[p] => Reads(p, i)' = Reads(p, i)
        BY <1>1, <2>2 DEF Reads, L!Present
    <2>4. \A i \in L!Pages : i \in s => Reads(p, i)' = LazyZero
        BY <1>1, LazyAssumption DEF Reads, L!Present
    <2>5. \A i \in L!Pages : i * PGSIZE < z =>
              Reads(p, i)' = IF i * PGSIZE < size[p] THEN Reads(p, i) ELSE LazyZero
        BY <2>2, <2>3, <2>4
    <2> QED BY <1>1, <1>4, <2>1, <2>5, ResizeRefines
<1> QED BY <1>5, <1>6

(* The page-fault handler is not seen.                                     *)
LEMMA FaultRefines ==
    ASSUME LazyIInv, NEW p \in Procs, NEW v \in L!Pages, L!fault(p, v)
    PROVE  Memory' = Memory /\ careless' = careless
<1> DEFINE s == {v}
           g == L!kalloc(s)
<1>1. entry[p][v] = LAZY /\ L!Enough(s) /\ L!Map(p, s, g) /\ size' = size /\ careless' = careless
    BY DEF L!fault
<1>2. s \in SUBSET L!Pages /\ \A i \in s : entry[p][i] \notin LazyFrames
    BY <1>1, LazyAssumption
<1> HIDE DEF s
<1>3. g \in [s -> kfreelist]
    BY <1>1, <1>2, KallocGives DEF LazyIInv, LazyTypes
<1> HIDE DEF g
<1>4. \A q \in Procs, i \in L!Pages : Reads(q, i)' = Reads(q, i)
    BY <1>1, <1>2, <1>3, MapReads
<1> QED BY <1>1, <1>4, MemoryStays

(* A store; a careless process may make it beyond its memory.              *)
LEMMA WriteRefines ==
    ASSUME LazyIInv, LazyContents, LazyIInv', LazyContents',
           NEW p \in Procs, NEW i \in L!Pages, NEW v \in LazyVals, L!user_write(p, i, v)
    PROVE  L!Eager!Disturb(p) \/ L!Eager!Write(p, i, v)
<1> DEFINE f == entry[p][i]
<1>1. /\ size[p] # NONE /\ f \in LazyFrames /\ content' = [content EXCEPT ![f] = v]
      /\ size' = size /\ entry' = entry /\ careless' = careless
    BY DEF L!user_write, L!Alive, L!Present
<1>2. content'[f] = v /\ \A h \in LazyFrames : h # f => content'[h] = content[h]
    BY <1>1 DEF LazyContents
<1>3. \A q \in Procs, j \in L!Pages : entry[q][j] = f => q = p /\ j = i
    BY <1>1 DEF LazyIInv, OneEntryEach
<1> HIDE DEF f
<1>4. \A q \in Procs, j \in L!Pages : ~(q = p /\ j = i) => Reads(q, j)' = Reads(q, j)
    BY <1>1, <1>2, <1>3 DEF Reads, L!Present
<1>5. CASE p \in careless
    <2>1. careless' = careless \cup {p} /\ size'[p] # NONE /\ \A q \in Procs : q # p => size'[q] = size[q]
        BY <1>1, <1>5
    <2>2. \A q \in Procs : q # p => \A j \in L!Pages : Reads(q, j)' = Reads(q, j)
        BY <1>4
    <2> QED BY <1>1, <2>1, <2>2, DisturbRefines
<1>6. CASE p \notin careless
    <2>1. Reads(p, i)' = v
        BY <1>1, <1>2 DEF Reads, L!Present, f
    <2>2. i \in L!Mine(p) /\ L!Mine(p)' = L!Mine(p) /\ L!Mine(p) \subseteq L!Pages
        BY <1>1, <1>6, LazyAssumption DEF L!Mine, LazyIInv, UpToSz, f
    <2>3. Memory[p] = [j \in L!Mine(p) |-> Reads(p, j)] /\ Memory[p] # NONE
        BY <1>1, MemoryIs, MemoryThere
    <2>4. Memory'[p] = [j \in L!Mine(p)' |-> Reads(p, j)']
        BY <1>1 DEF Memory, L!Image, Reads, L!Mine, L!Present
    <2>5. Memory'[p] = [Memory[p] EXCEPT ![i] = v]
        <3>1. \A j \in L!Mine(p) : Reads(p, j)' = IF j = i THEN v ELSE Reads(p, j)
            BY <1>4, <2>1, <2>2
        <3>2. Memory'[p] = [j \in L!Mine(p) |-> IF j = i THEN v ELSE Reads(p, j)]
            BY <2>2, <2>4, <3>1
        <3> QED BY <2>3, <3>2
    <2>6. \A q \in Procs : q # p => Memory'[q] = Memory[q]
        BY <1>1, <1>4, OthersKeep
    <2>7. Memory' = [Memory EXCEPT ![p] = [Memory[p] EXCEPT ![i] = v]]
        BY <2>5, <2>6, OneMemory
    <2>8. i \in DOMAIN Memory[p]
        BY <2>2, <2>3
    <2> QED BY <1>1, <2>3, <2>7, <2>8 DEF L!Eager!Write, Memory
<1> QED BY <1>5, <1>6

(* exit.                                                                   *)
LEMMA ExitRefines ==
    ASSUME LazyIInv, LazyContents, NEW p \in Procs, L!exit(p)
    PROVE  L!Eager!Exit(p)
<1> DEFINE s == L!Pages
<1>1. /\ size[p] # NONE /\ size'[p] = NONE /\ careless' = careless \ {p}
      /\ L!kfree({entry[p][i] : i \in {j \in s : L!Present(p, j)}})
      /\ \A q \in Procs : q # p => size'[q] = size[q] /\ entry'[q] = entry[q]
    BY DEF L!exit, L!Alive, LazyIInv, LazyTypes
<1>2. s \in SUBSET L!Pages
    OBVIOUS
<1> HIDE DEF s
<1>3. Memory[p] # NONE
    BY <1>1, MemoryThere
<1>4. Memory'[p] = NONE
    BY <1>1 DEF Memory, L!Image
<1>5. \A q \in Procs : q # p => \A i \in L!Pages : Reads(q, i)' = Reads(q, i)
    BY <1>1, <1>2, FreeReads
<1>6. \A q \in Procs : q # p => Memory'[q] = Memory[q]
    BY <1>1, <1>5, OthersKeep
<1>7. Memory' = [Memory EXCEPT ![p] = NONE]
    BY <1>4, <1>6, OneMemory
<1> QED BY <1>1, <1>3, <1>7 DEF L!Eager!Exit, Memory

(* copyuvm copies what is present, and what is lazy is zero in both.       *)
LEMMA ForkRefines ==
    ASSUME LazyIInv, LazyContents, NEW p \in Procs, NEW c \in Procs, L!fork(p, c)
    PROVE  LazyContents' /\ L!Eager!Fork(p, c)
<1> DEFINE s == L!Copied(p)
           g == L!kalloc(s)
           a(f) == CHOOSE i \in s : g[i] = f
<1>1. size[p] \in Nat /\ size[p] # NONE /\ size[c] = NONE /\ L!Enough(s)
    BY DEF L!fork, L!Alive, LazyIInv, LazyTypes
<1>2. /\ s \in SUBSET L!Pages
      /\ \A i \in L!Pages : i \in L!Mine(p) <=> i * PGSIZE < size[p]
      /\ \A i \in L!Pages : i \in s <=> i \in L!Mine(p) /\ entry[p][i] # LAZY
    BY DEF L!Copied, L!Mine
<1>3. \A i \in s : L!Present(p, i)
    <2>1. s \subseteq L!Whole(p)
        BY DEF L!fork
    <2>2. \A i \in s : i \in Nat /\ i <= i
        BY <1>2, LazyAssumption DEF L!Pages
    <2> QED BY <2>1, <2>2 DEF L!Whole
<1>4. g \in [s -> kfreelist] /\ \A i, j \in s : i # j => g[i] # g[j]
    BY <1>1, <1>2, KallocGives DEF LazyIInv, LazyTypes
<1>5. /\ content' = [f \in LazyFrames |-> IF \E i \in s : g[i] = f THEN content[entry[p][a(f)]] ELSE content[f]]
      /\ entry' = [entry EXCEPT ![c] = [i \in L!Pages |->
             CASE i \in s -> g[i] [] i \in L!Mine(p) \ s -> LAZY [] OTHER -> NONE]]
      /\ size' = [size EXCEPT ![c] = size[p]] /\ careless' = careless
    BY DEF L!fork
<1> HIDE DEF s, g
<1>6. \A i \in s : g[i] \in LazyFrames /\ g[i] \in kfreelist
    BY <1>4 DEF LazyIInv, LazyTypes
<1>7. /\ \A q \in Procs : q # c => entry'[q] = entry[q] /\ size'[q] = size[q]
      /\ size'[c] = size[p]
      /\ \A i \in s : entry'[c][i] = g[i]
      /\ \A i \in L!Pages \ s : entry'[c][i] \in {LAZY, NONE}
    BY <1>2, <1>5 DEF LazyIInv, LazyTypes
<1>8. \A i \in s : a(g[i]) = i
    BY <1>4
<1>9. \A f \in LazyFrames : (\E i \in s : g[i] = f) => a(f) \in s
    OBVIOUS
<1> HIDE DEF a
<1>10. \A i \in s : content'[g[i]] = content[entry[p][i]]
    BY <1>5, <1>6, <1>8
<1>11. \A f \in LazyFrames : (\A i \in s : g[i] # f) => content'[f] = content[f]
    BY <1>5
<1>12. LazyContents'
    <2>1. ASSUME NEW f \in LazyFrames PROVE content'[f] \in LazyVals \cup {LazyZero, LazyJunk}
        <3>1. CASE \E i \in s : g[i] = f
            BY <1>3, <1>10, <3>1 DEF LazyContents, L!Present
        <3>2. CASE \A i \in s : g[i] # f
            BY <1>11, <3>2 DEF LazyContents
        <3> QED BY <3>1, <3>2
    <2> QED BY <1>5, <2>1 DEF LazyContents
<1>13. p # c
    BY <1>1
<1>14. ASSUME NEW q \in Procs, q # c, NEW i \in L!Pages PROVE Reads(q, i)' = Reads(q, i)
    <2>1. entry[q][i] \in LazyFrames => \A j \in s : g[j] # entry[q][i]
        BY <1>6 DEF LazyIInv, OneEntryEach
    <2> QED BY <1>7, <1>11, <1>14, <2>1 DEF Reads, L!Present
<1>15. ASSUME NEW i \in L!Pages, i * PGSIZE < size[p] PROVE Reads(c, i)' = Reads(p, i)
    <2>1. CASE i \in s
        BY <1>3, <1>6, <1>7, <1>10, <2>1 DEF Reads, L!Present
    <2>2. CASE i \notin s
        <3>1. entry[p][i] = LAZY
            BY <1>2, <1>15, <2>2
        <3> QED BY <1>7, <2>2, <3>1, LazyAssumption DEF Reads, L!Present
    <2> QED BY <2>1, <2>2
<1>16. Memory[p] = [i \in L!Mine(p) |-> Reads(p, i)] /\ Memory[p] # NONE /\ Memory[c] = NONE
    BY <1>1, MemoryIs, MemoryThere
<1>17. Memory'[c] = [i \in L!Mine(c)' |-> Reads(c, i)']
    BY <1>1, <1>7 DEF Memory, L!Image, Reads, L!Mine, L!Present
<1>18. L!Mine(c)' = L!Mine(p) /\ \A i \in L!Mine(p) : i \in L!Pages /\ i * PGSIZE < size[p]
    BY <1>7 DEF L!Mine
<1>19. Memory'[c] = Memory[p]
    BY <1>15, <1>16, <1>17, <1>18
<1>20. \A q \in Procs : q # c => Memory'[q] = Memory[q]
    BY <1>7, <1>14, OthersKeep
<1>21. Memory' = [Memory EXCEPT ![c] = Memory[p]]
    BY <1>19, <1>20, OneMemory
<1> QED BY <1>5, <1>12, <1>16, <1>21 DEF L!Eager!Fork, Memory

(* Every call, fault and store leaves values in the frames.                *)
LEMMA ContentsStep ==
    ASSUME LazyIInv, LazyContents, [L!Next]_L!lvars
    PROVE  LazyContents'
<1>0. CASE content' = content
    BY <1>0 DEF LazyContents
<1>1. ASSUME NEW p \in Procs, NEW s, NEW g, L!Map(p, s, g) PROVE LazyContents'
    BY <1>1 DEF L!Map, LazyContents
<1>2. ASSUME NEW s, L!kfree(s) PROVE LazyContents'
    BY <1>2 DEF L!kfree, LazyContents
<1>3. ASSUME NEW p \in Procs, L!exit(p) PROVE LazyContents'
    BY <1>2, <1>3 DEF L!exit
<1>4. ASSUME NEW p, NEW s, L!panic(p, s) PROVE LazyContents'
    BY <1>0, <1>4 DEF L!panic
<1>5. ASSUME NEW p \in Procs, NEW k \in Sbrks,
             \/ L!growproc(p, k) \/ L!growproc_remap(p, k) \/ L!growproc_fails(p, k)
             \/ L!growproc_shrink(p, k) \/ L!growproc_wraps(p, k)
      PROVE  LazyContents'
    <2>1. CASE L!growproc(p, k)
        BY <1>1, <2>1 DEF L!growproc
    <2>2. CASE L!growproc_remap(p, k)
        BY <1>4, <2>2 DEF L!growproc_remap
    <2>3. CASE L!growproc_fails(p, k) \/ L!growproc_shrink(p, k)
        BY <1>2, <2>3 DEF L!growproc_fails, L!growproc_shrink, L!Unmap
    <2>4. CASE L!growproc_wraps(p, k)
        BY <1>0, <2>4 DEF L!growproc_wraps, L!lvars
    <2> QED BY <1>5, <2>1, <2>2, <2>3, <2>4
<1>6. ASSUME NEW p \in Procs, NEW k \in Mmaps, L!sys_mmap(p, k) \/ L!sys_mmap_invalid(p, k)
      PROVE  LazyContents'
    BY <1>0, <1>6 DEF L!sys_mmap, L!sys_mmap_invalid, L!lvars
<1>7. ASSUME NEW p \in Procs, NEW i \in L!Pages,
             \/ L!fault(p, i) \/ L!fault_fails(p, i) \/ L!fault_in_kernel(p, i)
             \/ \E v \in LazyVals : L!user_write(p, i, v)
      PROVE  LazyContents'
    <2>1. CASE L!fault(p, i)
        BY <1>1, <2>1 DEF L!fault
    <2>2. CASE L!fault_fails(p, i)
        BY <1>3, <2>2 DEF L!fault_fails
    <2>3. CASE L!fault_in_kernel(p, i)
        BY <1>4, <2>3 DEF L!fault_in_kernel
    <2>4. CASE \E v \in LazyVals : L!user_write(p, i, v)
        BY <2>4 DEF L!user_write, LazyContents
    <2> QED BY <1>7, <2>1, <2>2, <2>3, <2>4
<1>8. ASSUME NEW p \in Procs, NEW c \in Procs, L!fork(p, c) \/ L!fork_panics(p, c) \/ L!fork_fails(p, c)
      PROVE  LazyContents'
    <2>1. CASE L!fork(p, c)
        BY <2>1, ForkRefines
    <2>2. CASE L!fork_panics(p, c)
        BY <1>4, <2>2 DEF L!fork_panics
    <2>3. CASE L!fork_fails(p, c)
        BY <1>0, <2>3 DEF L!fork_fails, L!lvars
    <2> QED BY <1>8, <2>1, <2>2, <2>3
<1>9. CASE UNCHANGED L!lvars
    BY <1>0, <1>9 DEF L!lvars
<1> QED BY <1>3, <1>5, <1>6, <1>7, <1>8, <1>9 DEF L!Next

(* Every step is one of EagerMem, or is not seen.                          *)
LEMMA LazyRefines ==
    ASSUME LazyIInv, LazyContents, LazyIInv', LazyContents', [L!Next]_L!lvars
    PROVE  [L!Eager!Next]_<<[p \in Procs |-> L!Image(p)], careless>>
<1> DEFINE Abs == L!Eager!Next \/ (Memory' = Memory /\ careless' = careless)
<1> SUFFICES Abs
    BY DEF Memory
<1>1. ASSUME NEW p \in Procs, L!Eager!Exit(p) \/ L!Eager!Disturb(p) PROVE Abs
    BY <1>1 DEF L!Eager!Next
<1>2. ASSUME NEW p \in Procs, NEW k \in 0 .. LazyPages, L!Eager!Resize(p, k) PROVE Abs
    BY <1>2 DEF L!Eager!Next
<1>3. ASSUME NEW p \in Procs, NEW i \in L!Pages, NEW v \in LazyVals, L!Eager!Write(p, i, v) PROVE Abs
    BY <1>3 DEF L!Eager!Next, L!Pages
<1>4. ASSUME NEW p \in Procs, NEW c \in Procs, L!Eager!Fork(p, c) PROVE Abs
    BY <1>4 DEF L!Eager!Next
<1>5. CASE UNCHANGED <<size, entry, content, careless>>
    <2>1. size' = size /\ \A q \in Procs, i \in L!Pages : Reads(q, i)' = Reads(q, i)
        BY <1>5 DEF Reads, L!Present
    <2> QED BY <1>5, <2>1, MemoryStays
<1>6. ASSUME NEW p, NEW s, L!panic(p, s) PROVE Abs
    BY <1>5, <1>6 DEF L!panic
<1> HIDE DEF Abs
<1>7. ASSUME NEW p \in Procs, NEW k \in Sbrks,
             \/ L!growproc(p, k) \/ L!growproc_remap(p, k) \/ L!growproc_fails(p, k)
             \/ L!growproc_shrink(p, k) \/ L!growproc_wraps(p, k)
      PROVE  Abs
    <2>1. k \in Int
        BY LazyAssumption
    <2>2. CASE L!growproc(p, k) \/ L!growproc_shrink(p, k)
        BY <1>1, <1>2, <2>1, <2>2, GrowRefines, ShrinkRefines
    <2>3. CASE L!growproc_fails(p, k)
        BY <1>1, <2>1, <2>3, GrowFailsRefines DEF Abs
    <2>4. CASE L!growproc_remap(p, k)
        BY <1>6, <2>4 DEF L!growproc_remap
    <2>5. CASE L!growproc_wraps(p, k)
        BY <1>5, <2>5 DEF L!growproc_wraps, L!lvars
    <2> QED BY <1>7, <2>2, <2>3, <2>4, <2>5
<1>8. ASSUME NEW p \in Procs, NEW k \in Mmaps, L!sys_mmap(p, k) \/ L!sys_mmap_invalid(p, k)
      PROVE  Abs
    <2>1. k \in Int
        BY LazyAssumption
    <2>2. CASE L!sys_mmap_invalid(p, k)
        BY <1>5, <2>2 DEF L!sys_mmap_invalid, L!lvars
    <2> QED BY <1>1, <1>2, <1>8, <2>1, <2>2, MmapRefines
<1>9. ASSUME NEW p \in Procs, L!exit(p) PROVE Abs
    BY <1>1, <1>9, ExitRefines
<1>10. ASSUME NEW p \in Procs, NEW i \in L!Pages,
              \/ L!fault(p, i) \/ L!fault_fails(p, i) \/ L!fault_in_kernel(p, i)
              \/ \E v \in LazyVals : L!user_write(p, i, v)
       PROVE  Abs
    <2>1. CASE \E v \in LazyVals : L!user_write(p, i, v)
        BY <1>1, <1>3, <2>1, WriteRefines
    <2>2. CASE L!fault_fails(p, i)
        BY <1>9, <2>2 DEF L!fault_fails
    <2>3. CASE L!fault_in_kernel(p, i)
        BY <1>6, <2>3 DEF L!fault_in_kernel
    <2>4. CASE L!fault(p, i)
        BY <2>4, FaultRefines DEF Abs
    <2> QED BY <1>10, <2>1, <2>2, <2>3, <2>4
<1>11. ASSUME NEW p \in Procs, NEW c \in Procs, L!fork(p, c) \/ L!fork_panics(p, c) \/ L!fork_fails(p, c)
       PROVE  Abs
    <2>1. CASE L!fork(p, c)
        BY <1>4, <2>1, ForkRefines
    <2>2. CASE L!fork_panics(p, c)
        BY <1>6, <2>2 DEF L!fork_panics
    <2>3. CASE L!fork_fails(p, c)
        BY <1>5, <2>3 DEF L!fork_fails, L!lvars
    <2> QED BY <1>11, <2>1, <2>2, <2>3
<1>12. CASE UNCHANGED L!lvars
    BY <1>5, <1>12 DEF L!lvars
<1> QED BY <1>7, <1>8, <1>9, <1>10, <1>11, <1>12 DEF L!Next

(* mmap with allocation on demand implements EagerMem, for any number of   *)
(* processes and frames: a program that is not careless cannot tell it     *)
(* from memory that was there from the start, in a parent or in a child,   *)
(* and a careless one disturbs no memory but its own.                      *)
THEOREM LazyIsEager == L!Spec => LazyImplementsEagerMem
<1>1. L!Init => L!Eager!Init /\ LazyContents
    <2> SUFFICES ASSUME L!Init PROVE L!Eager!Init /\ LazyContents
        OBVIOUS
    <2>1. LazyContents /\ \A q \in Procs, i \in L!Pages : Reads(q, i) = LazyZero
        <3> DEFINE h == CHOOSE f \in LazyFrames : TRUE
                   r == CHOOSE p \in Procs : TRUE
        <3>1. /\ content = [f \in LazyFrames |-> IF f = h THEN LazyZero ELSE LazyJunk]
              /\ entry = [q \in Procs |-> IF q = r THEN [L!Unmapped EXCEPT ![0] = h] ELSE L!Unmapped]
            BY DEF L!Init
        <3> HIDE DEF h, r
        <3>2. \A q \in Procs, i \in L!Pages : entry[q][i] = h \/ entry[q][i] = NONE
            BY <3>1 DEF L!Unmapped
        <3>3. \A q \in Procs, i \in L!Pages : Reads(q, i) = LazyZero
            BY <3>1, <3>2, LazyAssumption DEF Reads, L!Present
        <3> QED BY <3>1, <3>3 DEF LazyContents
    <2> DEFINE p == CHOOSE p \in Procs : TRUE
    <2>2. p \in Procs /\ PGSIZE \in Nat /\ PGSIZE # NONE
        BY LazyAssumption
    <2>3. size = [q \in Procs |-> IF q = p THEN PGSIZE ELSE NONE]
        BY DEF L!Init
    <2> HIDE DEF p
    <2>4. PICK k \in 0 .. LazyPages : {i \in L!Pages : i * PGSIZE < PGSIZE} = 0 .. k - 1
        BY <2>2, FirstPages
    <2>5. L!Mine(p) = 0 .. k - 1 /\ L!Mine(p) \subseteq L!Pages
        BY <2>2, <2>3, <2>4 DEF L!Mine
    <2>6. Memory[p] = [i \in 0 .. k - 1 |-> LazyZero]
        BY <2>1, <2>2, <2>3, <2>5, MemoryIs
    <2>7. \A q \in Procs : q # p => Memory[q] = NONE
        BY <2>3, MemoryIs
    <2>8. Memory = [q \in Procs |-> IF q = p THEN [i \in 0 .. k - 1 |-> LazyZero] ELSE NONE]
        BY <2>6, <2>7 DEF Memory
    <2>9. careless = {}
        BY DEF L!Init
    <2> QED BY <2>1, <2>2, <2>8, <2>9 DEF L!Eager!Init, Memory
<1>2. LazyIInv /\ LazyContents /\ [L!Next]_L!lvars
          => LazyIInv' /\ LazyContents' /\ [L!Eager!Next]_<<[p \in Procs |-> L!Image(p)], careless>>
    BY LazyStep, ContentsStep, LazyRefines
<1> QED BY <1>1, <1>2, LazyInit, PTL
        DEF L!Spec, LazyImplementsEagerMem, L!ImplementsEagerMem, L!Eager!Spec

(* The console.                                                            *)
Typed == Chars \cup {"\n", "^D"}
Indices == 0 .. UINT - 1

ConsoleTypes ==
    /\ input \in [buf : [0 .. INPUT_BUF - 1 -> Typed], r : Indices, w : Indices, e : Indices]
    /\ rpc \in [Procs -> {"user", "enter", "read", "sleep", "asleep"}]

(* Starting from r, first comes w and then e, within one ring.             *)
InOrder ==
    /\ C!From(input.r, input.w) + C!From(input.w, input.e) = C!From(input.r, input.e)
    /\ C!From(input.r, input.e) <= INPUT_BUF

(* The inductive invariant of the console.                                 *)
ConsoleIInv == ConsoleTypes /\ InOrder /\ ConsoleReadersHaveReason

(* An index that runs over or under once.                                  *)
LEMMA ModSub ==
    ASSUME NEW m \in Nat \ {0}, NEW x \in 0 .. m - 1, NEW y \in 0 .. m - 1
    PROVE  (x - y) % m = IF y <= x THEN x - y ELSE x - y + m
BY Z3

(* An index that runs over at most once.                                   *)
LEMMA ModAdd ==
    ASSUME NEW m \in Nat \ {0}, NEW x \in 0 .. m - 1, NEW k \in 0 .. m
    PROVE  (x + k) % m = IF x + k < m THEN x + k ELSE x + k - m
BY Z3

(* How far j is ahead of i.                                                *)
LEMMA Ahead ==
    ASSUME NEW i \in Indices, NEW j \in Indices
    PROVE  /\ C!From(i, j) = IF i <= j THEN j - i ELSE j - i + UINT
           /\ C!From(i, j) \in Indices
           /\ C!From(i, j) = 0 <=> i = j
<1>1. UINT \in Nat \ {0}
    BY ConsoleAssumption
<1>2. C!From(i, j) = IF i <= j THEN j - i ELSE j - i + UINT
    BY <1>1, ModSub DEF C!From, Indices
<1> QED BY <1>1, <1>2 DEF Indices

(* The next index and the one before.                                      *)
LEMMA NextIndex ==
    ASSUME NEW i \in Indices
    PROVE  /\ (i + 1) % UINT = IF i + 1 < UINT THEN i + 1 ELSE 0
           /\ (i - 1) % UINT = IF i = 0 THEN UINT - 1 ELSE i - 1
           /\ (i + INPUT_BUF) % UINT = IF i + INPUT_BUF < UINT THEN i + INPUT_BUF ELSE i + INPUT_BUF - UINT
           /\ (i + 1) % UINT \in Indices /\ (i - 1) % UINT \in Indices
<1>1. UINT \in Nat \ {0} /\ UINT > 1 /\ INPUT_BUF \in 0 .. UINT /\ i \in 0 .. UINT - 1
    BY ConsoleAssumption DEF Indices
<1>2. (i + 1) % UINT = IF i + 1 < UINT THEN i + 1 ELSE 0
    <2>1. 1 \in 0 .. UINT
        BY <1>1
    <2>2. (i + 1) % UINT = IF i + 1 < UINT THEN i + 1 ELSE i + 1 - UINT
        BY <1>1, <2>1, ModAdd
    <2> QED BY <1>1, <2>2
<1>3. (i - 1) % UINT = IF i = 0 THEN UINT - 1 ELSE i - 1
    <2>1. 1 \in 0 .. UINT - 1
        BY <1>1
    <2>2. (i - 1) % UINT = IF 1 <= i THEN i - 1 ELSE i - 1 + UINT
        BY <1>1, <2>1, ModSub
    <2> QED BY <1>1, <2>2
<1>4. (i + INPUT_BUF) % UINT = IF i + INPUT_BUF < UINT THEN i + INPUT_BUF ELSE i + INPUT_BUF - UINT
    BY <1>1, ModAdd
<1> QED BY <1>1, <1>2, <1>3, <1>4 DEF Indices

(* A character is typed at e.                                              *)
LEMMA OneMore ==
    ASSUME NEW r \in Indices, NEW w \in Indices, NEW e \in Indices,
           C!From(r, w) + C!From(w, e) = C!From(r, e), C!From(r, e) < INPUT_BUF
    PROVE  LET f == (e + 1) % UINT IN
           /\ C!From(r, f) = C!From(r, e) + 1 /\ C!From(w, f) = C!From(w, e) + 1
           /\ f = (r + INPUT_BUF) % UINT <=> C!From(r, f) = INPUT_BUF
<1> DEFINE f == (e + 1) % UINT
<1>1. f \in Indices /\ f = IF e + 1 < UINT THEN e + 1 ELSE 0
    BY NextIndex
<1>2. (r + INPUT_BUF) % UINT = IF r + INPUT_BUF < UINT THEN r + INPUT_BUF ELSE r + INPUT_BUF - UINT
    BY NextIndex
<1> HIDE DEF f
<1>3. /\ C!From(r, e) = IF r <= e THEN e - r ELSE e - r + UINT
      /\ C!From(w, e) = IF w <= e THEN e - w ELSE e - w + UINT
      /\ C!From(r, w) = IF r <= w THEN w - r ELSE w - r + UINT
    BY Ahead
<1>4. /\ C!From(r, f) = IF r <= f THEN f - r ELSE f - r + UINT
      /\ C!From(w, f) = IF w <= f THEN f - w ELSE f - w + UINT
    BY <1>1, Ahead
<1>5. UINT \in Nat /\ INPUT_BUF \in Nat \ {0} /\ UINT > INPUT_BUF
    BY ConsoleAssumption
<1>6. C!From(r, f) = C!From(r, e) + 1
    BY <1>1, <1>3, <1>4, <1>5 DEF Indices
<1>7. C!From(w, f) = C!From(w, e) + 1
    BY <1>1, <1>3, <1>4, <1>5 DEF Indices
<1>8. f = (r + INPUT_BUF) % UINT <=> C!From(r, f) = INPUT_BUF
    BY <1>1, <1>2, <1>4, <1>5 DEF Indices
<1> QED BY <1>6, <1>7, <1>8 DEF f

(* What lies between w and e is erased down to f.                          *)
LEMMA Fewer ==
    ASSUME NEW r \in Indices, NEW w \in Indices, NEW e \in Indices, NEW f \in Indices,
           C!From(r, w) + C!From(w, e) = C!From(r, e), C!From(f, e) <= C!From(w, e)
    PROVE  /\ C!From(w, f) = C!From(w, e) - C!From(f, e)
           /\ C!From(r, f) = C!From(r, e) - C!From(f, e)
<1>1. /\ C!From(r, e) = IF r <= e THEN e - r ELSE e - r + UINT
      /\ C!From(w, e) = IF w <= e THEN e - w ELSE e - w + UINT
      /\ C!From(r, w) = IF r <= w THEN w - r ELSE w - r + UINT
      /\ C!From(f, e) = IF f <= e THEN e - f ELSE e - f + UINT
    BY Ahead
<1>2. /\ C!From(r, f) = IF r <= f THEN f - r ELSE f - r + UINT
      /\ C!From(w, f) = IF w <= f THEN f - w ELSE f - w + UINT
    BY Ahead
<1>3. UINT \in Nat
    BY ConsoleAssumption
<1>4. C!From(w, f) = C!From(w, e) - C!From(f, e)
    BY <1>1, <1>2, <1>3 DEF Indices
<1>5. C!From(r, f) = C!From(r, e) - C!From(f, e)
    BY <1>1, <1>2, <1>3 DEF Indices
<1> QED BY <1>4, <1>5

(* The character at r is read.                                             *)
LEMMA OneRead ==
    ASSUME NEW r \in Indices, NEW w \in Indices, NEW e \in Indices,
           C!From(r, w) + C!From(w, e) = C!From(r, e), r # w
    PROVE  LET f == (r + 1) % UINT IN
           C!From(f, w) = C!From(r, w) - 1 /\ C!From(f, e) = C!From(r, e) - 1
<1> DEFINE f == (r + 1) % UINT
<1>1. f \in Indices /\ f = IF r + 1 < UINT THEN r + 1 ELSE 0
    BY NextIndex
<1> HIDE DEF f
<1>2. /\ C!From(r, e) = IF r <= e THEN e - r ELSE e - r + UINT
      /\ C!From(w, e) = IF w <= e THEN e - w ELSE e - w + UINT
      /\ C!From(r, w) = IF r <= w THEN w - r ELSE w - r + UINT
    BY Ahead
<1>3. /\ C!From(f, w) = IF f <= w THEN w - f ELSE w - f + UINT
      /\ C!From(f, e) = IF f <= e THEN e - f ELSE e - f + UINT
    BY <1>1, Ahead
<1>4. UINT \in Nat
    BY ConsoleAssumption
<1>5. C!From(f, w) = C!From(r, w) - 1
    BY <1>1, <1>2, <1>3, <1>4 DEF Indices
<1>6. C!From(f, e) = C!From(r, e) - 1
    BY <1>1, <1>2, <1>3, <1>4 DEF Indices
<1> QED BY <1>5, <1>6 DEF f

(* An empty ring.                                                          *)
LEMMA ConsoleInit == C!Init => ConsoleIInv
<1> SUFFICES ASSUME C!Init PROVE ConsoleIInv
    OBVIOUS
<1>1. 0 \in Indices
    BY ConsoleAssumption DEF Indices
<1>2. input.r = 0 /\ input.w = 0 /\ input.e = 0 /\ ConsoleTypes
    BY <1>1 DEF C!Init, ConsoleTypes, Typed
<1>3. C!From(0, 0) = 0
    BY <1>1, Ahead
<1>4. InOrder
    BY <1>2, <1>3, ConsoleAssumption DEF InOrder
<1> QED BY <1>2, <1>3, <1>4 DEF ConsoleIInv, ConsoleReadersHaveReason, C!ReadersHaveReason

(* The parts of the ring.                                                  *)
LEMMA RingParts ==
    ASSUME ConsoleTypes
    PROVE  /\ input.r \in Indices /\ input.w \in Indices /\ input.e \in Indices
           /\ C!From(input.r, input.w) \in Indices /\ C!From(input.w, input.e) \in Indices
           /\ C!From(input.r, input.e) \in Indices
<1>1. input.r \in Indices /\ input.w \in Indices /\ input.e \in Indices
    BY DEF ConsoleTypes
<1> QED BY <1>1, Ahead

(* A key that is neither backspace nor C('U').                             *)
LEMMA TypeKeeps ==
    ASSUME ConsoleIInv, NEW c \in Typed, C!consoleintr(c)
    PROVE  ConsoleIInv'
<1> USE DEF ConsoleIInv
<1> DEFINE r == input.r
           w == input.w
           e == input.e
           f == (e + 1) % UINT
           z == IF C!ends(c, f) THEN f ELSE w
<1>1. /\ r \in Indices /\ w \in Indices /\ e \in Indices
      /\ C!From(r, w) \in Indices /\ C!From(w, e) \in Indices /\ C!From(r, e) \in Indices
    BY RingParts
<1>2. /\ C!From(r, e) < INPUT_BUF
      /\ input' = [input EXCEPT !.buf[input.e % INPUT_BUF] = c, !.e = f, !.w = z]
      /\ IF C!ends(c, f) THEN C!Wakeup ELSE rpc' = rpc
      /\ \A p \in Procs : rpc[p] # "sleep"
    BY DEF C!consoleintr, C!Keystroke, C!lock_free
<1>3. f \in Indices /\ z \in Indices
    BY <1>1, NextIndex
<1>4. input'.r = r /\ input'.w = z /\ input'.e = f
    BY <1>2 DEF ConsoleTypes
<1>5. input' \in [buf : [0 .. INPUT_BUF - 1 -> Typed], r : Indices, w : Indices, e : Indices]
    BY <1>2, <1>3 DEF ConsoleTypes
<1>6. rpc' \in [Procs -> {"user", "enter", "read", "sleep", "asleep"}]
    BY <1>2 DEF ConsoleTypes, C!Wakeup
<1>7. C!From(r, w) + C!From(w, e) = C!From(r, e)
    BY DEF InOrder
<1>8. /\ C!From(r, f) = C!From(r, e) + 1 /\ C!From(w, f) = C!From(w, e) + 1
      /\ f = (r + INPUT_BUF) % UINT <=> C!From(r, f) = INPUT_BUF
    BY <1>1, <1>2, <1>7, OneMore
<1>9. C!From(f, f) = 0 /\ C!From(r, f) \in Indices
    BY <1>1, <1>3, Ahead
<1>10. C!From(r, f) = INPUT_BUF => C!ends(c, f)
    BY <1>8 DEF C!ends
<1> HIDE DEF f, r, w, e
<1>11. InOrder'
    <2>1. C!From(r, z) + C!From(z, f) = C!From(r, f)
        <3>1. CASE C!ends(c, f)
            BY <3>1, <1>9 DEF Indices
        <3>2. CASE ~C!ends(c, f)
            BY <3>2, <1>1, <1>7, <1>8 DEF Indices
        <3> QED BY <3>1, <3>2
    <2>2. C!From(r, f) <= INPUT_BUF
        BY <1>1, <1>2, <1>8, ConsoleAssumption DEF Indices
    <2> QED BY <1>4, <2>1, <2>2 DEF InOrder, C!From
<1>12. ConsoleReadersHaveReason'
    <2>1. C!From(r, f) = INPUT_BUF => z = f
        BY <1>10
    <2>2. ASSUME NEW p \in Procs, rpc'[p] \in {"sleep", "asleep"} PROVE r = z
        <3>1. CASE C!ends(c, f)
            BY <1>2, <2>2, <3>1 DEF ConsoleTypes, C!Wakeup
        <3>2. CASE ~C!ends(c, f)
            BY <1>2, <2>2, <3>2 DEF ConsoleReadersHaveReason, C!ReadersHaveReason, r, w
        <3> QED BY <3>1, <3>2
    <2> QED BY <1>4, <2>1, <2>2 DEF ConsoleReadersHaveReason, C!ReadersHaveReason, C!From
<1> QED BY <1>5, <1>6, <1>11, <1>12 DEF ConsoleTypes

(* backspace and C('U') go back from e, not beyond w.                      *)
LEMMA GoesBack ==
    ASSUME ConsoleTypes, C!backspace \/ C!kill_line
    PROVE  \E f \in Indices : input' = [input EXCEPT !.e = f] /\ C!From(f, input.e) <= C!From(input.w, input.e)
<1> DEFINE w == input.w
           e == input.e
<1>1. w \in Indices /\ e \in Indices /\ C!From(w, e) \in Indices
    BY RingParts
<1>2. \E f \in Indices : input' = [input EXCEPT !.e = f] /\ C!From(f, e) <= C!From(w, e)
    <2>1. CASE C!backspace
        <3> DEFINE f == (e - 1) % UINT
        <3>1. e # w /\ input' = [input EXCEPT !.e = f]
            BY <2>1 DEF C!backspace
        <3>2. f \in Indices /\ f = IF e = 0 THEN UINT - 1 ELSE e - 1
            BY <1>1, NextIndex
        <3> HIDE DEF f
        <3>3. C!From(f, e) = IF f <= e THEN e - f ELSE e - f + UINT
            BY <1>1, <3>2, Ahead
        <3>4. UINT \in Nat /\ UINT > 1
            BY ConsoleAssumption
        <3>5. C!From(f, e) = 1
            BY <1>1, <3>2, <3>3, <3>4 DEF Indices
        <3>6. C!From(w, e) # 0
            BY <1>1, <3>1, Ahead
        <3>7. C!From(f, e) <= C!From(w, e)
            BY <1>1, <3>5, <3>6 DEF Indices
        <3> QED BY <3>1, <3>2, <3>7
    <2>2. CASE C!kill_line
        BY <2>2 DEF C!kill_line, Indices
    <2> QED BY <2>1, <2>2
<1> QED BY <1>2

(* So what readers may take stays.                                         *)
LEMMA EraseKeeps ==
    ASSUME ConsoleIInv, C!backspace \/ C!kill_line
    PROVE  ConsoleIInv'
<1> USE DEF ConsoleIInv
<1> DEFINE r == input.r
           w == input.w
           e == input.e
<1>1. /\ r \in Indices /\ w \in Indices /\ e \in Indices
      /\ C!From(r, w) \in Indices /\ C!From(w, e) \in Indices /\ C!From(r, e) \in Indices
    BY RingParts
<1>2. PICK f \in Indices : input' = [input EXCEPT !.e = f] /\ C!From(f, e) <= C!From(w, e)
    BY GoesBack
<1>3. rpc' = rpc
    BY DEF C!backspace, C!kill_line
<1>4. input'.r = r /\ input'.w = w /\ input'.e = f
    BY <1>2 DEF ConsoleTypes
<1>5. ConsoleTypes'
    BY <1>2, <1>3 DEF ConsoleTypes
<1>6. C!From(r, w) + C!From(w, e) = C!From(r, e) /\ C!From(r, e) <= INPUT_BUF
    BY DEF InOrder
<1>7. /\ C!From(w, f) = C!From(w, e) - C!From(f, e)
      /\ C!From(r, f) = C!From(r, e) - C!From(f, e)
    BY <1>1, <1>2, <1>6, Fewer
<1>8. C!From(f, e) \in Indices /\ (C!From(f, e) = 0 => f = e)
    BY <1>1, <1>2, Ahead
<1>9. C!From(r, e) = INPUT_BUF => w = e
    BY DEF ConsoleReadersHaveReason, C!ReadersHaveReason
<1>10. \A p \in Procs : rpc[p] \in {"sleep", "asleep"} => r = w
    BY DEF ConsoleReadersHaveReason, C!ReadersHaveReason
<1> HIDE DEF r, w, e
<1>11. C!From(r, w) + C!From(w, f) = C!From(r, f) /\ C!From(r, f) <= INPUT_BUF
    BY <1>1, <1>6, <1>7, <1>8, ConsoleAssumption DEF Indices
<1>12. C!From(r, f) = INPUT_BUF => w = f
    BY <1>1, <1>6, <1>7, <1>8, <1>9, ConsoleAssumption DEF Indices
<1> QED BY <1>3, <1>4, <1>5, <1>10, <1>11, <1>12
        DEF InOrder, ConsoleReadersHaveReason, C!ReadersHaveReason, C!From

(* A reader takes the character at r.                                      *)
LEMMA TakeKeeps ==
    ASSUME ConsoleIInv, NEW p \in Procs, rpc[p] = "read", input.r # input.w,
           input' = [input EXCEPT !.r = (@ + 1) % UINT], rpc' = rpc \/ rpc' = [rpc EXCEPT ![p] = "user"]
    PROVE  ConsoleIInv'
<1> USE DEF ConsoleIInv
<1> DEFINE r == input.r
           w == input.w
           e == input.e
           f == (r + 1) % UINT
<1>1. /\ r \in Indices /\ w \in Indices /\ e \in Indices
      /\ C!From(r, w) \in Indices /\ C!From(w, e) \in Indices /\ C!From(r, e) \in Indices
    BY RingParts
<1>2. f \in Indices
    BY <1>1, NextIndex
<1>3. input'.r = f /\ input'.w = w /\ input'.e = e
    BY DEF ConsoleTypes
<1>4. ConsoleTypes'
    BY <1>2 DEF ConsoleTypes
<1>5. C!From(r, w) + C!From(w, e) = C!From(r, e) /\ C!From(r, e) <= INPUT_BUF
    BY DEF InOrder
<1>6. C!From(f, w) = C!From(r, w) - 1 /\ C!From(f, e) = C!From(r, e) - 1
    BY <1>1, <1>5, OneRead
<1>7. \A q \in Procs : rpc[q] \notin {"sleep", "asleep"}
    BY DEF ConsoleReadersHaveReason, C!ReadersHaveReason
<1>8. \A q \in Procs : rpc'[q] \notin {"sleep", "asleep"}
    BY <1>7 DEF ConsoleTypes
<1> HIDE DEF r, w, e, f
<1>9. C!From(f, w) + C!From(w, e) = C!From(f, e) /\ C!From(f, e) <= INPUT_BUF /\ C!From(f, e) # INPUT_BUF
    BY <1>1, <1>5, <1>6, ConsoleAssumption DEF Indices
<1> QED BY <1>3, <1>4, <1>8, <1>9
        DEF InOrder, ConsoleReadersHaveReason, C!ReadersHaveReason, C!From

(* A process moves on and the ring stays; it may fall asleep only while no *)
(* line is waiting.                                                        *)
LEMMA MoveKeeps ==
    ASSUME ConsoleIInv, NEW p \in Procs, input' = input,
           NEW l \in {"user", "enter", "read", "sleep", "asleep"}, rpc' = [rpc EXCEPT ![p] = l],
           l \in {"sleep", "asleep"} => input.r = input.w
    PROVE  ConsoleIInv'
BY DEF ConsoleIInv, ConsoleTypes, InOrder, ConsoleReadersHaveReason, C!ReadersHaveReason, C!From

(* The ring and the readers stay.                                          *)
LEMMA ConsoleSame ==
    ASSUME ConsoleIInv, input' = input, rpc' = rpc
    PROVE  ConsoleIInv'
BY DEF ConsoleIInv, ConsoleTypes, InOrder, ConsoleReadersHaveReason, C!ReadersHaveReason, C!From

(* Every key and every step of a reader.                                   *)
LEMMA ConsoleStep == ConsoleIInv /\ [C!Next]_C!cvars => ConsoleIInv'
<1> SUFFICES ASSUME ConsoleIInv, [C!Next]_C!cvars PROVE ConsoleIInv'
    OBVIOUS
<1>1. ASSUME NEW c \in Typed, C!consoleintr(c) PROVE ConsoleIInv'
    BY <1>1, TypeKeeps
<1>2. CASE C!backspace \/ C!kill_line
    BY <1>2, EraseKeeps
<1>3. ASSUME NEW p \in Procs, NEW k \in ReadSizes, C!sys_read(p, k) PROVE ConsoleIInv'
    BY <1>3, MoveKeeps DEF C!sys_read, C!Goto
<1>4. ASSUME NEW p \in Procs, C!acquire(p) PROVE ConsoleIInv'
    BY <1>4, MoveKeeps DEF C!acquire, C!Goto
<1>5. ASSUME NEW p \in Procs, C!consoleread_char(p) PROVE ConsoleIInv'
    BY <1>5, TakeKeeps DEF C!consoleread_char, C!Return, C!Goto
<1>6. ASSUME NEW p \in Procs, C!consoleread_eof(p) PROVE ConsoleIInv'
    <2>1. CASE got[p] = <<>>
        BY <1>6, <2>1, TakeKeeps DEF C!consoleread_eof, C!Return, C!Goto
    <2>2. CASE got[p] # <<>>
        BY <1>6, <2>2, MoveKeeps DEF C!consoleread_eof, C!Return, C!Goto
    <2> QED BY <2>1, <2>2
<1>7. ASSUME NEW p \in Procs, C!consoleread_empty(p) PROVE ConsoleIInv'
    BY <1>7, MoveKeeps DEF C!consoleread_empty, C!Return, C!Goto
<1>8. ASSUME NEW p \in Procs, C!sleep(p) PROVE ConsoleIInv'
    <2>1. input.r = input.w
        BY <1>8 DEF C!sleep, ConsoleIInv, ConsoleReadersHaveReason, C!ReadersHaveReason
    <2> QED BY <1>8, <2>1, MoveKeeps DEF C!sleep, C!Goto
<1>9. ASSUME NEW p \in Procs, C!kill(p) PROVE ConsoleIInv'
    BY <1>9, MoveKeeps, ConsoleSame DEF C!kill, C!Goto
<1>10. CASE UNCHANGED C!cvars
    BY <1>10, ConsoleSame DEF C!cvars
<1> QED BY <1>1, <1>2, <1>3, <1>4, <1>5, <1>6, <1>7, <1>8, <1>9, <1>10 DEF C!Next, Typed

(* What holds in every reachable state of the console.                     *)
LEMMA ConsoleInductive == C!Spec => []ConsoleIInv
BY ConsoleInit, ConsoleStep, PTL DEF C!Spec

(* consoleintr and consoleread, for any number of readers and any size of  *)
(* the ring: readers sleep only while no line is waiting, and a full ring  *)
(* can be read from.                                                       *)
THEOREM ConsoleMissesNoLine == C!Spec => []ConsoleReadersHaveReason
<1>1. ConsoleIInv => ConsoleReadersHaveReason
    BY DEF ConsoleIInv
<1> QED BY <1>1, ConsoleInductive, PTL

----------------------------------------------------------------------------
(* The remainder is the only one.                                          *)
LEMMA ModUnique ==
    ASSUME NEW a \in Int, NEW m \in Nat \ {0}, NEW q \in Int, NEW r \in 0 .. m - 1, a = m * q + r
    PROVE  a % m = r
BY Z3

(* A character's cell does not depend on where the indices wrap.           *)
LEMMA CellShift ==
    ASSUME NEW a \in Int
    PROVE  (a - UINT) % INPUT_BUF = a % INPUT_BUF
<1> DEFINE k == INPUT_BUF
           c == UINT \div k
           b == a \div k
           s == a % k
<1>0. k \in Nat \ {0} /\ UINT \in Nat \ {0} /\ UINT % k = 0
    BY ConsoleAssumption
<1>1. UINT = k * c /\ c \in Int
    BY <1>0, DivMod, Z3
<1>2. a = k * b + s /\ s \in 0 .. k - 1 /\ b \in Int
    BY <1>0, DivMod, Z3
<1> HIDE DEF c, b, s
<1>3. k * (b - c) = k * b - k * c /\ k * b \in Int /\ k * c \in Int /\ b - c \in Int
    BY <1>0, <1>1, <1>2, Z3
<1>4. a - UINT = k * (b - c) + s /\ a - UINT \in Int
    BY <1>0, <1>1, <1>2, <1>3
<1>5. (a - UINT) % k = s
    BY <1>0, <1>2, <1>3, <1>4, ModUnique
<1> QED BY <1>5 DEF s

(* Nor on whether an index is wrapped before its cell is computed.         *)
LEMMA CellOf ==
    ASSUME NEW a \in Int
    PROVE  /\ (a % UINT) % INPUT_BUF = a % INPUT_BUF
           /\ a % INPUT_BUF \in 0 .. INPUT_BUF - 1
<1> DEFINE k == INPUT_BUF
           m == UINT
           c == m \div k
           d == a \div m
           r == a % m
           e == r \div k
           s == r % k
<1>0. k \in Nat \ {0} /\ m \in Nat \ {0} /\ m % k = 0
    BY ConsoleAssumption
<1> HIDE DEF k, m
<1>1. m = k * c /\ c \in Int
    BY <1>0, DivMod, Z3
<1>2. a = m * d + r /\ r \in Int /\ d \in Int
    BY <1>0, DivMod, Z3
<1>3. r = k * e + s /\ s \in 0 .. k - 1 /\ e \in Int
    BY <1>0, <1>2, DivMod, Z3
<1> HIDE DEF c, d, r, e, s
<1>4. a = (k * c) * d + (k * e + s)
    BY <1>1, <1>2, <1>3
<1>5. (k * c) * d = k * (c * d) /\ k * (c * d + e) = k * (c * d) + k * e
    BY <1>0, <1>1, <1>2, <1>3, Z3
<1>6. /\ (k * c) * d \in Int /\ k * (c * d) \in Int /\ k * (c * d + e) \in Int
      /\ k * e \in Int /\ c * d + e \in Int
    BY <1>0, <1>1, <1>2, <1>3, Z3
<1>7. a = k * (c * d + e) + s
    BY <1>0, <1>3, <1>4, <1>5, <1>6
<1>8. a % k = s
    BY <1>0, <1>3, <1>6, <1>7, ModUnique
<1> QED BY <1>3, <1>8 DEF r, s, k, m

(* The cell of the index that is d ahead, plus k.                          *)
LEMMA CellAhead ==
    ASSUME NEW i \in Indices, NEW j \in Indices, NEW k \in Int
    PROVE  (j + k) % INPUT_BUF = (i + C!From(i, j) + k) % INPUT_BUF
<1> DEFINE a == i + C!From(i, j) + k
<1>1. UINT \in Int /\ i \in Int /\ j \in Int
    BY ConsoleAssumption DEF Indices
<1>2. C!From(i, j) = IF i <= j THEN j - i ELSE j - i + UINT
    BY Ahead
<1>3. a \in Int /\ (j + k = a \/ j + k = a - UINT)
    BY <1>1, <1>2
<1> HIDE DEF a
<1>4. (a - UINT) % INPUT_BUF = a % INPUT_BUF
    BY <1>3, CellShift
<1> QED BY <1>3, <1>4 DEF a

(* Places less than the ring's size apart have different cells.            *)
LEMMA CellsDiffer ==
    ASSUME NEW r \in Int, NEW i \in 0 .. INPUT_BUF - 1, NEW j \in 0 .. INPUT_BUF - 1, i # j
    PROVE  (r + i) % INPUT_BUF # (r + j) % INPUT_BUF
<1> DEFINE k == INPUT_BUF
           a == r + i
           b == r + j
           x == a \div k
           y == b \div k
           s == a % k
<1> SUFFICES ASSUME a % k = b % k PROVE FALSE
    OBVIOUS
<1>0. k \in Nat \ {0} /\ i \in Int /\ j \in Int
    BY ConsoleAssumption
<1>1. a \in Int /\ b \in Int /\ a - b < k /\ b - a < k /\ a # b
    BY <1>0
<1> HIDE DEF a, b
<1>2. a = k * x + s /\ b = k * y + s /\ x \in Int /\ y \in Int /\ s \in Int
    BY <1>0, <1>1, DivMod, Z3
<1> HIDE DEF x, y, s, k
<1>3. k * x - k * y = k * (x - y) /\ k * x \in Int /\ k * y \in Int
    BY <1>0, <1>2, Z3
<1>4. k * (x - y) < k /\ -k < k * (x - y)
    <2>1. a - b = k * x - k * y
        BY <1>1, <1>2, <1>3
    <2> QED BY <1>0, <1>1, <1>3, <2>1
<1>5. x = y
    <2>1. ~(x - y >= 1)
        BY <1>0, <1>2, <1>4, Z3
    <2>2. ~(x - y <= -1)
        BY <1>0, <1>2, <1>4, Z3
    <2> QED BY <1>2, <2>1, <2>2
<1> QED BY <1>1, <1>2, <1>5

(* The m characters that start i places after r.                           *)
Shown(buf, r, i, m) == [k \in 1 .. m |-> buf[(r + i + k - 1) % INPUT_BUF]]

Ring == [0 .. INPUT_BUF - 1 -> Typed]

LEMMA ShownSeq ==
    ASSUME NEW buf \in Ring, NEW r \in Int, NEW i \in Int, NEW m \in Nat
    PROVE  /\ Shown(buf, r, i, m) \in Seq(Typed) /\ Len(Shown(buf, r, i, m)) = m
           /\ \A k \in 1 .. m : Shown(buf, r, i, m)[k] = buf[(r + i + k - 1) % INPUT_BUF]
           /\ m = 0 => Shown(buf, r, i, m) = <<>>
<1>1. \A k \in 1 .. m : (r + i + k - 1) % INPUT_BUF \in 0 .. INPUT_BUF - 1
    <2> TAKE k \in 1 .. m
    <2>1. r + i + k - 1 \in Int
        OBVIOUS
    <2> QED BY <2>1, CellOf
<1>2. \A k \in 1 .. m : buf[(r + i + k - 1) % INPUT_BUF] \in Typed
    BY <1>1 DEF Ring
<1>3. Shown(buf, r, i, m) \in Seq(Typed) /\ Len(Shown(buf, r, i, m)) = m
    BY <1>2, IsASeq DEF Shown
<1> QED BY <1>3, EmptySeq DEF Shown

(* What the refinement maps the queue and the pending line to.             *)
LEMMA RingShown ==
    ConsoleTypes =>
        /\ C!Ring(input.r, input.w) = Shown(input.buf, input.r, 0, C!From(input.r, input.w))
        /\ C!Ring(input.w, input.e) =
               Shown(input.buf, input.r, C!From(input.r, input.w), C!From(input.w, input.e))
<1> SUFFICES ASSUME ConsoleTypes
             PROVE  /\ C!Ring(input.r, input.w) = Shown(input.buf, input.r, 0, C!From(input.r, input.w))
                    /\ C!Ring(input.w, input.e) =
                           Shown(input.buf, input.r, C!From(input.r, input.w), C!From(input.w, input.e))
    OBVIOUS
<1> DEFINE r == input.r
           w == input.w
           m == C!From(r, w)
           n1 == C!From(w, input.e)
<1>1. r \in Indices /\ w \in Indices /\ m \in Indices /\ n1 \in Indices /\ Indices \subseteq Int
    BY RingParts, ConsoleAssumption DEF Indices
<1> HIDE DEF r, w, m, n1
<1>2. ASSUME NEW k \in 1 .. m PROVE C!At(r + k - 1) = input.buf[(r + 0 + k - 1) % INPUT_BUF]
    <2>1. r + k - 1 \in Int /\ r + 0 + k - 1 = r + k - 1
        BY <1>1
    <2> QED BY <2>1, CellOf DEF C!At
<1>3. ASSUME NEW k \in 1 .. n1 PROVE C!At(w + k - 1) = input.buf[(r + m + k - 1) % INPUT_BUF]
    <2>1. w + k - 1 \in Int /\ k - 1 \in Int /\ w + k - 1 = w + (k - 1) /\ r + m + k - 1 = r + m + (k - 1)
        BY <1>1
    <2>2. (w + (k - 1)) % INPUT_BUF = (r + m + (k - 1)) % INPUT_BUF
        BY <1>1, <2>1, CellAhead DEF m
    <2> QED BY <2>1, <2>2, CellOf DEF C!At
<1>4. C!Ring(r, w) = Shown(input.buf, r, 0, m)
    BY <1>2 DEF C!Ring, Shown, m
<1>5. C!Ring(w, input.e) = Shown(input.buf, r, m, n1)
    BY <1>3 DEF C!Ring, Shown, n1
<1> QED BY <1>4, <1>5 DEF r, w, m, n1

Extended(buf, b, r, i, m, c) ==
    /\ Shown(b, r, 0, i) = Shown(buf, r, 0, i)
    /\ Shown(b, r, i, m + 1) = Append(Shown(buf, r, i, m), c)
    /\ Shown(b, r, 0, i + m + 1) = Shown(buf, r, 0, i) \o Append(Shown(buf, r, i, m), c)

Stored(buf, b, h, c) == b[h] = c /\ \A x \in 0 .. INPUT_BUF - 1 : x # h => b[x] = buf[x]

(* consoleintr stores a character in the first cell that is not shown.     *)
LEMMA TypeShown ==
    ASSUME NEW buf \in Ring, NEW r \in Int, NEW i \in Nat, NEW m \in Nat, i + m < INPUT_BUF,
           NEW c \in Typed, NEW b \in Ring, Stored(buf, b, (r + i + m) % INPUT_BUF, c)
    PROVE  Extended(buf, b, r, i, m, c)
<1>0. INPUT_BUF \in Nat
    BY ConsoleAssumption
<1>1. ASSUME NEW x \in 0 .. i + m - 1
      PROVE  b[(r + x) % INPUT_BUF] = buf[(r + x) % INPUT_BUF]
    <2>1. x \in 0 .. INPUT_BUF - 1 /\ i + m \in 0 .. INPUT_BUF - 1 /\ x # i + m /\ x \in Int /\ i + m \in Int
        BY <1>0
    <2>2. (r + x) % INPUT_BUF # (r + (i + m)) % INPUT_BUF
        BY <2>1, CellsDiffer
    <2>3. r + (i + m) = r + i + m /\ r + x \in Int
        OBVIOUS
    <2>4. (r + x) % INPUT_BUF \in 0 .. INPUT_BUF - 1
        BY <2>3, CellOf
    <2> QED BY <2>2, <2>3, <2>4 DEF Stored
<1> DEFINE q == Shown(buf, r, 0, i)
           l == Shown(buf, r, i, m)
           q1 == Shown(b, r, 0, i)
           l1 == Shown(b, r, i, m + 1)
           t == Shown(b, r, 0, i + m + 1)
<1>3. /\ q \in Seq(Typed) /\ Len(q) = i /\ \A k \in 1 .. i : q[k] = buf[(r + 0 + k - 1) % INPUT_BUF]
      /\ l \in Seq(Typed) /\ Len(l) = m /\ \A k \in 1 .. m : l[k] = buf[(r + i + k - 1) % INPUT_BUF]
    BY ShownSeq
<1>4. /\ q1 \in Seq(Typed) /\ Len(q1) = i /\ \A k \in 1 .. i : q1[k] = b[(r + 0 + k - 1) % INPUT_BUF]
      /\ l1 \in Seq(Typed) /\ Len(l1) = m + 1 /\ \A k \in 1 .. m + 1 : l1[k] = b[(r + i + k - 1) % INPUT_BUF]
      /\ t \in Seq(Typed) /\ Len(t) = i + m + 1
      /\ \A k \in 1 .. i + m + 1 : t[k] = b[(r + 0 + k - 1) % INPUT_BUF]
    <2>1. m + 1 \in Nat /\ i + m + 1 \in Nat /\ i \in Int /\ 0 \in Int
        OBVIOUS
    <2>2. q1 \in Seq(Typed) /\ Len(q1) = i /\ \A k \in 1 .. i : q1[k] = b[(r + 0 + k - 1) % INPUT_BUF]
        BY <2>1, ShownSeq
    <2>3. /\ l1 \in Seq(Typed) /\ Len(l1) = m + 1
          /\ \A k \in 1 .. m + 1 : l1[k] = b[(r + i + k - 1) % INPUT_BUF]
        BY <2>1, ShownSeq
    <2>4. /\ t \in Seq(Typed) /\ Len(t) = i + m + 1
          /\ \A k \in 1 .. i + m + 1 : t[k] = b[(r + 0 + k - 1) % INPUT_BUF]
        BY <2>1, ShownSeq
    <2> QED BY <2>2, <2>3, <2>4
<1> HIDE DEF q, l, q1, l1, t
<1>5. \A k \in 1 .. i : q1[k] = q[k] /\ t[k] = q[k]
    <2> TAKE k \in 1 .. i
    <2>1. k - 1 \in 0 .. i + m - 1 /\ r + (k - 1) = r + 0 + k - 1 /\ k \in 1 .. i + m + 1
        OBVIOUS
    <2>2. b[(r + (k - 1)) % INPUT_BUF] = buf[(r + (k - 1)) % INPUT_BUF]
        BY <1>1, <2>1
    <2> QED BY <1>3, <1>4, <2>1, <2>2
<1>6. \A k \in 1 .. m : l1[k] = l[k] /\ t[i + k] = l[k]
    <2> TAKE k \in 1 .. m
    <2>1. /\ i + k - 1 \in 0 .. i + m - 1 /\ r + (i + k - 1) = r + i + k - 1
          /\ k \in 1 .. m + 1 /\ i + k \in 1 .. i + m + 1 /\ r + 0 + (i + k) - 1 = r + i + k - 1
        OBVIOUS
    <2>2. b[(r + (i + k - 1)) % INPUT_BUF] = buf[(r + (i + k - 1)) % INPUT_BUF]
        BY <1>1, <2>1
    <2> QED BY <1>3, <1>4, <2>1, <2>2
<1>7. l1[m + 1] = c /\ t[i + m + 1] = c
    <2>1. /\ m + 1 \in 1 .. m + 1 /\ i + m + 1 \in 1 .. i + m + 1
          /\ r + i + (m + 1) - 1 = r + i + m /\ r + 0 + (i + m + 1) - 1 = r + i + m
        OBVIOUS
    <2> QED BY <1>4, <2>1 DEF Stored
<1>8. q1 = q
    BY <1>3, <1>4, <1>5, SeqEqual
<1>9. /\ Append(l, c) \in Seq(Typed) /\ Len(Append(l, c)) = m + 1
      /\ \A k \in 1 .. m + 1 : Append(l, c)[k] = IF k = m + 1 THEN c ELSE l[k]
    BY <1>3, AppendProperties
<1>10. l1 = Append(l, c)
    <2>1. \A k \in 1 .. m + 1 : l1[k] = Append(l, c)[k]
        BY <1>6, <1>7, <1>9
    <2> QED BY <1>4, <1>9, <2>1, SeqEqual
<1>11. t = q \o Append(l, c)
    <2> DEFINE a == Append(l, c)
    <2> HIDE DEF a
    <2>1. a \in Seq(Typed) /\ Len(a) = m + 1 /\ \A k \in 1 .. m + 1 : a[k] = IF k = m + 1 THEN c ELSE l[k]
        BY <1>9 DEF a
    <2>2. /\ q \o a \in Seq(Typed) /\ Len(q \o a) = i + (m + 1)
          /\ \A k \in 1 .. i + (m + 1) : (q \o a)[k] = IF k <= i THEN q[k] ELSE a[k - i]
        <3>1. /\ q \o a \in Seq(Typed) /\ Len(q \o a) = Len(q) + Len(a)
              /\ \A k \in 1 .. Len(q) + Len(a) : (q \o a)[k] = IF k <= Len(q) THEN q[k] ELSE a[k - Len(q)]
            <4>1. q \in Seq(Typed) /\ a \in Seq(Typed)
                BY <1>3, <2>1
            <4> QED BY <4>1, ConcatProperties
        <3>2. Len(q) = i /\ Len(a) = m + 1
            BY <1>3, <2>1
        <3> QED BY <3>1, <3>2, Zenon
    <2>3. ASSUME NEW k \in 1 .. i + m + 1 PROVE t[k] = (q \o a)[k]
        <3>1. (q \o a)[k] = IF k <= i THEN q[k] ELSE a[k - i]
            BY <2>2
        <3>2. CASE k <= i
            BY <1>5, <3>1, <3>2
        <3>3. CASE ~(k <= i) /\ k # i + m + 1
            <4>1. k - i \in 1 .. m /\ i + (k - i) = k /\ k - i \in 1 .. m + 1 /\ k - i # m + 1
                BY <3>3
            <4>2. t[i + (k - i)] = l[k - i]
                BY <1>6, <4>1
            <4> QED BY <2>1, <3>1, <3>3, <4>1, <4>2
        <3>4. CASE k = i + m + 1
            BY <1>7, <2>1, <3>1, <3>4
        <3> QED BY <3>2, <3>3, <3>4
    <2>4. t = q \o a
        <3>1. Len(t) = Len(q \o a)
            BY <1>4, <2>2
        <3> QED BY <1>4, <2>2, <2>3, <3>1, SeqEqual
    <2> QED BY <2>4 DEF a
<1> QED BY <1>8, <1>10, <1>11 DEF q, l, q1, l1, t, Extended

(* Erasing leaves the beginning of the line.                               *)
LEMMA EraseShown ==
    ASSUME NEW buf \in Ring, NEW r \in Int, NEW i \in Nat, NEW m \in Nat, NEW k \in 0 .. m
    PROVE  Shown(buf, r, i, k) = SubSeq(Shown(buf, r, i, m), 1, k)
<1> DEFINE l == Shown(buf, r, i, m)
           l1 == Shown(buf, r, i, k)
<1>1. /\ l \in Seq(Typed) /\ Len(l) = m /\ \A x \in 1 .. m : l[x] = buf[(r + i + x - 1) % INPUT_BUF]
      /\ l1 \in Seq(Typed) /\ Len(l1) = k /\ \A x \in 1 .. k : l1[x] = buf[(r + i + x - 1) % INPUT_BUF]
    BY ShownSeq
<1> HIDE DEF l, l1
<1>2. \A x \in 1 .. k : l[x] \in Typed
    BY <1>1
<1>3. /\ SubSeq(l, 1, k) \in Seq(Typed) /\ Len(SubSeq(l, 1, k)) = k
      /\ \A x \in 1 .. k : SubSeq(l, 1, k)[x] = l[x]
    BY <1>2, SubSeqProperties
<1>4. \A x \in 1 .. k : l1[x] = SubSeq(l, 1, k)[x]
    BY <1>1, <1>3
<1>5. l1 = SubSeq(l, 1, k)
    BY <1>1, <1>3, <1>4, SeqEqual
<1> QED BY <1>5 DEF l, l1

(* A reader takes the first character, also where r wraps.                 *)
LEMMA TakeShown ==
    ASSUME NEW buf \in Ring, NEW r \in Indices, NEW i \in Nat \ {0}, NEW m \in Nat
    PROVE  LET f == (r + 1) % UINT
               q == Shown(buf, r, 0, i) IN
           /\ q # <<>> /\ Head(q) = buf[r % INPUT_BUF] /\ Shown(buf, f, 0, i - 1) = Tail(q)
           /\ Shown(buf, f, i - 1, m) = Shown(buf, r, i, m)
<1> DEFINE f == (r + 1) % UINT
           q == Shown(buf, r, 0, i)
           q1 == Shown(buf, f, 0, i - 1)
<1>1. r \in Int /\ UINT \in Int /\ f \in Int /\ (f = r + 1 \/ f = r + 1 - UINT) /\ i - 1 \in Nat
    BY NextIndex, ConsoleAssumption DEF Indices
<1> HIDE DEF f
<1>2. ASSUME NEW x \in Int PROVE (f + x) % INPUT_BUF = (r + 1 + x) % INPUT_BUF
    <2>1. r + 1 + x \in Int /\ (f + x = r + 1 + x \/ f + x = (r + 1 + x) - UINT)
        BY <1>1
    <2> QED BY <2>1, CellShift
<1>3. /\ q \in Seq(Typed) /\ Len(q) = i /\ \A k \in 1 .. i : q[k] = buf[(r + 0 + k - 1) % INPUT_BUF]
      /\ q1 \in Seq(Typed) /\ Len(q1) = i - 1
      /\ \A k \in 1 .. i - 1 : q1[k] = buf[(f + 0 + k - 1) % INPUT_BUF]
    BY <1>1, ShownSeq
<1>4. Shown(buf, f, i - 1, m) = Shown(buf, r, i, m)
    <2>1. ASSUME NEW k \in 1 .. m
          PROVE  buf[(f + (i - 1) + k - 1) % INPUT_BUF] = buf[(r + i + k - 1) % INPUT_BUF]
        <3>1. /\ (i - 1) + k - 1 \in Int /\ f + (i - 1) + k - 1 = f + ((i - 1) + k - 1)
              /\ r + 1 + ((i - 1) + k - 1) = r + i + k - 1
            BY <1>1
        <3> QED BY <1>2, <3>1
    <2> QED BY <2>1 DEF Shown
<1> HIDE DEF q, q1
<1>5. q # <<>> /\ Head(q) = q[1]
    BY <1>3
<1>6. q[1] = buf[r % INPUT_BUF]
    <2>1. 1 \in 1 .. i /\ r + 0 + 1 - 1 = r
        BY <1>1
    <2> QED BY <1>3, <2>1
<1>7. Tail(q) \in Seq(Typed) /\ Len(Tail(q)) = i - 1 /\ \A k \in 1 .. i - 1 : Tail(q)[k] = q[k + 1]
    BY <1>3, <1>5, HeadTailProperties
<1>8. ASSUME NEW k \in 1 .. i - 1 PROVE q1[k] = Tail(q)[k]
    <2>1. /\ k - 1 \in Int /\ f + 0 + k - 1 = f + (k - 1) /\ k + 1 \in 1 .. i
          /\ r + 1 + (k - 1) = r + 0 + (k + 1) - 1
        BY <1>1
    <2>2. (f + (k - 1)) % INPUT_BUF = (r + 1 + (k - 1)) % INPUT_BUF
        BY <1>2, <2>1
    <2>3. q1[k] = buf[(f + (k - 1)) % INPUT_BUF] /\ Tail(q)[k] = q[k + 1]
        BY <1>3, <1>7, <2>1
    <2>4. q[k + 1] = buf[(r + 1 + (k - 1)) % INPUT_BUF]
        BY <1>3, <2>1
    <2> QED BY <2>2, <2>3, <2>4
<1>9. q1 = Tail(q)
    BY <1>3, <1>7, <1>8, SeqEqual
<1> QED BY <1>4, <1>5, <1>6, <1>9 DEF f, q, q1

(* What the refinement maps to a queue and a pending line, and how they    *)
(* lie in the ring.                                                        *)
Queue == C!Ring(input.r, input.w)
Pending == C!Ring(input.w, input.e)

Laid(buf, r, i, m) ==
    /\ buf \in Ring /\ r \in Indices /\ i \in Nat /\ m \in Nat
    /\ Queue = Shown(buf, r, 0, i) /\ Pending = Shown(buf, r, i, m)
    /\ Len(Queue) = i /\ Len(Pending) = m

RingLaid == Laid(input.buf, input.r, C!From(input.r, input.w), C!From(input.w, input.e))

LEMMA Queues == ConsoleTypes => RingLaid
<1> SUFFICES ASSUME ConsoleTypes PROVE RingLaid
    OBVIOUS
<1> DEFINE buf == input.buf
           r == input.r
           i == C!From(input.r, input.w)
           m == C!From(input.w, input.e)
<1>2. r \in Indices /\ i \in Indices /\ m \in Indices
    BY RingParts
<1>3. buf \in Ring
    BY DEF ConsoleTypes, Ring
<1>4. Queue = Shown(buf, r, 0, i) /\ Pending = Shown(buf, r, i, m)
    BY RingShown DEF Queue, Pending
<1> HIDE DEF buf, r, i, m
<1>5. r \in Int /\ i \in Nat /\ m \in Nat /\ i \in Int /\ 0 \in Int
    BY <1>2 DEF Indices
<1>6. Len(Shown(buf, r, 0, i)) = i
    BY <1>3, <1>5, ShownSeq
<1>7. Len(Shown(buf, r, i, m)) = m
    BY <1>3, <1>5, ShownSeq
<1>8. Laid(buf, r, i, m)
    BY <1>2, <1>3, <1>4, <1>5, <1>6, <1>7 DEF Laid
<1> QED BY <1>8 DEF RingLaid, buf, r, i, m

(* Before and after a step.                                                *)
LEMMA QueuesNext == ConsoleIInv /\ ConsoleIInv' => RingLaid /\ RingLaid'
<1>1. ConsoleIInv => RingLaid
    BY Queues DEF ConsoleIInv
<1> QED BY <1>1, PTL

(* A key is typed: Type.                                                   *)
LEMMA TypeRefines ==
    ASSUME ConsoleIInv, ConsoleIInv', NEW c \in Typed, C!consoleintr(c)
    PROVE  C!Lines!Type(c)
<1> DEFINE buf == input.buf
           r == input.r
           i == C!From(input.r, input.w)
           m == C!From(input.w, input.e)
           e == input.e
           f == (e + 1) % UINT
           b == input'.buf
           i1 == C!From(input'.r, input'.w)
           m1 == C!From(input'.w, input'.e)
<1>1. /\ buf \in Ring /\ r \in Indices /\ i \in Nat /\ m \in Nat
      /\ Queue = Shown(buf, r, 0, i) /\ Pending = Shown(buf, r, i, m)
      /\ Len(Queue) = i /\ Len(Pending) = m
    BY QueuesNext DEF RingLaid, Laid
<1>2. ConsoleTypes /\ e \in Indices /\ input.w \in Indices /\ i + m = C!From(r, e)
    BY DEF ConsoleIInv, ConsoleTypes, InOrder
<1>3. /\ C!From(r, e) < INPUT_BUF /\ got' = got
      /\ input' = [input EXCEPT !.buf[e % INPUT_BUF] = c, !.e = f, !.w = IF C!ends(c, f) THEN f ELSE @]
    BY DEF C!consoleintr, C!Keystroke
<1>4. /\ C!From(r, f) = i + m + 1 /\ C!From(input.w, f) = m + 1
      /\ f = (r + INPUT_BUF) % UINT <=> i + m + 1 = INPUT_BUF
    BY <1>1, <1>2, <1>3, OneMore
<1>5. e % INPUT_BUF = (r + i + m) % INPUT_BUF /\ e % INPUT_BUF \in 0 .. INPUT_BUF - 1
    <2>1. (e + 0) % INPUT_BUF = (r + C!From(r, e) + 0) % INPUT_BUF
        BY <1>1, <1>2, CellAhead
    <2>2. e + 0 = e /\ r + C!From(r, e) + 0 = r + i + m /\ e \in Int
        BY <1>1, <1>2 DEF Indices
    <2> QED BY <2>1, <2>2, CellOf
<1>6. b = [buf EXCEPT ![e % INPUT_BUF] = c]
    BY <1>2, <1>3 DEF ConsoleTypes
<1>7. Stored(buf, b, (r + i + m) % INPUT_BUF, c)
    BY <1>1, <1>5, <1>6 DEF Ring, Stored
<1>8. input'.r = r /\ input'.e = f /\ input'.w = IF C!ends(c, f) THEN f ELSE input.w
    BY <1>2, <1>3 DEF ConsoleTypes
<1>9. b \in Ring /\ Queue' = Shown(b, r, 0, i1) /\ Pending' = Shown(b, r, i1, m1) /\ m1 \in Nat
    BY <1>8, QueuesNext DEF RingLaid, Laid, C!From
<1>10. Extended(buf, b, r, i, m, c)
    <2>1. r \in Int /\ i + m < INPUT_BUF
        BY <1>1, <1>2, <1>3 DEF Indices
    <2> HIDE DEF b, buf, r, i, m
    <2>2. buf \in Ring /\ b \in Ring /\ i \in Nat /\ m \in Nat
        BY <1>1, <1>9
    <2> QED BY <1>7, <2>1, <2>2, TypeShown
<1>11. C!ends(c, f) <=> c \in {"\n", "^D"} \/ Len(Queue) + Len(Pending) = INPUT_BUF - 1
    BY <1>1, <1>4, ConsoleAssumption DEF C!ends
<1>12. Len(Queue) + Len(Pending) < INPUT_BUF
    BY <1>1, <1>2, <1>3
<1>13. CASE C!ends(c, f)
    <2>1. i1 = i + m + 1
        BY <1>4, <1>8, <1>13
    <2>2. m1 = 0
        <3>1. f \in Indices
            BY <1>2, NextIndex
        <3> QED BY <1>8, <1>13, <3>1, Ahead
    <2>3. Shown(b, r, i1, 0) = <<>>
        <3>1. r \in Int /\ i1 \in Int /\ 0 \in Nat
            BY <1>1, <2>1 DEF Indices
        <3> HIDE DEF b, r, i1
        <3> QED BY <1>9, <3>1, ShownSeq
    <2> QED
        BY <1>1, <1>3, <1>9, <1>10, <1>11, <1>12, <1>13, <2>1, <2>2, <2>3 DEF C!Lines!Type, Queue, Pending, Extended
<1>14. CASE ~C!ends(c, f)
    <2>1. i1 = i /\ m1 = m + 1
        BY <1>4, <1>8, <1>14
    <2> QED BY <1>1, <1>3, <1>9, <1>10, <1>11, <1>12, <1>14, <2>1 DEF C!Lines!Type, Queue, Pending, Extended
<1> QED BY <1>13, <1>14

(* backspace and C('U'): Erase.                                            *)
LEMMA EraseRefines ==
    ASSUME ConsoleIInv, ConsoleIInv', C!backspace \/ C!kill_line
    PROVE  \E k \in 0 .. Len(Pending) : C!Lines!Erase(k)
<1> DEFINE buf == input.buf
           r == input.r
           w == input.w
           e == input.e
           i == C!From(r, w)
           m == C!From(w, e)
<1>1. /\ buf \in Ring /\ r \in Indices /\ i \in Nat /\ m \in Nat
      /\ Queue = Shown(buf, r, 0, i) /\ Pending = Shown(buf, r, i, m)
      /\ Len(Queue) = i /\ Len(Pending) = m
    BY QueuesNext DEF RingLaid, Laid
<1>2. ConsoleTypes /\ w \in Indices /\ e \in Indices /\ C!From(r, w) + C!From(w, e) = C!From(r, e)
    BY DEF ConsoleIInv, ConsoleTypes, InOrder
<1>3. PICK f \in Indices : input' = [input EXCEPT !.e = f] /\ C!From(f, e) <= C!From(w, e)
    BY <1>2, GoesBack
<1>4. input'.buf = buf /\ input'.r = r /\ input'.w = w /\ input'.e = f
    BY <1>2, <1>3 DEF ConsoleTypes
<1> DEFINE k == C!From(w, f)
<1>5. k = m - C!From(f, e) /\ C!From(f, e) \in Nat
    <2>1. C!From(f, e) \in Indices
        BY <1>2, <1>3, Ahead
    <2> QED BY <1>1, <1>2, <1>3, <2>1, Fewer DEF Indices
<1>6. Queue' = Shown(buf, r, 0, i) /\ Pending' = Shown(buf, r, i, k) /\ k \in Nat
    BY <1>4, QueuesNext DEF RingLaid, Laid, C!From
<1>7. got' = got
    BY DEF C!backspace, C!kill_line, C!Keystroke
<1>8. k \in 0 .. m /\ r \in Int
    BY <1>1, <1>5, <1>6 DEF Indices
<1> HIDE DEF buf, r, w, e, i, m, k
<1>9. Shown(buf, r, i, k) = SubSeq(Shown(buf, r, i, m), 1, k)
    BY <1>1, <1>8, EraseShown
<1>10. Pending' = SubSeq(Pending, 1, k) /\ Queue' = Queue /\ k \in 0 .. Len(Pending)
    BY <1>1, <1>6, <1>8, <1>9
<1>11. C!Lines!Erase(k)
    BY <1>7, <1>10 DEF C!Lines!Erase, Queue, Pending
<1> QED BY <1>10, <1>11

(* A reader takes the character at r.                                      *)
LEMMA TakeRefines ==
    ASSUME ConsoleIInv, ConsoleIInv', input.r # input.w, input' = [input EXCEPT !.r = (@ + 1) % UINT]
    PROVE  /\ Queue # <<>> /\ Head(Queue) = C!At(input.r)
           /\ Queue' = Tail(Queue) /\ Pending' = Pending
<1> DEFINE buf == input.buf
           r == input.r
           w == input.w
           e == input.e
           i == C!From(r, w)
           m == C!From(w, e)
           f == (r + 1) % UINT
<1>1. /\ buf \in Ring /\ r \in Indices /\ i \in Nat /\ m \in Nat
      /\ Queue = Shown(buf, r, 0, i) /\ Pending = Shown(buf, r, i, m)
    BY QueuesNext DEF RingLaid, Laid
<1>2. ConsoleTypes /\ w \in Indices /\ e \in Indices /\ C!From(r, w) + C!From(w, e) = C!From(r, e)
    BY DEF ConsoleIInv, ConsoleTypes, InOrder
<1>3. input'.buf = buf /\ input'.r = f /\ input'.w = w /\ input'.e = e
    BY <1>2 DEF ConsoleTypes
<1>4. C!From(f, w) = i - 1
    BY <1>1, <1>2, OneRead
<1>5. Queue' = Shown(buf, f, 0, i - 1) /\ Pending' = Shown(buf, f, i - 1, m)
    <2>1. Queue' = Shown(buf, f, 0, C!From(f, w)) /\ Pending' = Shown(buf, f, C!From(f, w), m)
        BY <1>3, QueuesNext DEF RingLaid, Laid, C!From
    <2> QED BY <1>4, <2>1
<1>6. i # 0
    BY <1>1, <1>2, Ahead
<1>7. C!At(r) = buf[r % INPUT_BUF]
    <2>1. r \in Int
        BY <1>1 DEF Indices
    <2> QED BY <2>1, CellOf DEF C!At
<1> HIDE DEF buf, r, w, e, i, m
<1>8. /\ Shown(buf, r, 0, i) # <<>> /\ Head(Shown(buf, r, 0, i)) = buf[r % INPUT_BUF]
      /\ Shown(buf, f, 0, i - 1) = Tail(Shown(buf, r, 0, i))
      /\ Shown(buf, f, i - 1, m) = Shown(buf, r, i, m)
    <2>1. i \in Nat \ {0}
        BY <1>1, <1>6
    <2> QED BY <1>1, <2>1, TakeShown
<1> QED BY <1>1, <1>5, <1>7, <1>8 DEF r

(* The ring stays.                                                         *)
LEMMA RingStays ==
    ASSUME input' = input
    PROVE  Queue' = Queue /\ Pending' = Pending
BY DEF Queue, Pending, C!Ring, C!From, C!At

(* Every key and every step of a reader is a step of the queue of lines,   *)
(* or none.                                                                *)
LEMMA ConsoleRefines ==
    ConsoleIInv /\ ConsoleIInv' /\ [C!Next]_C!cvars
        => [C!Lines!Next]_<<C!Ring(input.r, input.w), C!Ring(input.w, input.e), got>>
<1> DEFINE Abs == C!Lines!Next \/ (Queue' = Queue /\ Pending' = Pending /\ got' = got)
<1> SUFFICES ASSUME ConsoleIInv, ConsoleIInv', [C!Next]_C!cvars PROVE Abs
    BY DEF Queue, Pending
<1>1. ASSUME NEW c \in Typed, C!consoleintr(c) PROVE Abs
    BY <1>1, TypeRefines DEF C!Lines!Next, Typed
<1>2. CASE C!backspace \/ C!kill_line
    BY <1>2, EraseRefines DEF C!Lines!Next, Pending
<1>3. ASSUME NEW p \in Procs, NEW k \in ReadSizes, C!sys_read(p, k) PROVE Abs
    <2>1. C!Lines!Start(p)
        BY <1>3, RingStays DEF C!sys_read, C!Lines!Start, Queue, Pending
    <2> QED BY <2>1 DEF C!Lines!Next
<1>4. ASSUME NEW p \in Procs, C!consoleread_char(p) PROVE Abs
    <2>1. /\ Queue # <<>> /\ Head(Queue) = C!At(input.r) /\ Queue' = Tail(Queue) /\ Pending' = Pending
        BY <1>4, TakeRefines DEF C!consoleread_char
    <2>2. C!At(input.r) # "^D" /\ got' = [got EXCEPT ![p] = Append(@, C!At(input.r))]
        BY <1>4 DEF C!consoleread_char
    <2>3. C!Lines!Take(p)
        BY <2>1, <2>2 DEF C!Lines!Take, Queue, Pending
    <2> QED BY <2>3 DEF C!Lines!Next
<1>5. ASSUME NEW p \in Procs, C!consoleread_eof(p) PROVE Abs
    <2>1. CASE got[p] = <<>>
        <3>1. /\ Queue # <<>> /\ Head(Queue) = C!At(input.r) /\ Queue' = Tail(Queue) /\ Pending' = Pending
            BY <1>5, <2>1, TakeRefines DEF C!consoleread_eof
        <3>2. C!At(input.r) = "^D" /\ got' = got
            BY <1>5 DEF C!consoleread_eof
        <3>3. C!Lines!Take(p)
            BY <2>1, <3>1, <3>2 DEF C!Lines!Take, Queue, Pending
        <3> QED BY <3>3 DEF C!Lines!Next
    <2>2. CASE got[p] # <<>>
        BY <1>5, <2>2, RingStays DEF C!consoleread_eof
    <2> QED BY <2>1, <2>2
<1>6. ASSUME NEW p \in Procs, C!acquire(p) \/ C!consoleread_empty(p) \/ C!sleep(p) \/ C!kill(p) PROVE Abs
    BY <1>6, RingStays DEF C!acquire, C!consoleread_empty, C!sleep, C!kill
<1>7. CASE UNCHANGED C!cvars
    BY <1>7, RingStays DEF C!cvars
<1> QED BY <1>1, <1>2, <1>3, <1>4, <1>5, <1>6, <1>7 DEF C!Next, Typed

(* consoleintr and consoleread implement the queue of lines: for any size  *)
(* of the ring and across every wrap of the indices, what a reader may     *)
(* take is never erased, lost or read twice.                               *)
THEOREM ConsoleIsLineQueue == C!Spec => ConsoleImplementsLineQueue
<1>1. C!Init => C!Lines!Init
    <2> SUFFICES ASSUME C!Init PROVE C!Lines!Init
        OBVIOUS
    <2>1. RingLaid /\ input.r = 0 /\ input.w = 0 /\ input.e = 0 /\ got = [p \in Procs |-> <<>>]
        BY ConsoleInit, Queues DEF C!Init, ConsoleIInv
    <2>2. C!From(0, 0) = 0
        BY Ahead, ConsoleAssumption DEF Indices
    <2>3. Len(Queue) = 0 /\ Len(Pending) = 0 /\ Queue \in Seq(Typed) /\ Pending \in Seq(Typed)
        BY <2>1, <2>2, ShownSeq DEF RingLaid, Laid, Indices
    <2>4. Queue = <<>> /\ Pending = <<>>
        BY <2>3, EmptySeq
    <2> QED BY <2>1, <2>4 DEF C!Lines!Init, Queue, Pending
<1> QED BY <1>1, ConsoleRefines, ConsoleInductive, PTL
        DEF C!Spec, ConsoleImplementsLineQueue, C!ImplementsLineQueue, C!Lines!Spec

----------------------------------------------------------------------------
(* Spin locks.  SpinlockExclusive speaks of the locks that somebody has    *)
(* recorded as taken.  Between the xchg and that record, and between       *)
(* giving the record up and clearing the lock, a processor has the lock    *)
(* all the same (Has); mutual exclusion is kept by who has a lock (Mutex). *)
(* The interrupt flag follows from counting the pushclis (Nesting).        *)
Steps == {"none", "run", "spin", "own", "unlock", "popcli"}

(* Every variable has its type.                                            *)
SpinTypeOK ==
    /\ locked \in [Locks -> BOOLEAN] /\ owner \in [Locks -> CPUs \cup {NONE}]
    /\ IF_ \in [CPUs -> BOOLEAN] /\ ncli \in [CPUs -> Nat] /\ intena \in [CPUs -> BOOLEAN]
    /\ held \in [CPUs -> [Levels -> SUBSET Locks]]
    /\ spc \in [CPUs -> [Levels -> Steps]]
    /\ want \in [CPUs -> [Levels -> Locks \cup {NONE}]]
    /\ oops \in BOOLEAN

(* Level l of processor c has lock k, recorded or not.                     *)
Has(c, l, k) == k \in held[c][l] \/ (spc[c][l] \in {"own", "unlock"} /\ want[c][l] = k)

(* The pushclis of level l of processor c that wait for their popcli.      *)
Depth(c, l) == Cardinality(held[c][l]) + (IF spc[c][l] \in {"none", "run"} THEN 0 ELSE 1)

(* A handler runs only on top of a thread that has no lock, and finds      *)
(* interrupts off; ncli counts, and intena is what the outermost pushcli   *)
(* found.                                                                  *)
Nesting(c) ==
    /\ spc[c]["thread"] # "none"
    /\ spc[c]["handler"] = "none" => held[c]["handler"] = {}
    /\ spc[c]["handler"] # "none" => held[c]["thread"] = {} /\ spc[c]["thread"] = "run"
    /\ \A l \in Levels :
          /\ spc[c][l] \in {"spin", "own", "unlock"} => want[c][l] \in Locks
          /\ spc[c][l] \in {"own", "unlock"} => want[c][l] \notin held[c][l]
    /\ ncli[c] = Depth(c, Level(c))
    /\ Level(c) = "thread" => (IF_[c] <=> ncli[c] = 0) /\ (ncli[c] # 0 => intena[c])
    /\ Level(c) = "handler" => ~IF_[c] /\ (ncli[c] # 0 => ~intena[c])

(* A lock that somebody has is locked, one has it, and it says who.        *)
Mutex ==
    /\ \A c \in CPUs, l \in Levels, k \in Locks : Has(c, l, k) => locked[k]
    /\ \A c, d \in CPUs : \A l, m \in Levels : \A k \in Locks :
          Has(c, l, k) /\ Has(d, m, k) => c = d /\ l = m
    /\ \A c \in CPUs, l \in Levels : \A k \in held[c][l] : owner[k] = c
    /\ \A k \in Locks : owner[k] # NONE => \E l \in Levels : k \in held[owner[k]][l]

SpinIInv == SpinTypeOK /\ ~oops /\ (\A c \in CPUs : Nesting(c)) /\ Mutex

----------------------------------------------------------------------------
(* One field of one level changes, the others stay.                        *)
LEMMA OneLevel ==
    ASSUME NEW S, NEW f \in [CPUs -> [Levels -> S]], NEW c \in CPUs, NEW l \in Levels, NEW v \in S
    PROVE  LET g == [f EXCEPT ![c][l] = v] IN
           /\ g \in [CPUs -> [Levels -> S]] /\ g[c][l] = v
           /\ \A m \in Levels : m # l => g[c][m] = f[c][m]
           /\ \A d \in CPUs : d # c => g[d] = f[d]
OBVIOUS

(* Sets of locks are finite.                                               *)
LEMMA LocksFinite ==
    ASSUME NEW S \in SUBSET Locks
    PROVE  IsFiniteSet(S) /\ Cardinality(S) \in Nat
<1>1. NLOCKS \in Int /\ 1 \in Int
    BY SpinAssumption
<1>2. IsFiniteSet(Locks)
    BY <1>1, FS_Interval DEF Locks
<1> QED BY <1>2, FS_Subset, FS_CardinalityType

(* The level that runs is not idle, and the other one has nothing.         *)
LEMMA Running ==
    ASSUME SpinTypeOK, NEW c \in CPUs, Nesting(c)
    PROVE  /\ Level(c) \in Levels /\ spc[c][Level(c)] # "none" /\ spc[c] \in [Levels -> Steps]
           /\ \A m \in Levels : m # Level(c) => held[c][m] = {} /\ spc[c][m] \in {"none", "run"}
           /\ Level(c) = "thread" <=> spc[c]["handler"] = "none"
           /\ \A m \in Levels : m = "thread" \/ m = "handler"
           /\ "thread" \in Levels /\ "handler" \in Levels
<1>1. \A m \in Levels : m = "thread" \/ m = "handler"
    BY DEF Levels
<1>2. spc[c] \in [Levels -> Steps] /\ "thread" \in Levels /\ "handler" \in Levels
    BY DEF SpinTypeOK, Levels
<1>3. CASE spc[c]["handler"] = "none"
    BY <1>1, <1>2, <1>3 DEF Level, Nesting
<1>4. CASE spc[c]["handler"] # "none"
    BY <1>1, <1>2, <1>4 DEF Level, Nesting
<1> QED BY <1>3, <1>4

(* The initial state satisfies the invariant.                              *)
LEMMA InitSpinIInv == SpinInit => SpinIInv
<1> SUFFICES ASSUME SpinInit PROVE SpinIInv
    OBVIOUS
<1>1. "thread" \in Levels /\ "handler" \in Levels /\ \A m \in Levels : m = "thread" \/ m = "handler"
    BY DEF Levels
<1>2. /\ locked \in [Locks -> BOOLEAN] /\ IF_ \in [CPUs -> BOOLEAN] /\ intena \in [CPUs -> BOOLEAN]
      /\ oops \in BOOLEAN
    BY Zenon DEF SpinInit
<1>3. /\ owner \in [Locks -> CPUs \cup {NONE}] /\ ncli \in [CPUs -> Nat]
      /\ held \in [CPUs -> [Levels -> SUBSET Locks]] /\ want \in [CPUs -> [Levels -> Locks \cup {NONE}]]
    BY DEF SpinInit, PerLevel
<1>4. spc \in [CPUs -> [Levels -> Steps]]
    BY DEF SpinInit, Steps
<1>5. SpinTypeOK
    BY <1>2, <1>3, <1>4 DEF SpinTypeOK
<1>6. ASSUME NEW c \in CPUs
      PROVE  /\ spc[c]["thread"] = "run" /\ spc[c]["handler"] = "none" /\ ncli[c] = 0 /\ IF_[c]
             /\ \A l \in Levels : held[c][l] = {} /\ spc[c][l] \in {"none", "run"}
    BY <1>1 DEF SpinInit, PerLevel
<1>7. ASSUME NEW c \in CPUs PROVE Nesting(c)
    <2>1. Level(c) = "thread"
        BY <1>6 DEF Level
    <2>2. Depth(c, "thread") = 0
        <3>1. Cardinality({}) = 0
            BY FS_EmptySet
        <3>2. held[c]["thread"] = {} /\ spc[c]["thread"] = "run"
            BY <1>1, <1>6
        <3> QED BY <3>1, <3>2 DEF Depth
    <2> QED BY <2>1, <2>2, <1>1, <1>6 DEF Nesting
<1>8. Mutex
    BY <1>6 DEF Mutex, Has, SpinInit
<1>9. ~oops
    BY DEF SpinInit
<1> QED BY <1>5, <1>7, <1>8, <1>9 DEF SpinIInv

(* A processor of which nothing changes stays well nested.                 *)
LEMMA Elsewhere ==
    ASSUME NEW d \in CPUs, Nesting(d), held'[d] = held[d], spc'[d] = spc[d], want'[d] = want[d],
           IF_'[d] = IF_[d], ncli'[d] = ncli[d], intena'[d] = intena[d]
    PROVE  Nesting(d)'
BY DEF Nesting, Level, Depth

(* A step within a level: what has to be seen to for the nesting.          *)
LEMMA WithinLevel ==
    ASSUME SpinTypeOK, NEW c \in CPUs, Nesting(c), NEW l \in Levels, l = Level(c),
           NEW at \in Steps, at # "none", Goto(c, at),
           \A m \in Levels : m # l => held'[c][m] = held[c][m] /\ want'[c][m] = want[c][m],
           at \in {"spin", "own", "unlock"} => want'[c][l] \in Locks,
           at \in {"own", "unlock"} => want'[c][l] \notin held'[c][l],
           ncli'[c] = Cardinality(held'[c][l]) + (IF at = "run" THEN 0 ELSE 1),
           l = "thread" => (IF_'[c] <=> ncli'[c] = 0) /\ (ncli'[c] # 0 => intena'[c]),
           l = "handler" => ~IF_'[c] /\ (ncli'[c] # 0 => ~intena'[c])
    PROVE  /\ spc' \in [CPUs -> [Levels -> Steps]] /\ spc'[c][l] = at
           /\ \A m \in Levels : m # l => spc'[c][m] = spc[c][m]
           /\ \A d \in CPUs : d # c => spc'[d] = spc[d]
           /\ Nesting(c)'
<1>1. /\ spc' \in [CPUs -> [Levels -> Steps]] /\ spc'[c][l] = at
      /\ \A m \in Levels : m # l => spc'[c][m] = spc[c][m]
      /\ \A d \in CPUs : d # c => spc'[d] = spc[d]
    <2>1. spc \in [CPUs -> [Levels -> Steps]] /\ spc' = [spc EXCEPT ![c][l] = at]
        BY DEF SpinTypeOK, Goto
    <2> QED BY <2>1, OneLevel
<1>2. /\ spc[c][l] # "none"
      /\ \A m \in Levels : m # l => held[c][m] = {} /\ spc[c][m] \in {"none", "run"}
      /\ l = "thread" <=> spc[c]["handler"] = "none"
      /\ \A m \in Levels : m = "thread" \/ m = "handler"
      /\ "thread" \in Levels /\ "handler" \in Levels
    BY Running
<1>3. CASE l = "thread"
    <2>1. spc'[c]["handler"] = "none" /\ held'[c]["handler"] = {} /\ spc'[c]["thread"] = at
        BY <1>1, <1>2, <1>3
    <2>2. Level(c)' = "thread"
        BY <2>1 DEF Level
    <2>3. Depth(c, "thread")' = ncli'[c]
        BY <2>1, <1>3 DEF Depth
    <2>4. ASSUME NEW m \in Levels
          PROVE  /\ spc'[c][m] \in {"spin", "own", "unlock"} => want'[c][m] \in Locks
                 /\ spc'[c][m] \in {"own", "unlock"} => want'[c][m] \notin held'[c][m]
        BY <2>1, <1>2, <1>3
    <2>5. ncli'[c] = Depth(c, Level(c))'
        BY <2>2, <2>3
    <2>6. /\ Level(c)' = "thread" => (IF_'[c] <=> ncli'[c] = 0) /\ (ncli'[c] # 0 => intena'[c])
          /\ Level(c)' = "handler" => ~IF_'[c] /\ (ncli'[c] # 0 => ~intena'[c])
        BY <2>2, <1>3
    <2> QED BY <1>1, <2>1, <2>4, <2>5, <2>6 DEF Nesting
<1>4. CASE l = "handler"
    <2>1. /\ spc'[c]["handler"] = at /\ held'[c]["thread"] = {} /\ spc'[c]["thread"] = "run"
        BY <1>1, <1>2, <1>4 DEF Nesting
    <2>2. Level(c)' = "handler"
        BY <2>1 DEF Level
    <2>3. Depth(c, "handler")' = ncli'[c]
        BY <2>1, <1>4 DEF Depth
    <2>4. ASSUME NEW m \in Levels
          PROVE  /\ spc'[c][m] \in {"spin", "own", "unlock"} => want'[c][m] \in Locks
                 /\ spc'[c][m] \in {"own", "unlock"} => want'[c][m] \notin held'[c][m]
        BY <2>1, <1>2, <1>4
    <2>5. ncli'[c] = Depth(c, Level(c))'
        BY <2>2, <2>3
    <2>6. /\ Level(c)' = "thread" => (IF_'[c] <=> ncli'[c] = 0) /\ (ncli'[c] # 0 => intena'[c])
          /\ Level(c)' = "handler" => ~IF_'[c] /\ (ncli'[c] # 0 => ~intena'[c])
        BY <2>2, <1>4
    <2> QED BY <1>1, <2>1, <2>4, <2>5, <2>6 DEF Nesting
<1> QED BY <1>1, <1>2, <1>3, <1>4

(* A step that changes no lock and nobody's locks keeps mutual exclusion.  *)
LEMMA SameHas ==
    ASSUME Mutex, held' = held, locked' = locked, owner' = owner,
           \A c \in CPUs, l \in Levels : spc'[c][l] \in {"own", "unlock"} =>
              spc[c][l] \in {"own", "unlock"} /\ want'[c][l] = want[c][l]
    PROVE  Mutex'
<1>1. \A c \in CPUs, l \in Levels : \A k : Has(c, l, k)' => Has(c, l, k)
    BY DEF Has
<1> QED BY <1>1 DEF Mutex

----------------------------------------------------------------------------
(* The first part of acquire keeps the invariant; holding is false, so it  *)
(* does not panic.                                                         *)
LEMMA AcquireKeeps ==
    ASSUME SpinIInv, NEW c \in CPUs, NEW k \in Locks, acquire(c, k)
    PROVE  SpinIInv'
<1> USE DEF SpinIInv
<1>1. PICK l \in Levels : l = Level(c)
    BY Running
<1>2. /\ spc[c][l] = "run" /\ (\A j \in held[c][l] : j < k)
      /\ locked' = locked /\ owner' = owner /\ held' = held
      /\ want' = [want EXCEPT ![c][l] = k] /\ Goto(c, "spin") /\ oops' = holding(c, k)
    BY <1>1 DEF acquire, At
<1>3. /\ want' \in [CPUs -> [Levels -> Locks \cup {NONE}]] /\ want'[c][l] = k
      /\ \A m \in Levels : m # l => want'[c][m] = want[c][m]
      /\ \A d \in CPUs : d # c => want'[d] = want[d]
    <2>1. want \in [CPUs -> [Levels -> Locks \cup {NONE}]] /\ k \in Locks \cup {NONE}
        BY DEF SpinTypeOK
    <2> QED BY <1>2, <2>1, OneLevel
<1>4. /\ ncli' \in [CPUs -> Nat] /\ ncli'[c] = ncli[c] + 1
      /\ \A d \in CPUs : d # c => ncli'[d] = ncli[d]
    <2>1. ncli \in [CPUs -> Nat] /\ ncli' = [ncli EXCEPT ![c] = @ + 1]
        BY DEF acquire, pushcli, SpinTypeOK
    <2> QED BY <2>1
<1>5. IF_' \in [CPUs -> BOOLEAN] /\ intena' \in [CPUs -> BOOLEAN]
    <2>1. IF_ \in [CPUs -> BOOLEAN] /\ intena \in [CPUs -> BOOLEAN]
        BY DEF SpinTypeOK
    <2>2. IF_' = [IF_ EXCEPT ![c] = FALSE] /\ intena' = [intena EXCEPT ![c] = IF ncli[c] = 0 THEN IF_[c] ELSE @]
        BY DEF acquire, pushcli
    <2>3. IF_[c] \in BOOLEAN /\ intena[c] \in BOOLEAN
        BY <2>1
    <2>4. (IF ncli[c] = 0 THEN IF_[c] ELSE intena[c]) \in BOOLEAN
        BY <2>3
    <2> QED BY <2>1, <2>2, <2>4, Zenon
<1>6. /\ ~IF_'[c] /\ (ncli[c] = 0 => (intena'[c] <=> IF_[c])) /\ (ncli[c] # 0 => (intena'[c] <=> intena[c]))
      /\ \A d \in CPUs : d # c => IF_'[d] = IF_[d] /\ intena'[d] = intena[d]
    <2>1. IF_ \in [CPUs -> BOOLEAN] /\ intena \in [CPUs -> BOOLEAN]
        BY DEF SpinTypeOK
    <2>2. IF_' = [IF_ EXCEPT ![c] = FALSE] /\ intena' = [intena EXCEPT ![c] = IF ncli[c] = 0 THEN IF_[c] ELSE @]
        BY DEF acquire, pushcli
    <2> QED BY <2>1, <2>2
<1>7. /\ ncli[c] = Cardinality(held[c][l]) /\ ncli[c] \in Nat
      /\ l = "thread" => (IF_[c] <=> ncli[c] = 0) /\ (ncli[c] # 0 => intena[c])
      /\ l = "handler" => ~IF_[c] /\ (ncli[c] # 0 => ~intena[c])
    <2>1. ncli[c] = Depth(c, l) /\ ncli[c] \in Nat
        BY <1>1 DEF Nesting, SpinTypeOK
    <2>2. Cardinality(held[c][l]) \in Nat
        BY LocksFinite DEF SpinTypeOK
    <2>3. ncli[c] = Cardinality(held[c][l])
        BY <2>1, <2>2, <1>2 DEF Depth
    <2> QED BY <2>1, <2>3, <1>1 DEF Nesting
<1>8. /\ spc' \in [CPUs -> [Levels -> Steps]] /\ spc'[c][l] = "spin"
      /\ (\A m \in Levels : m # l => spc'[c][m] = spc[c][m])
      /\ (\A d \in CPUs : d # c => spc'[d] = spc[d])
      /\ Nesting(c)'
    <2>1. "spin" \in Steps /\ "spin" # "none"
        BY DEF Steps
    <2>2. ncli'[c] = Cardinality(held'[c][l]) + 1 /\ ncli'[c] # 0
        BY <1>2, <1>4, <1>7
    <2>3. /\ l = "thread" => (IF_'[c] <=> ncli'[c] = 0) /\ (ncli'[c] # 0 => intena'[c])
          /\ l = "handler" => ~IF_'[c] /\ (ncli'[c] # 0 => ~intena'[c])
        BY <2>2, <1>6, <1>7
    <2> QED BY <2>1, <2>2, <2>3, <1>1, <1>2, <1>3, WithinLevel
<1>9. \A d \in CPUs : Nesting(d)'
    BY <1>2, <1>3, <1>4, <1>6, <1>8, Elsewhere
<1>10. Mutex'
    <2>1. ASSUME NEW d \in CPUs, NEW m \in Levels, spc'[d][m] \in {"own", "unlock"}
          PROVE  spc[d][m] \in {"own", "unlock"} /\ want'[d][m] = want[d][m]
        BY <2>1, <1>3, <1>8
    <2> QED BY <2>1, <1>2, SameHas
<1>11. ~holding(c, k)
    <2> SUFFICES ASSUME owner[k] = c PROVE FALSE
        BY DEF holding
    <2>1. PICK m \in Levels : k \in held[c][m]
        BY SpinAssumption DEF Mutex
    <2>2. m = l
        BY <1>1, <2>1, Running
    <2> QED BY <1>2, <2>1, <2>2 DEF Locks
<1>12. SpinTypeOK'
    <2>1. oops' = FALSE
        BY <1>2, <1>11
    <2>2. oops' \in BOOLEAN
        BY <2>1
    <2> QED BY <2>2, <1>2, <1>3, <1>4, <1>5, <1>8 DEF SpinTypeOK
<1> QED BY <1>2, <1>9, <1>10, <1>11, <1>12

(* The xchg that finds the lock free keeps the invariant.                  *)
LEMMA XchgKeeps ==
    ASSUME SpinIInv, NEW c \in CPUs, xchg(c)
    PROVE  SpinIInv'
<1> USE DEF SpinIInv
<1>1. PICK l \in Levels : l = Level(c)
    BY Running
<1>2. /\ spc[c][l] = "spin" /\ ~locked[want[c][l]]
      /\ owner' = owner /\ held' = held /\ want' = want /\ IF_' = IF_ /\ ncli' = ncli /\ intena' = intena
      /\ oops' = oops /\ Goto(c, "own") /\ locked' = [locked EXCEPT ![want[c][l]] = TRUE]
    BY <1>1 DEF xchg, At, Want
<1>3. PICK k \in Locks : k = want[c][l]
    BY <1>1, <1>2 DEF Nesting
<1>4. locked' \in [Locks -> BOOLEAN]
    BY <1>2, Zenon DEF SpinTypeOK
<1>5. locked'[k] /\ \A j \in Locks : j # k => locked'[j] = locked[j]
    <2>1. locked \in [Locks -> BOOLEAN]
        BY DEF SpinTypeOK
    <2> QED BY <2>1, <1>2, <1>3
<1>6. \A d \in CPUs, m \in Levels : ~Has(d, m, k)
    BY <1>2, <1>3 DEF Mutex
<1>7. /\ spc' \in [CPUs -> [Levels -> Steps]] /\ spc'[c][l] = "own"
      /\ (\A m \in Levels : m # l => spc'[c][m] = spc[c][m])
      /\ (\A d \in CPUs : d # c => spc'[d] = spc[d])
      /\ Nesting(c)'
    <2>1. "own" \in Steps /\ "own" # "none"
        BY DEF Steps
    <2>2. ncli'[c] = Cardinality(held'[c][l]) + 1
        BY <1>1, <1>2 DEF Nesting, Depth
    <2>3. want'[c][l] \in Locks /\ want'[c][l] \notin held'[c][l]
        BY <1>2, <1>3, <1>6 DEF Has
    <2>4. /\ l = "thread" => (IF_'[c] <=> ncli'[c] = 0) /\ (ncli'[c] # 0 => intena'[c])
          /\ l = "handler" => ~IF_'[c] /\ (ncli'[c] # 0 => ~intena'[c])
        BY <1>1, <1>2 DEF Nesting
    <2> QED BY <2>1, <2>2, <2>3, <2>4, <1>1, <1>2, WithinLevel
<1>8. \A d \in CPUs : Nesting(d)'
    BY <1>2, <1>7, Elsewhere
<1>9. Mutex'
    <2>1. ASSUME NEW d \in CPUs, NEW m \in Levels, NEW j \in Locks, Has(d, m, j)'
          PROVE  Has(d, m, j) \/ (d = c /\ m = l /\ j = k)
        BY <2>1, <1>2, <1>3, <1>7 DEF Has
    <2>2. ASSUME NEW d \in CPUs, NEW m \in Levels, NEW j \in Locks, Has(d, m, j)'
          PROVE  locked'[j]
        BY <2>1, <2>2, <1>5 DEF Mutex
    <2>3. ASSUME NEW d \in CPUs, NEW e \in CPUs, NEW m \in Levels, NEW o \in Levels, NEW j \in Locks,
                 Has(d, m, j)', Has(e, o, j)'
          PROVE  d = e /\ m = o
        <3>1. CASE j = k
            BY <2>1, <2>3, <3>1, <1>6
        <3>2. CASE j # k
            BY <2>1, <2>3, <3>2 DEF Mutex
        <3> QED BY <3>1, <3>2
    <2> QED BY <2>2, <2>3, <1>2 DEF Mutex
<1>10. SpinTypeOK'
    BY <1>2, <1>4, <1>7 DEF SpinTypeOK
<1> QED BY <1>2, <1>8, <1>9, <1>10

(* Recording the owner at the end of acquire keeps the invariant.          *)
LEMMA OwnKeeps ==
    ASSUME SpinIInv, NEW c \in CPUs, acquire_own(c)
    PROVE  SpinIInv'
<1> USE DEF SpinIInv
<1>1. PICK l \in Levels : l = Level(c)
    BY Running
<1>2. /\ spc[c][l] = "own"
      /\ locked' = locked /\ IF_' = IF_ /\ ncli' = ncli /\ intena' = intena /\ oops' = oops
      /\ Goto(c, "run") /\ owner' = [owner EXCEPT ![want[c][l]] = c]
      /\ held' = [held EXCEPT ![c][l] = held[c][l] \cup {want[c][l]}]
      /\ want' = [want EXCEPT ![c][l] = NONE]
    BY <1>1 DEF acquire_own, At, Want
<1>3. PICK k \in Locks : k = want[c][l] /\ k \notin held[c][l]
    BY <1>1, <1>2 DEF Nesting
<1>4. Has(c, l, k)
    BY <1>2, <1>3 DEF Has
<1>5. /\ owner' \in [Locks -> CPUs \cup {NONE}] /\ owner'[k] = c
      /\ \A j \in Locks : j # k => owner'[j] = owner[j]
    <2>1. owner \in [Locks -> CPUs \cup {NONE}]
        BY DEF SpinTypeOK
    <2> QED BY <2>1, <1>2, <1>3
<1>6. /\ held' \in [CPUs -> [Levels -> SUBSET Locks]] /\ held'[c][l] = held[c][l] \cup {k}
      /\ \A m \in Levels : m # l => held'[c][m] = held[c][m]
      /\ \A d \in CPUs : d # c => held'[d] = held[d]
    <2>1. held \in [CPUs -> [Levels -> SUBSET Locks]] /\ held[c][l] \cup {k} \in SUBSET Locks
        BY DEF SpinTypeOK
    <2> QED BY <2>1, <1>2, <1>3, OneLevel
<1>7. /\ want' \in [CPUs -> [Levels -> Locks \cup {NONE}]]
      /\ \A m \in Levels : m # l => want'[c][m] = want[c][m]
      /\ \A d \in CPUs : d # c => want'[d] = want[d]
    <2>1. want \in [CPUs -> [Levels -> Locks \cup {NONE}]] /\ NONE \in Locks \cup {NONE}
        BY DEF SpinTypeOK
    <2> QED BY <2>1, <1>2, OneLevel
<1>8. Cardinality(held'[c][l]) = Cardinality(held[c][l]) + 1 /\ Cardinality(held[c][l]) \in Nat
    <2>1. IsFiniteSet(held[c][l]) /\ Cardinality(held[c][l]) \in Nat
        BY LocksFinite DEF SpinTypeOK
    <2>2. Cardinality(held[c][l] \cup {k}) = Cardinality(held[c][l]) + 1
        BY <2>1, <1>3, FS_AddElement
    <2> QED BY <2>1, <2>2, <1>6
<1>9. /\ spc' \in [CPUs -> [Levels -> Steps]] /\ spc'[c][l] = "run"
      /\ (\A m \in Levels : m # l => spc'[c][m] = spc[c][m])
      /\ (\A d \in CPUs : d # c => spc'[d] = spc[d])
      /\ Nesting(c)'
    <2>1. "run" \in Steps /\ "run" # "none"
        BY DEF Steps
    <2>2. ncli'[c] = Cardinality(held'[c][l])
        BY <1>1, <1>2, <1>8 DEF Nesting, Depth
    <2>3. /\ ncli'[c] = Cardinality(held'[c][l]) + (IF "run" = "run" THEN 0 ELSE 1)
          /\ "run" \notin {"spin", "own", "unlock"} /\ "run" \notin {"own", "unlock"}
        BY <2>2, <1>8
    <2>4. /\ l = "thread" => (IF_'[c] <=> ncli'[c] = 0) /\ (ncli'[c] # 0 => intena'[c])
          /\ l = "handler" => ~IF_'[c] /\ (ncli'[c] # 0 => ~intena'[c])
        BY <1>1, <1>2 DEF Nesting
    <2>6. Goto(c, "run") /\ SpinTypeOK /\ Nesting(c)
        BY <1>2
    <2>7. \A m \in Levels : m # l => held'[c][m] = held[c][m] /\ want'[c][m] = want[c][m]
        BY <1>6, <1>7
    <2> HIDE DEF SpinIInv
    <2> QED BY <2>1, <2>3, <2>4, <1>1, <2>6, <2>7, WithinLevel
<1>10. \A d \in CPUs : Nesting(d)'
    BY <1>2, <1>6, <1>7, <1>9, Elsewhere
<1>11. Mutex'
    <2>1. ASSUME NEW d \in CPUs, NEW m \in Levels, NEW j \in Locks, Has(d, m, j)'
          PROVE  Has(d, m, j)
        BY <2>1, <1>2, <1>3, <1>6, <1>7, <1>9 DEF Has
    <2>2. ASSUME NEW d \in CPUs, NEW m \in Levels, NEW j \in held'[d][m] PROVE owner'[j] = d
        <3>1. CASE d = c /\ m = l /\ j = k
            BY <3>1, <1>5
        <3>2. CASE ~(d = c /\ m = l /\ j = k)
            <4>1. j \in held[d][m] /\ j \in Locks
                BY <2>2, <3>2, <1>6 DEF SpinTypeOK
            <4>2. j # k
                BY <3>2, <4>1, <1>4 DEF Mutex, Has
            <4> QED BY <4>1, <4>2, <1>5 DEF Mutex
        <3> QED BY <3>1, <3>2
    <2>3. ASSUME NEW j \in Locks, owner'[j] # NONE PROVE \E m \in Levels : j \in held'[owner'[j]][m]
        <3>1. CASE j = k
            BY <3>1, <1>5, <1>6
        <3>2. CASE j # k
            <4>1. owner'[j] = owner[j] /\ owner[j] \in CPUs
                BY <2>3, <3>2, <1>5 DEF SpinTypeOK
            <4>2. PICK m \in Levels : j \in held[owner[j]][m]
                BY <2>3, <4>1 DEF Mutex
            <4>3. j \in held'[owner[j]][m]
                BY <4>1, <4>2, <1>6
            <4> QED BY <4>1, <4>3
        <3> QED BY <3>1, <3>2
    <2> QED BY <2>1, <2>2, <2>3, <1>2 DEF Mutex
<1>12. SpinTypeOK'
    BY <1>2, <1>5, <1>6, <1>7, <1>9 DEF SpinTypeOK
<1> QED BY <1>2, <1>10, <1>11, <1>12

(* The first part of release keeps the invariant; the lock is held, so it  *)
(* does not panic.                                                         *)
LEMMA ReleaseKeeps ==
    ASSUME SpinIInv, NEW c \in CPUs, NEW k \in Locks, release(c, k)
    PROVE  SpinIInv'
<1> USE DEF SpinIInv
<1>1. PICK l \in Levels : l = Level(c)
    BY Running
<1>2. /\ spc[c][l] = "run" /\ k \in held[c][l]
      /\ locked' = locked /\ IF_' = IF_ /\ ncli' = ncli /\ intena' = intena /\ oops' = ~holding(c, k)
      /\ Goto(c, "unlock") /\ owner' = [owner EXCEPT ![k] = NONE]
      /\ held' = [held EXCEPT ![c][l] = held[c][l] \ {k}]
      /\ want' = [want EXCEPT ![c][l] = k]
    BY <1>1 DEF release, At
<1>3. Has(c, l, k) /\ owner[k] = c /\ locked[k]
    BY <1>2 DEF Has, Mutex
<1>4. oops' = FALSE
    BY <1>2, <1>3 DEF holding
<1>5. /\ owner' \in [Locks -> CPUs \cup {NONE}] /\ owner'[k] = NONE
      /\ \A j \in Locks : j # k => owner'[j] = owner[j]
    <2>1. owner \in [Locks -> CPUs \cup {NONE}]
        BY DEF SpinTypeOK
    <2> QED BY <2>1, <1>2
<1>6. /\ held' \in [CPUs -> [Levels -> SUBSET Locks]] /\ held'[c][l] = held[c][l] \ {k}
      /\ \A m \in Levels : m # l => held'[c][m] = held[c][m]
      /\ \A d \in CPUs : d # c => held'[d] = held[d]
    <2>1. held \in [CPUs -> [Levels -> SUBSET Locks]] /\ held[c][l] \ {k} \in SUBSET Locks
        BY DEF SpinTypeOK
    <2> QED BY <2>1, <1>2, OneLevel
<1>7. /\ want' \in [CPUs -> [Levels -> Locks \cup {NONE}]] /\ want'[c][l] = k
      /\ \A m \in Levels : m # l => want'[c][m] = want[c][m]
      /\ \A d \in CPUs : d # c => want'[d] = want[d]
    <2>1. want \in [CPUs -> [Levels -> Locks \cup {NONE}]] /\ k \in Locks \cup {NONE}
        BY DEF SpinTypeOK
    <2> QED BY <2>1, <1>2, OneLevel
<1>8. Cardinality(held'[c][l]) = Cardinality(held[c][l]) - 1 /\ Cardinality(held[c][l]) \in Nat
    <2>1. IsFiniteSet(held[c][l]) /\ Cardinality(held[c][l]) \in Nat
        BY LocksFinite DEF SpinTypeOK
    <2>2. Cardinality(held[c][l] \ {k}) = Cardinality(held[c][l]) - 1
        BY <2>1, <1>2, FS_RemoveElement
    <2> QED BY <2>1, <2>2, <1>6
<1>9. /\ spc' \in [CPUs -> [Levels -> Steps]] /\ spc'[c][l] = "unlock"
      /\ (\A m \in Levels : m # l => spc'[c][m] = spc[c][m])
      /\ (\A d \in CPUs : d # c => spc'[d] = spc[d])
      /\ Nesting(c)'
    <2>1. "unlock" \in Steps /\ "unlock" # "none"
        BY DEF Steps
    <2>2. ncli'[c] = Cardinality(held[c][l])
        BY <1>1, <1>2, <1>8 DEF Nesting, Depth
    <2>3. ncli'[c] = Cardinality(held'[c][l]) + 1
        BY <2>2, <1>8
    <2>4. want'[c][l] \in Locks /\ want'[c][l] \notin held'[c][l]
        BY <1>6, <1>7
    <2>5. /\ l = "thread" => (IF_'[c] <=> ncli'[c] = 0) /\ (ncli'[c] # 0 => intena'[c])
          /\ l = "handler" => ~IF_'[c] /\ (ncli'[c] # 0 => ~intena'[c])
        BY <1>1, <1>2 DEF Nesting
    <2>6. Goto(c, "unlock") /\ SpinTypeOK /\ Nesting(c)
        BY <1>2
    <2>7. \A m \in Levels : m # l => held'[c][m] = held[c][m] /\ want'[c][m] = want[c][m]
        BY <1>6, <1>7
    <2> HIDE DEF SpinIInv
    <2> QED BY <2>1, <2>3, <2>4, <2>5, <1>1, <2>6, <2>7, WithinLevel
<1>10. \A d \in CPUs : Nesting(d)'
    BY <1>2, <1>6, <1>7, <1>9, Elsewhere
<1>11. Mutex'
    <2>1. ASSUME NEW d \in CPUs, NEW m \in Levels, NEW j \in Locks, Has(d, m, j)'
          PROVE  Has(d, m, j)
        BY <2>1, <1>2, <1>6, <1>7, <1>9 DEF Has
    <2>2. ASSUME NEW d \in CPUs, NEW m \in Levels, NEW j \in held'[d][m]
          PROVE  j \in Locks /\ j # k /\ j \in held[d][m]
        <3>1. j \in held[d][m] /\ j \in Locks /\ ~(d = c /\ m = l /\ j = k)
            BY <2>2, <1>6 DEF SpinTypeOK
        <3> QED BY <3>1, <1>3 DEF Mutex, Has
    <2>3. ASSUME NEW d \in CPUs, NEW m \in Levels, NEW j \in held'[d][m] PROVE owner'[j] = d
        BY <2>2, <2>3, <1>5 DEF Mutex
    <2>4. ASSUME NEW j \in Locks, owner'[j] # NONE PROVE \E m \in Levels : j \in held'[owner'[j]][m]
        <3>1. j # k /\ owner'[j] = owner[j] /\ owner[j] \in CPUs
            BY <2>4, <1>5 DEF SpinTypeOK
        <3>2. PICK m \in Levels : j \in held[owner[j]][m]
            BY <2>4, <3>1 DEF Mutex
        <3>3. j \in held'[owner[j]][m]
            BY <3>1, <3>2, <1>6
        <3> QED BY <3>1, <3>3
    <2> QED BY <2>1, <2>3, <2>4, <1>2 DEF Mutex
<1>12. SpinTypeOK'
    <2>1. oops' \in BOOLEAN
        BY <1>4
    <2> QED BY <2>1, <1>2, <1>5, <1>6, <1>7, <1>9 DEF SpinTypeOK
<1> QED BY <1>4, <1>10, <1>11, <1>12

(* Clearing the lock in release keeps the invariant: no one else has it.   *)
LEMMA UnlockKeeps ==
    ASSUME SpinIInv, NEW c \in CPUs, release_unlock(c)
    PROVE  SpinIInv'
<1> USE DEF SpinIInv
<1>1. PICK l \in Levels : l = Level(c)
    BY Running
<1>2. /\ spc[c][l] = "unlock"
      /\ owner' = owner /\ held' = held /\ IF_' = IF_ /\ ncli' = ncli /\ intena' = intena
      /\ oops' = oops /\ Goto(c, "popcli") /\ locked' = [locked EXCEPT ![want[c][l]] = FALSE]
      /\ want' = [want EXCEPT ![c][l] = NONE]
    BY <1>1 DEF release_unlock, At, Want
<1>3. PICK k \in Locks : k = want[c][l] /\ k \notin held[c][l]
    BY <1>1, <1>2 DEF Nesting
<1>4. Has(c, l, k)
    BY <1>2, <1>3 DEF Has
<1>5. locked' \in [Locks -> BOOLEAN]
    BY <1>2, Zenon DEF SpinTypeOK
<1>6. \A j \in Locks : j # k => locked'[j] = locked[j]
    <2>1. locked \in [Locks -> BOOLEAN]
        BY DEF SpinTypeOK
    <2> QED BY <2>1, <1>2, <1>3
<1>7. /\ want' \in [CPUs -> [Levels -> Locks \cup {NONE}]]
      /\ \A m \in Levels : m # l => want'[c][m] = want[c][m]
      /\ \A d \in CPUs : d # c => want'[d] = want[d]
    <2>1. want \in [CPUs -> [Levels -> Locks \cup {NONE}]] /\ NONE \in Locks \cup {NONE}
        BY DEF SpinTypeOK
    <2> QED BY <2>1, <1>2, OneLevel
<1>8. /\ spc' \in [CPUs -> [Levels -> Steps]] /\ spc'[c][l] = "popcli"
      /\ (\A m \in Levels : m # l => spc'[c][m] = spc[c][m])
      /\ (\A d \in CPUs : d # c => spc'[d] = spc[d])
      /\ Nesting(c)'
    <2>1. "popcli" \in Steps /\ "popcli" # "none"
        BY DEF Steps
    <2>2. ncli'[c] = Cardinality(held'[c][l]) + 1
        BY <1>1, <1>2 DEF Nesting, Depth
    <2>3. /\ ncli'[c] = Cardinality(held'[c][l]) + (IF "popcli" = "run" THEN 0 ELSE 1)
          /\ "popcli" \notin {"spin", "own", "unlock"} /\ "popcli" \notin {"own", "unlock"}
        BY <2>2
    <2>4. /\ l = "thread" => (IF_'[c] <=> ncli'[c] = 0) /\ (ncli'[c] # 0 => intena'[c])
          /\ l = "handler" => ~IF_'[c] /\ (ncli'[c] # 0 => ~intena'[c])
        BY <1>1, <1>2 DEF Nesting
    <2> QED BY <2>1, <2>3, <2>4, <1>1, <1>2, <1>7, WithinLevel
<1>9. \A d \in CPUs : Nesting(d)'
    BY <1>2, <1>7, <1>8, Elsewhere
<1>10. Mutex'
    <2>1. ASSUME NEW d \in CPUs, NEW m \in Levels, NEW j \in Locks, Has(d, m, j)'
          PROVE  Has(d, m, j) /\ j # k
        <3>1. CASE d = c /\ m = l
            BY <2>1, <3>1, <1>2, <1>3, <1>8 DEF Has
        <3>2. CASE ~(d = c /\ m = l)
            <4>1. Has(d, m, j)
                BY <2>1, <3>2, <1>2, <1>7, <1>8 DEF Has
            <4> QED BY <3>2, <4>1, <1>4 DEF Mutex
        <3> QED BY <3>1, <3>2
    <2>2. \A d \in CPUs, m \in Levels, j \in Locks : Has(d, m, j)' => locked'[j]
        BY <2>1, <1>6 DEF Mutex
    <2> QED BY <2>1, <2>2, <1>2 DEF Mutex
<1>11. SpinTypeOK'
    BY <1>2, <1>5, <1>7, <1>8 DEF SpinTypeOK
<1> QED BY <1>2, <1>9, <1>10, <1>11

(* popcli keeps the invariant and does not panic.                          *)
LEMMA PopcliKeeps ==
    ASSUME SpinIInv, NEW c \in CPUs, popcli(c)
    PROVE  SpinIInv'
<1> USE DEF SpinIInv
<1>1. PICK l \in Levels : l = Level(c)
    BY Running
<1>2. /\ spc[c][l] = "popcli"
      /\ locked' = locked /\ owner' = owner /\ held' = held /\ want' = want /\ intena' = intena
      /\ oops' = (IF_[c] \/ ncli[c] = 0) /\ Goto(c, "run")
      /\ ncli' = [ncli EXCEPT ![c] = @ - 1]
      /\ IF_' = [IF_ EXCEPT ![c] = @ \/ (ncli[c] = 1 /\ intena[c])]
    BY <1>1 DEF popcli, At
<1>3. /\ ncli[c] = Cardinality(held[c][l]) + 1 /\ Cardinality(held[c][l]) \in Nat
      /\ l = "thread" => (IF_[c] <=> ncli[c] = 0) /\ (ncli[c] # 0 => intena[c])
      /\ l = "handler" => ~IF_[c] /\ (ncli[c] # 0 => ~intena[c])
    <2>1. Cardinality(held[c][l]) \in Nat
        BY LocksFinite DEF SpinTypeOK
    <2>2. ncli[c] = Cardinality(held[c][l]) + 1
        BY <1>1, <1>2 DEF Nesting, Depth
    <2> QED BY <2>1, <2>2, <1>1 DEF Nesting
<1>4. ncli[c] # 0 /\ ~IF_[c] /\ (l = "thread" \/ l = "handler")
    BY <1>3 DEF Levels
<1>5. oops' = FALSE
    BY <1>2, <1>4
<1>6. /\ ncli' \in [CPUs -> Nat] /\ ncli'[c] = ncli[c] - 1
      /\ \A d \in CPUs : d # c => ncli'[d] = ncli[d]
    <2>1. ncli \in [CPUs -> Nat]
        BY DEF SpinTypeOK
    <2> QED BY <2>1, <1>2, <1>3
<1>7. IF_' \in [CPUs -> BOOLEAN]
    <2>1. IF_ \in [CPUs -> BOOLEAN]
        BY DEF SpinTypeOK
    <2>2. (IF_[c] \/ (ncli[c] = 1 /\ intena[c])) \in BOOLEAN
        OBVIOUS
    <2> QED BY <2>1, <2>2, <1>2, Zenon
<1>8. /\ IF_'[c] <=> ncli[c] = 1 /\ intena[c]
      /\ \A d \in CPUs : d # c => IF_'[d] = IF_[d]
    <2>1. IF_ \in [CPUs -> BOOLEAN]
        BY DEF SpinTypeOK
    <2> QED BY <2>1, <1>2, <1>4
<1>9. /\ spc' \in [CPUs -> [Levels -> Steps]] /\ spc'[c][l] = "run"
      /\ (\A m \in Levels : m # l => spc'[c][m] = spc[c][m])
      /\ (\A d \in CPUs : d # c => spc'[d] = spc[d])
      /\ Nesting(c)'
    <2>1. "run" \in Steps /\ "run" # "none"
        BY DEF Steps
    <2>2. ncli'[c] = Cardinality(held'[c][l])
        BY <1>2, <1>3, <1>6
    <2>3. /\ ncli'[c] = Cardinality(held'[c][l]) + (IF "run" = "run" THEN 0 ELSE 1)
          /\ "run" \notin {"spin", "own", "unlock"} /\ "run" \notin {"own", "unlock"}
        BY <2>2, <1>2, <1>3
    <2>4. ncli'[c] = 0 <=> ncli[c] = 1
        BY <1>3, <1>6
    <2>5. /\ l = "thread" => (IF_'[c] <=> ncli'[c] = 0) /\ (ncli'[c] # 0 => intena'[c])
          /\ l = "handler" => ~IF_'[c] /\ (ncli'[c] # 0 => ~intena'[c])
        BY <2>4, <1>2, <1>3, <1>4, <1>8
    <2> QED BY <2>1, <2>3, <2>5, <1>1, <1>2, WithinLevel
<1>10. \A d \in CPUs : Nesting(d)'
    BY <1>2, <1>6, <1>8, <1>9, Elsewhere
<1>11. Mutex'
    <2>1. ASSUME NEW d \in CPUs, NEW m \in Levels, spc'[d][m] \in {"own", "unlock"}
          PROVE  spc[d][m] \in {"own", "unlock"} /\ want'[d][m] = want[d][m]
        BY <2>1, <1>2, <1>9
    <2> QED BY <2>1, <1>2, SameHas
<1>12. SpinTypeOK'
    <2>1. oops' \in BOOLEAN
        BY <1>5
    <2> QED BY <2>1, <1>2, <1>6, <1>7, <1>9 DEF SpinTypeOK
<1> QED BY <1>5, <1>10, <1>11, <1>12

(* An interrupt keeps the invariant: it comes only where the thread has    *)
(* nothing.                                                                *)
LEMMA InterruptKeeps ==
    ASSUME SpinIInv, NEW c \in CPUs, interrupt(c)
    PROVE  SpinIInv'
<1> USE DEF SpinIInv
<1>1. /\ IF_[c] /\ Level(c) = "thread"
      /\ locked' = locked /\ owner' = owner /\ ncli' = ncli /\ intena' = intena
      /\ held' = held /\ want' = want /\ oops' = oops
      /\ IF_' = [IF_ EXCEPT ![c] = FALSE] /\ spc' = [spc EXCEPT ![c]["handler"] = "run"]
    BY DEF interrupt
<1>2. IF_' \in [CPUs -> BOOLEAN]
    BY <1>1, Zenon DEF SpinTypeOK
<1>3. ~IF_'[c] /\ \A d \in CPUs : d # c => IF_'[d] = IF_[d]
    <2>1. IF_ \in [CPUs -> BOOLEAN]
        BY DEF SpinTypeOK
    <2> QED BY <2>1, <1>1
<1>4. /\ spc' \in [CPUs -> [Levels -> Steps]] /\ spc'[c]["handler"] = "run"
      /\ (\A m \in Levels : m # "handler" => spc'[c][m] = spc[c][m])
      /\ (\A d \in CPUs : d # c => spc'[d] = spc[d])
    <2>1. spc \in [CPUs -> [Levels -> Steps]] /\ "run" \in Steps /\ "handler" \in Levels
        BY DEF SpinTypeOK, Steps, Levels
    <2> QED BY <2>1, <1>1, OneLevel
<1>5. /\ spc[c]["handler"] = "none" /\ "thread" \in Levels /\ "handler" \in Levels
      /\ \A m \in Levels : m = "thread" \/ m = "handler"
    BY <1>1, Running
<1>6. held[c]["thread"] = {} /\ spc[c]["thread"] = "run" /\ held[c]["handler"] = {} /\ ncli[c] = 0
    <2>1. IsFiniteSet(held[c]["thread"]) /\ Cardinality(held[c]["thread"]) \in Nat
        BY <1>5, LocksFinite DEF SpinTypeOK
    <2>2. ncli[c] = 0 /\ ncli[c] = Depth(c, "thread") /\ spc[c]["thread"] # "none" /\ held[c]["handler"] = {}
        BY <1>1, <1>5 DEF Nesting
    <2>3. Cardinality(held[c]["thread"]) = 0 /\ spc[c]["thread"] = "run"
        BY <2>1, <2>2 DEF Depth
    <2> QED BY <2>1, <2>2, <2>3, FS_EmptySet
<1>7. Nesting(c)'
    <2>1. Level(c)' = "handler"
        BY <1>4 DEF Level
    <2>2. Depth(c, "handler")' = 0
        <3>1. Cardinality({}) = 0
            BY FS_EmptySet
        <3>2. held'[c]["handler"] = {}
            BY <1>1, <1>6
        <3> QED BY <3>1, <3>2, <1>4 DEF Depth
    <2>3. ncli'[c] = Depth(c, Level(c))' /\ ncli'[c] = 0
        BY <2>1, <2>2, <1>1, <1>6
    <2>4. spc'[c]["thread"] = "run" /\ held'[c]["thread"] = {}
        BY <1>1, <1>4, <1>5, <1>6
    <2>5. \A m \in Levels : spc'[c][m] = "run"
        BY <2>4, <1>4, <1>5
    <2> QED BY <2>1, <2>3, <2>4, <2>5, <1>3, <1>4 DEF Nesting
<1>8. \A d \in CPUs : Nesting(d)'
    BY <1>1, <1>3, <1>4, <1>7, Elsewhere
<1>9. Mutex'
    <2>1. ASSUME NEW d \in CPUs, NEW m \in Levels, spc'[d][m] \in {"own", "unlock"}
          PROVE  spc[d][m] \in {"own", "unlock"} /\ want'[d][m] = want[d][m]
        BY <2>1, <1>1, <1>4
    <2> QED BY <2>1, <1>1, SameHas
<1>10. SpinTypeOK'
    BY <1>1, <1>2, <1>4 DEF SpinTypeOK
<1> QED BY <1>1, <1>8, <1>9, <1>10

(* The return from an interrupt keeps the invariant.                       *)
LEMMA IretKeeps ==
    ASSUME SpinIInv, NEW c \in CPUs, iret(c)
    PROVE  SpinIInv'
<1> USE DEF SpinIInv
<1>1. /\ Level(c) = "handler" /\ spc[c]["handler"] = "run" /\ held[c]["handler"] = {}
      /\ locked' = locked /\ owner' = owner /\ ncli' = ncli /\ intena' = intena
      /\ held' = held /\ want' = want /\ oops' = oops
      /\ IF_' = [IF_ EXCEPT ![c] = TRUE] /\ spc' = [spc EXCEPT ![c]["handler"] = "none"]
    BY DEF iret, At
<1>2. IF_' \in [CPUs -> BOOLEAN]
    BY <1>1, Zenon DEF SpinTypeOK
<1>3. IF_'[c] /\ \A d \in CPUs : d # c => IF_'[d] = IF_[d]
    <2>1. IF_ \in [CPUs -> BOOLEAN]
        BY DEF SpinTypeOK
    <2> QED BY <2>1, <1>1
<1>4. /\ spc' \in [CPUs -> [Levels -> Steps]] /\ spc'[c]["handler"] = "none"
      /\ (\A m \in Levels : m # "handler" => spc'[c][m] = spc[c][m])
      /\ (\A d \in CPUs : d # c => spc'[d] = spc[d])
    <2>1. spc \in [CPUs -> [Levels -> Steps]] /\ "none" \in Steps /\ "handler" \in Levels
        BY DEF SpinTypeOK, Steps, Levels
    <2> QED BY <2>1, <1>1, OneLevel
<1>5. /\ "thread" \in Levels /\ "handler" \in Levels
      /\ \A m \in Levels : m = "thread" \/ m = "handler"
    BY DEF Levels
<1>6. held[c]["thread"] = {} /\ spc[c]["thread"] = "run" /\ ncli[c] = 0
    <2>1. Cardinality({}) = 0
        BY FS_EmptySet
    <2>2. ncli[c] = Depth(c, "handler") /\ held[c]["thread"] = {} /\ spc[c]["thread"] = "run"
        BY <1>1 DEF Nesting
    <2> QED BY <2>1, <2>2, <1>1 DEF Depth
<1>7. Nesting(c)'
    <2>1. Level(c)' = "thread"
        BY <1>4 DEF Level
    <2>2. spc'[c]["thread"] = "run" /\ held'[c]["thread"] = {} /\ held'[c]["handler"] = {}
        BY <1>1, <1>4, <1>5, <1>6
    <2>3. Depth(c, "thread")' = 0
        <3>1. Cardinality({}) = 0
            BY FS_EmptySet
        <3> QED BY <3>1, <2>2 DEF Depth
    <2>4. ncli'[c] = Depth(c, Level(c))' /\ ncli'[c] = 0
        BY <2>1, <2>3, <1>1, <1>6
    <2>5. \A m \in Levels : spc'[c][m] \in {"none", "run"}
        BY <2>2, <1>4, <1>5
    <2> QED BY <2>1, <2>2, <2>4, <2>5, <1>3, <1>4 DEF Nesting
<1>8. \A d \in CPUs : Nesting(d)'
    BY <1>1, <1>3, <1>4, <1>7, Elsewhere
<1>9. Mutex'
    <2>1. ASSUME NEW d \in CPUs, NEW m \in Levels, spc'[d][m] \in {"own", "unlock"}
          PROVE  spc[d][m] \in {"own", "unlock"} /\ want'[d][m] = want[d][m]
        BY <2>1, <1>1, <1>4
    <2> QED BY <2>1, <1>1, SameHas
<1>10. SpinTypeOK'
    BY <1>1, <1>2, <1>4 DEF SpinTypeOK
<1> QED BY <1>1, <1>8, <1>9, <1>10

----------------------------------------------------------------------------
(* The invariant holds in every reachable state.                           *)
LEMMA SpinInductive == SpinSpec => []SpinIInv
<1>1. SpinIInv /\ [SpinNext]_svars => SpinIInv'
    <2> SUFFICES ASSUME SpinIInv, [SpinNext]_svars PROVE SpinIInv'
        OBVIOUS
    <2>1. ASSUME NEW c \in CPUs, NEW k \in Locks, acquire(c, k) \/ release(c, k) PROVE SpinIInv'
        BY <2>1, AcquireKeeps, ReleaseKeeps
    <2>2. ASSUME NEW c \in CPUs,
                 \/ xchg(c) \/ acquire_own(c) \/ release_unlock(c) \/ popcli(c)
                 \/ interrupt(c) \/ iret(c)
          PROVE  SpinIInv'
        BY <2>2, XchgKeeps, OwnKeeps, UnlockKeeps, PopcliKeeps, InterruptKeeps, IretKeeps
    <2>3. CASE UNCHANGED svars
        <3>1. /\ locked' = locked /\ owner' = owner /\ IF_' = IF_ /\ ncli' = ncli /\ intena' = intena
              /\ held' = held /\ spc' = spc /\ want' = want /\ oops' = oops
            BY <2>3 DEF svars
        <3>2. SpinTypeOK' /\ ~oops'
            BY <3>1 DEF SpinIInv, SpinTypeOK
        <3>3. \A c \in CPUs : Nesting(c)'
            BY <3>1, Elsewhere DEF SpinIInv
        <3>4. Mutex'
            BY <3>1, SameHas DEF SpinIInv
        <3> QED BY <3>2, <3>3, <3>4 DEF SpinIInv
    <2> QED BY <2>1, <2>2, <2>3 DEF SpinNext
<1> QED BY <1>1, InitSpinIInv, PTL DEF SpinSpec

(* acquire and release, on any number of processors with interrupts:       *)
(* a lock is in one critical section at most, and neither panics.          *)
THEOREM LocksExclude == SpinSpec => []SpinlockExclusive
<1>1. SpinIInv => SpinlockExclusive
    <2> SUFFICES ASSUME SpinIInv, NEW k \in Locks
                 PROVE  Cardinality({x \in CPUs \X Levels : k \in held[x[1]][x[2]]}) <= 1
        BY DEF SpinlockExclusive, SpinIInv
    <2> DEFINE S == {x \in CPUs \X Levels : k \in held[x[1]][x[2]]}
    <2>1. ASSUME NEW x \in S, NEW y \in S PROVE x = y
        <3>1. /\ x[1] \in CPUs /\ x[2] \in Levels /\ y[1] \in CPUs /\ y[2] \in Levels
              /\ x = <<x[1], x[2]>> /\ y = <<y[1], y[2]>>
              /\ Has(x[1], x[2], k) /\ Has(y[1], y[2], k)
            BY DEF Has
        <3>2. x[1] = y[1] /\ x[2] = y[2]
            BY <3>1 DEF SpinIInv, Mutex
        <3> QED BY <3>1, <3>2
    <2> HIDE DEF S
    <2>2. CASE S = {}
        <3>1. Cardinality(S) = 0
            BY <2>2, FS_EmptySet
        <3> QED BY <3>1 DEF S
    <2>3. CASE S # {}
        <3>1. PICK x : x \in S
            BY <2>3
        <3>2. S = {x}
            BY <3>1, <2>1
        <3>3. Cardinality({x}) = 1
            BY FS_Singleton
        <3> QED BY <3>2, <3>3 DEF S
    <2> QED BY <2>2, <2>3
<1> QED BY <1>1, SpinInductive, PTL

(* pushcli and popcli: no handler spins on a lock of the thread that it    *)
(* interrupted, and interrupts are on again exactly when the last lock is  *)
(* released.                                                               *)
THEOREM InterruptsAreNested == SpinSpec => []SpinlockInterruptsNested
<1>1. SpinIInv => SpinlockInterruptsNested
    <2> SUFFICES ASSUME SpinIInv, NEW c \in CPUs
                 PROVE  /\ Level(c) = "handler" /\ spc[c]["handler"] = "spin" =>
                              want[c]["handler"] \notin held[c]["thread"] /\ spc[c]["thread"] = "run"
                        /\ Level(c) = "thread" /\ spc[c]["thread"] = "run" /\ held[c]["thread"] = {} => IF_[c]
                        /\ Level(c) = "handler" => ~IF_[c]
        BY DEF SpinlockInterruptsNested
    <2>1. Nesting(c)
        BY DEF SpinIInv
    <2>2. ASSUME Level(c) = "handler" /\ spc[c]["handler"] = "spin"
          PROVE  want[c]["handler"] \notin held[c]["thread"] /\ spc[c]["thread"] = "run"
        BY <2>1, <2>2 DEF Nesting
    <2>3. ASSUME Level(c) = "thread" /\ spc[c]["thread"] = "run" /\ held[c]["thread"] = {}
          PROVE  IF_[c]
        <3>1. Cardinality({}) = 0
            BY FS_EmptySet
        <3>2. Depth(c, "thread") = 0
            BY <2>3, <3>1 DEF Depth
        <3>3. ncli[c] = 0
            BY <2>1, <2>3, <3>2 DEF Nesting
        <3> QED BY <2>1, <2>3, <3>3 DEF Nesting
    <2>4. Level(c) = "handler" => ~IF_[c]
        BY <2>1 DEF Nesting
    <2> QED BY <2>2, <2>3, <2>4
<1> QED BY <1>1, SpinInductive, PTL

----------------------------------------------------------------------------
(* The elastic allocator, one page at a time: bits are the flags of its    *)
(* bytes, tab its table.                                                   *)
ElasticChunk == [addr : 0 .. ElasticPage - 1, length : 1 .. ElasticPage]

Covers(tab, k, b) == tab[k] # NULL /\ tab[k].addr <= b /\ b < tab[k].addr + tab[k].length

(* Chunks are whole granules inside the page, no two have a byte in        *)
(* common, and the flags are those of their bytes.                         *)
PageOK(bits, tab) ==
    /\ bits \in [E!Bytes -> {0, 1}] /\ tab \in [E!Slots -> ElasticChunk \cup {NULL}]
    /\ \A k \in E!Slots : tab[k] # NULL =>
         tab[k].length >= ElasticMin /\ tab[k].addr + tab[k].length <= ElasticPage
    /\ \A k, m \in E!Slots : \A b \in E!Bytes : Covers(tab, k, b) /\ Covers(tab, m, b) => k = m
    /\ \A b \in E!Bytes : bits[b] = 1 <=> \E k \in E!Slots : Covers(tab, k, b)

(* The pages that are mapped, or whose mmap failed, come first, and a page *)
(* that is not has no chunk.                                               *)
MappedFirst ==
    /\ page_start \in [E!Pages -> {NULL, "page", "MAP_FAILED"}]
    /\ \A i, h \in E!Pages : h < i /\ page_start[i] # NULL => page_start[h] # NULL
    /\ \A i \in E!Pages : page_start[i] = NULL => \A k \in E!Slots : page_table[i][k] = NULL

(* The inductive invariant of the elastic allocator.                       *)
ElasticIInv ==
    /\ page_bits \in [E!Pages -> [E!Bytes -> {0, 1}]]
    /\ page_table \in [E!Pages -> [E!Slots -> ElasticChunk \cup {NULL}]]
    /\ MappedFirst
    /\ \A i \in E!Pages : PageOK(page_bits[i], page_table[i])

(* A finite set of numbers has a least element.                            *)
LEMMA LeastOf ==
    ASSUME NEW S, S \subseteq Int, IsFiniteSet(S), S # {}
    PROVE  \E m \in S : \A x \in S : m <= x
<1> DEFINE below(x) == {y \in S : y <= x}
           T == {below(x) : x \in S}
           R == StrictSubsetOrdering(S)
<1>1. T \subseteq FiniteSubsetsOf(S)
  <2> SUFFICES ASSUME NEW x \in S PROVE below(x) \in FiniteSubsetsOf(S)
      OBVIOUS
  <2> QED BY FS_Subset DEF FiniteSubsetsOf
<1>2. IsWellFoundedOn(R, FiniteSubsetsOf(S))
    BY FS_StrictSubsetOrderingWellFounded
<1>3. T # {}
    OBVIOUS
<1>4. \E m \in T : \A t \in T : ~(<<t, m>> \in R)
  <2> HIDE DEF T, R
  <2> QED BY <1>1, <1>2, <1>3, WFMin
<1>5. PICK m \in S : \A x \in S : ~(<<below(x), below(m)>> \in R)
    BY <1>4
<1>6. ASSUME NEW x \in S PROVE m <= x
  <2> SUFFICES ASSUME x < m PROVE FALSE
      OBVIOUS
  <2>1. below(x) \subseteq below(m) /\ m \in below(m) /\ m \notin below(x)
    <3>1. \A y \in S : y <= x => y <= m
        OBVIOUS
    <3>2. m <= m /\ ~(m <= x)
        OBVIOUS
    <3> QED BY <3>1, <3>2
  <2>2. below(x) \in SUBSET S /\ below(m) \in SUBSET S /\ below(x) # below(m)
      BY <2>1
  <2>3. <<below(x), below(m)>> \in R
    <3> HIDE DEF below
    <3> QED BY <2>1, <2>2 DEF StrictSubsetOrdering
  <2> QED BY <2>3, <1>5
<1> QED BY <1>6

(* FiniteSetsExt's Min is that element.                                    *)
LEMMA MinOf ==
    ASSUME NEW S, S \subseteq Int, IsFiniteSet(S), S # {}
    PROVE  E!Min(S) \in S /\ \A x \in S : E!Min(S) <= x
<1>1. \E m \in S : \A x \in S : m <= x
    BY LeastOf
<1> QED BY <1>1 DEF E!Min

(* What a new chunk leaves of a page that had room for it.                 *)
LEMMA PageBook ==
    ASSUME NEW bits, NEW tab, PageOK(bits, tab), NEW j \in E!Bytes, NEW z \in Nat, z >= ElasticMin,
           j + z <= ElasticPage, \A b \in j .. j + z - 1 : bits[b] = 0,
           NEW k \in E!Slots, tab[k] = NULL
    PROVE  PageOK([b \in E!Bytes |-> IF b \in j .. j + z - 1 THEN 1 ELSE bits[b]],
                  [tab EXCEPT ![k] = [addr |-> j, length |-> z]])
<1> DEFINE bits2 == [b \in E!Bytes |-> IF b \in j .. j + z - 1 THEN 1 ELSE bits[b]]
           c == [addr |-> j, length |-> z]
           tab2 == [tab EXCEPT ![k] = c]
<1>1. ElasticPage \in Nat \ {0} /\ ElasticMin \in Nat \ {0} /\ j \in Int /\ z \in 1 .. ElasticPage /\ j \in 0 .. ElasticPage - 1
    BY ElasticAssumption DEF E!Bytes
<1>2. bits \in [E!Bytes -> {0, 1}] /\ tab \in [E!Slots -> ElasticChunk \cup {NULL}]
    BY DEF PageOK
<1>3. c \in ElasticChunk /\ c # NULL /\ c.addr = j /\ c.length = z
    BY <1>1, ElasticAssumption DEF ElasticChunk
<1>4. tab2 \in [E!Slots -> ElasticChunk \cup {NULL}] /\ tab2[k] = c /\ \A m \in E!Slots : m # k => tab2[m] = tab[m]
  <2> HIDE DEF c
  <2> QED BY <1>2, <1>3
<1>5. bits2 \in [E!Bytes -> {0, 1}] /\ \A b \in E!Bytes : bits2[b] = IF b \in j .. j + z - 1 THEN 1 ELSE bits[b]
    BY <1>2
<1>6. \A b \in E!Bytes : Covers(tab2, k, b) <=> b \in j .. j + z - 1
    BY <1>1, <1>3, <1>4 DEF Covers, E!Bytes
<1>7. \A b \in E!Bytes, m \in E!Slots : m # k => (Covers(tab2, m, b) <=> Covers(tab, m, b))
    BY <1>4 DEF Covers
<1>8. \A b \in E!Bytes, m \in E!Slots : Covers(tab, m, b) => b \notin j .. j + z - 1
    BY DEF PageOK
<1>9. \A b \in E!Bytes : ~Covers(tab, k, b)
    BY DEF Covers
<1> HIDE DEF bits2, tab2, c
<1>10. \A m \in E!Slots : tab2[m] # NULL => tab2[m].length >= ElasticMin /\ tab2[m].addr + tab2[m].length <= ElasticPage
    BY <1>3, <1>4 DEF PageOK
<1>11. \A l, m \in E!Slots : \A b \in E!Bytes : Covers(tab2, l, b) /\ Covers(tab2, m, b) => l = m
    BY <1>6, <1>7, <1>8 DEF PageOK
<1>12. \A b \in E!Bytes : bits2[b] = 1 <=> \E m \in E!Slots : Covers(tab2, m, b)
    BY <1>5, <1>6, <1>7, <1>9 DEF PageOK
<1> QED BY <1>4, <1>5, <1>10, <1>11, <1>12 DEF PageOK, bits2, tab2, c

(* What dealloc of the chunk in slot k leaves.                             *)
LEMMA PageFree ==
    ASSUME NEW bits, NEW tab, PageOK(bits, tab), NEW k \in E!Slots, tab[k] # NULL
    PROVE  PageOK([b \in E!Bytes |-> IF b \in tab[k].addr .. tab[k].addr + tab[k].length - 1 THEN 0 ELSE bits[b]],
                  [tab EXCEPT ![k] = NULL])
<1> DEFINE bits2 == [b \in E!Bytes |-> IF b \in tab[k].addr .. tab[k].addr + tab[k].length - 1 THEN 0 ELSE bits[b]]
           tab2 == [tab EXCEPT ![k] = NULL]
<1>1. bits \in [E!Bytes -> {0, 1}] /\ tab \in [E!Slots -> ElasticChunk \cup {NULL}] /\ ElasticPage \in Nat
    BY ElasticAssumption DEF PageOK
<1>2. tab[k].addr \in Int /\ tab[k].length \in Int
    BY <1>1 DEF ElasticChunk
<1>3. \A b \in E!Bytes : bits2[b] = IF Covers(tab, k, b) THEN 0 ELSE bits[b]
    BY <1>1, <1>2 DEF Covers, E!Bytes
<1>4. tab2 \in [E!Slots -> ElasticChunk \cup {NULL}] /\ tab2[k] = NULL /\ \A m \in E!Slots : m # k => tab2[m] = tab[m]
    BY <1>1
<1>5. bits2 \in [E!Bytes -> {0, 1}]
    BY <1>1
<1>6. \A b \in E!Bytes, m \in E!Slots : Covers(tab2, m, b) <=> m # k /\ Covers(tab, m, b)
    BY <1>4 DEF Covers
<1> HIDE DEF bits2, tab2
<1>7. \A m \in E!Slots : tab2[m] # NULL => tab2[m].length >= ElasticMin /\ tab2[m].addr + tab2[m].length <= ElasticPage
    BY <1>4 DEF PageOK
<1>8. \A l, m \in E!Slots : \A b \in E!Bytes : Covers(tab2, l, b) /\ Covers(tab2, m, b) => l = m
    BY <1>6 DEF PageOK
<1>9. \A b \in E!Bytes : bits2[b] = 1 <=> \E m \in E!Slots : Covers(tab2, m, b)
    BY <1>3, <1>6 DEF PageOK
<1> QED BY <1>4, <1>5, <1>7, <1>8, <1>9 DEF PageOK, bits2, tab2

(* A page with room for a chunk has a slot for it: there is one per        *)
(* granule, and the granules in which the chunks and the room begin are    *)
(* all different.                                                          *)
LEMMA SlotForRoom ==
    ASSUME NEW bits, NEW tab, PageOK(bits, tab), NEW j \in E!Bytes, NEW z \in Nat, z >= ElasticMin,
           j + z <= ElasticPage, \A b \in j .. j + z - 1 : bits[b] = 0
    PROVE  \E k \in E!Slots : tab[k] = NULL
<1> SUFFICES ASSUME \A k \in E!Slots : tab[k] # NULL PROVE FALSE
    OBVIOUS
<1>1. ElasticPage \in Nat /\ ElasticMin \in Nat \ {0} /\ j \in Nat
    BY ElasticAssumption DEF E!Bytes
<1> DEFINE N == ElasticPage \div ElasticMin
           first == [k \in 0 .. N |-> IF k = N THEN j ELSE tab[k].addr]
           long == [k \in 0 .. N |-> IF k = N THEN z ELSE tab[k].length]
           g == [k \in 0 .. N |-> first[k] \div ElasticMin]
<1>2. N \in Nat /\ N * ElasticMin <= ElasticPage /\ ElasticPage < (N + 1) * ElasticMin
    BY <1>1
<1>3. E!Slots = 0 .. N - 1
    BY DEF E!Slots
<1>4. ASSUME NEW k \in 0 .. N
      PROVE  first[k] \in Nat /\ long[k] \in Nat /\ long[k] >= ElasticMin /\ first[k] + long[k] <= ElasticPage
  <2>1. CASE k = N
      BY <1>1, <2>1
  <2>2. CASE k # N
    <3>1. k \in E!Slots
        BY <1>2, <1>3, <2>2
    <3>2. tab[k] \in ElasticChunk
        BY <3>1 DEF PageOK
    <3>3. tab[k].addr \in Nat /\ tab[k].length \in Nat
        BY <3>2 DEF ElasticChunk
    <3>4. tab[k].length >= ElasticMin /\ tab[k].addr + tab[k].length <= ElasticPage
        BY <3>1 DEF PageOK
    <3> QED BY <2>2, <3>3, <3>4
  <2> QED BY <2>1, <2>2
<1>5. ASSUME NEW k \in 0 .. N, NEW m \in 0 .. N, k # m, NEW b \in E!Bytes,
             first[k] <= b, b < first[k] + long[k], first[m] <= b, b < first[m] + long[m]
      PROVE  FALSE
  <2>0. ASSUME NEW l \in 0 .. N, l # N, first[l] <= b, b < first[l] + long[l] PROVE l \in E!Slots /\ Covers(tab, l, b)
    <3>1. l \in E!Slots
        BY <1>2, <1>3, <2>0
    <3> QED BY <2>0, <3>1 DEF Covers
  <2>1. \A l \in 0 .. N : l = N /\ first[l] <= b /\ b < first[l] + long[l] => bits[b] = 0
    <3>1. b \in Int
        BY <1>1 DEF E!Bytes
    <3> QED BY <1>1, <3>1
  <2>2. CASE k # N /\ m # N
    <3>1. k \in E!Slots /\ m \in E!Slots /\ Covers(tab, k, b) /\ Covers(tab, m, b)
        BY <1>5, <2>0, <2>2
    <3> QED BY <1>5, <3>1 DEF PageOK
  <2>3. CASE k # N /\ m = N
    <3>1. k \in E!Slots /\ Covers(tab, k, b) /\ bits[b] = 0
        BY <1>5, <2>0, <2>1, <2>3
    <3> QED BY <3>1 DEF PageOK
  <2>4. CASE k = N /\ m # N
    <3>1. m \in E!Slots /\ Covers(tab, m, b) /\ bits[b] = 0
        BY <1>5, <2>0, <2>1, <2>4
    <3> QED BY <3>1 DEF PageOK
  <2> QED BY <1>5, <2>2, <2>3, <2>4
<1> HIDE DEF first, long
<1>6. ASSUME NEW k \in 0 .. N PROVE g[k] \in 0 .. N - 1
  <2>1. PICK f \in Nat : f = first[k] /\ f + ElasticMin <= ElasticPage
      BY <1>1, <1>4
  <2>2. PICK q \in Int : q = f \div ElasticMin
      BY <1>1, <2>1
  <2>3. 0 <= q /\ q * ElasticMin <= f
      BY <1>1, <2>1, <2>2
  <2>4. q < N
    <3> SUFFICES ASSUME q >= N PROVE FALSE
        BY <1>2
    <3>1. q * ElasticMin >= N * ElasticMin
        BY <1>1, <1>2
    <3>2. (N + 1) * ElasticMin = N * ElasticMin + ElasticMin
        BY <1>1, <1>2
    <3> QED BY <1>1, <1>2, <2>1, <2>3, <3>1, <3>2
  <2>5. g[k] = q
      BY <2>1, <2>2
  <2> QED BY <1>2, <2>2, <2>3, <2>4, <2>5
<1>7. ASSUME NEW k \in 0 .. N, NEW m \in 0 .. N, g[k] = g[m] PROVE k = m
  <2> SUFFICES ASSUME k # m PROVE FALSE
      OBVIOUS
  <2>1. PICK f \in Nat, h \in Nat : f = first[k] /\ h = first[m] /\ f + long[k] <= ElasticPage /\ h + long[m] <= ElasticPage
      BY <1>4
  <2>2. PICK q \in Int : q = f \div ElasticMin /\ q = h \div ElasticMin
      BY <1>1, <1>7, <2>1
  <2>3. /\ q * ElasticMin <= f /\ f < q * ElasticMin + ElasticMin
        /\ q * ElasticMin <= h /\ h < q * ElasticMin + ElasticMin
      BY <1>1, <2>1, <2>2
  <2>4. PICK r \in Int : r = q * ElasticMin
      BY <1>1, <2>2
  <2>5. f < h + ElasticMin /\ h < f + ElasticMin
      BY ONLY <1>1, <2>1, <2>3, <2>4
  <2>6. /\ long[k] >= ElasticMin /\ long[m] >= ElasticMin /\ long[k] \in Nat /\ long[m] \in Nat
      BY <1>4
  <2>7. f \in E!Bytes /\ h \in E!Bytes
      BY <1>1, <2>1, <2>6 DEF E!Bytes
  <2>8. CASE f <= h
      BY <1>1, <1>5, <2>1, <2>5, <2>6, <2>7, <2>8
  <2>9. CASE h <= f
      BY <1>1, <1>5, <2>1, <2>5, <2>6, <2>7, <2>9
  <2> QED BY <2>1, <2>8, <2>9
<1> HIDE DEF g, N
<1>8. g \in [0 .. N -> 0 .. N - 1]
    BY <1>6 DEF g
<1>9. g \in Injection(0 .. N, 0 .. N - 1)
    BY <1>7, <1>8, Fun_IsInj
<1>10. IsFiniteSet(0 .. N - 1) /\ Cardinality(0 .. N - 1) = N /\ Cardinality(0 .. N) = N + 1
  <2>1. N \in Nat /\ 0 \in Int /\ N \in Int /\ N - 1 \in Int
      BY <1>2
  <2>2. IsFiniteSet(0 .. N - 1) /\ Cardinality(0 .. N - 1) = IF 0 > N - 1 THEN 0 ELSE (N - 1) - 0 + 1
      BY <2>1, FS_Interval
  <2>3. Cardinality(0 .. N) = IF 0 > N THEN 0 ELSE N - 0 + 1
      BY <2>1, FS_Interval
  <2> QED BY <2>1, <2>2, <2>3
<1>11. Cardinality(0 .. N) <= Cardinality(0 .. N - 1)
    BY <1>9, <1>10, FS_Injection
<1> QED BY <1>2, <1>10, <1>11

(* How far a free stretch goes: FreeFrom is at least z when, and only      *)
(* when, z bytes from j on are free.                                       *)
LEMMA FreeStretch ==
    ASSUME page_bits \in [E!Pages -> [E!Bytes -> {0, 1}]], NEW i \in E!Pages, NEW j \in E!Bytes,
           page_bits[i][j] = 0
    PROVE  /\ E!FreeFrom(i, j) \in Nat
           /\ \A z \in Nat : E!FreeFrom(i, j) >= z <=>
                j + z <= ElasticPage /\ \A b \in j .. j + z - 1 : page_bits[i][b] = 0
<1>1. ElasticPage \in Nat /\ j \in Nat /\ j < ElasticPage
    BY ElasticAssumption DEF E!Bytes
<1> DEFINE S == {k \in j .. ElasticPage : k = ElasticPage \/ page_bits[i][k] = 1}
<1>2. IsFiniteSet(S) /\ S # {} /\ S \subseteq Int
  <2>1. IsFiniteSet(j .. ElasticPage)
      BY <1>1, FS_Interval
  <2>2. IsFiniteSet(S)
      BY <2>1, FS_Subset
  <2>3. ElasticPage \in S
      BY <1>1
  <2> QED BY <1>1, <2>2, <2>3
<1>3. PICK m : m = E!Min(S)
    OBVIOUS
<1>4. m \in S /\ \A x \in S : m <= x
  <2> HIDE DEF S
  <2> QED BY <1>2, <1>3, MinOf
<1>5. E!FreeFrom(i, j) = m - j
    BY <1>3 DEF E!FreeFrom
<1>6. m \in Int /\ j <= m /\ m <= ElasticPage /\ (m = ElasticPage \/ page_bits[i][m] = 1)
    BY <1>1, <1>4
<1>7. \A b \in j .. m - 1 : page_bits[i][b] = 0
  <2> SUFFICES ASSUME NEW b \in j .. m - 1, page_bits[i][b] # 0 PROVE FALSE
      OBVIOUS
  <2>1. b \in E!Bytes /\ b \in j .. ElasticPage /\ b < m
      BY <1>1, <1>6 DEF E!Bytes
  <2>2. page_bits[i][b] = 1
      BY <2>1
  <2>3. b \in S
      BY <2>1, <2>2
  <2> QED BY <1>4, <1>6, <2>1, <2>3
<1> HIDE DEF S
<1>8. ASSUME NEW z \in Nat, m - j >= z PROVE j + z <= ElasticPage /\ \A b \in j .. j + z - 1 : page_bits[i][b] = 0
  <2>1. j + z <= m
      BY <1>1, <1>6, <1>8
  <2> QED BY <1>1, <1>6, <1>7, <2>1
<1>9. ASSUME NEW z \in Nat, j + z <= ElasticPage, \A b \in j .. j + z - 1 : page_bits[i][b] = 0 PROVE m - j >= z
  <2> SUFFICES ASSUME m - j < z PROVE FALSE
      BY <1>1, <1>6
  <2>1. m \in j .. j + z - 1 /\ m # ElasticPage
      BY <1>1, <1>6, <1>9
  <2> QED BY <1>6, <1>9, <2>1
<1> QED BY <1>1, <1>5, <1>6, <1>8, <1>9

(* The page and the offset alloc chooses exist: among the candidates,      *)
(* those with the shortest stretch, among these the first page, and there  *)
(* the first offset.                                                       *)
LEMMA BestIsCandidate ==
    ASSUME ElasticIInv, NEW z \in Nat, E!Candidates(z) # {}
    PROVE  E!Best(z) \in E!Candidates(z)
<1> DEFINE Cs == E!Candidates(z)
           f(c) == E!FreeFrom(c[1], c[2])
<1>1. ElasticPage \in Nat /\ NPAGES \in Nat /\ page_bits \in [E!Pages -> [E!Bytes -> {0, 1}]]
    BY ElasticAssumption DEF ElasticIInv
<1>2. ASSUME NEW c \in Cs
      PROVE  /\ c \in E!Pages \X E!Bytes /\ c[1] \in Int /\ c[2] \in Int
             /\ c[1] \in 0 .. NPAGES - 1 /\ c[2] \in 0 .. ElasticPage - 1
             /\ f(c) \in 0 .. ElasticPage
  <2>1. c \in E!Pages \X E!Bytes /\ c[2] \in E!Fits(c[1], z)
      BY DEF E!Candidates, E!Fits
  <2>2. c[1] \in E!Pages /\ c[2] \in E!Bytes /\ page_bits[c[1]][c[2]] = 0
      BY <2>1 DEF E!Fits, E!FitsAt
  <2>3. PICK v : v = f(c)
      OBVIOUS
  <2>4. v \in Nat /\ (v >= v => c[2] + v <= ElasticPage)
      BY <1>1, <2>2, <2>3, FreeStretch
  <2>5. c[2] \in 0 .. ElasticPage - 1 /\ c[1] \in 0 .. NPAGES - 1
      BY <2>2 DEF E!Bytes, E!Pages
  <2>6. v \in 0 .. ElasticPage
      BY <1>1, <2>4, <2>5
  <2> QED BY <1>1, <2>1, <2>3, <2>5, <2>6
<1> HIDE DEF Cs, f
<1>3. ASSUME NEW n0 \in Nat, NEW S, S \subseteq 0 .. n0, S # {} PROVE \E m \in S : \A x \in S : m <= x
  <2>1. IsFiniteSet(0 .. n0)
      BY FS_Interval
  <2>2. IsFiniteSet(S)
      BY <1>3, <2>1, FS_Subset
  <2>3. S \subseteq Int
      BY <1>3
  <2> QED BY <1>3, <2>2, <2>3, LeastOf
<1>4. PICK c0 \in Cs : \A d \in Cs : f(c0) <= f(d)
  <2> DEFINE S == {f(c) : c \in Cs}
  <2>1. S \subseteq 0 .. ElasticPage /\ S # {}
      BY <1>2 DEF Cs
  <2>2. \E m \in S : \A x \in S : m <= x
    <3> HIDE DEF S
    <3> QED BY <1>1, <1>3, <2>1
  <2> QED BY <2>2
<1>5. PICK c1 \in Cs : f(c1) = f(c0) /\ \A d \in Cs : f(d) = f(c0) => c1[1] <= d[1]
  <2> DEFINE S == {c[1] : c \in {d \in Cs : f(d) = f(c0)}}
  <2>1. S \subseteq 0 .. NPAGES /\ S # {}
      BY <1>1, <1>2
  <2>2. \E m \in S : \A x \in S : m <= x
    <3> HIDE DEF S
    <3> QED BY <1>1, <1>3, <2>1
  <2> QED BY <2>2
<1>6. PICK c2 \in Cs : f(c2) = f(c0) /\ c2[1] = c1[1] /\ \A d \in Cs : f(d) = f(c0) /\ d[1] = c1[1] => c2[2] <= d[2]
  <2> DEFINE S == {c[2] : c \in {d \in Cs : f(d) = f(c0) /\ d[1] = c1[1]}}
  <2>1. S \subseteq 0 .. ElasticPage /\ S # {}
      BY <1>1, <1>2, <1>5
  <2>2. \E m \in S : \A x \in S : m <= x
    <3> HIDE DEF S
    <3> QED BY <1>1, <1>3, <2>1
  <2> QED BY <2>2
<1>7. ASSUME NEW d \in Cs
      PROVE  f(c2) < f(d) \/ (f(c2) = f(d) /\ (c2[1] < d[1] \/ (c2[1] = d[1] /\ c2[2] <= d[2])))
  <2>1. f(c2) \in Int /\ f(d) \in Int /\ f(c2) <= f(d) /\ c2[1] \in Int /\ d[1] \in Int
      BY <1>2, <1>4, <1>6
  <2>2. f(d) = f(c0) => c2[1] <= d[1] /\ (d[1] = c2[1] => c2[2] <= d[2])
      BY <1>5, <1>6
  <2> QED BY <1>6, <2>1, <2>2
<1>8. \E c \in Cs : \A d \in Cs : f(c) < f(d) \/ (f(c) = f(d) /\ (c[1] < d[1] \/ (c[1] = d[1] /\ c[2] <= d[2])))
    BY <1>6, <1>7
<1>9. \E c \in E!Candidates(z) : \A d \in E!Candidates(z) :
          E!FreeFrom(c[1], c[2]) < E!FreeFrom(d[1], d[2])
          \/ (E!FreeFrom(c[1], c[2]) = E!FreeFrom(d[1], d[2]) /\ (c[1] < d[1] \/ (c[1] = d[1] /\ c[2] <= d[2])))
    BY <1>8 DEF Cs, f
<1> QED BY <1>9 DEF E!Best

(* Before the first init_alloc, and after every reset.                     *)
LEMMA ElasticReset ==
    ASSUME E!Zeroed(page_bits', page_table'), page_start' \in [E!Pages -> {NULL, "page", "MAP_FAILED"}],
           \A i, h \in E!Pages : h < i /\ page_start'[i] # NULL => page_start'[h] # NULL
    PROVE  ElasticIInv'
<1>1. /\ page_bits' \in [E!Pages -> [E!Bytes -> {0, 1}]]
      /\ page_table' \in [E!Pages -> [E!Slots -> ElasticChunk \cup {NULL}]]
      /\ \A i \in E!Pages, k \in E!Slots : page_table'[i][k] = NULL
      /\ \A i \in E!Pages, b \in E!Bytes : page_bits'[i][b] = 0
    BY DEF E!Zeroed
<1>2. \A i \in E!Pages : PageOK(page_bits'[i], page_table'[i])
    BY <1>1 DEF PageOK, Covers
<1>3. MappedFirst'
    BY <1>1 DEF MappedFirst
<1> QED BY <1>1, <1>2, <1>3 DEF ElasticIInv

LEMMA ElasticInit == E!Init => ElasticIInv
<1> SUFFICES ASSUME E!Init PROVE ElasticIInv
    OBVIOUS
<1>1. /\ page_bits \in [E!Pages -> [E!Bytes -> {0, 1}]]
      /\ page_table \in [E!Pages -> [E!Slots -> ElasticChunk \cup {NULL}]]
      /\ \A i \in E!Pages, k \in E!Slots : page_table[i][k] = NULL
      /\ \A i \in E!Pages, b \in E!Bytes : page_bits[i][b] = 0
      /\ page_start = [i \in E!Pages |-> NULL]
    BY DEF E!Init, E!Zeroed
<1>2. \A i \in E!Pages : PageOK(page_bits[i], page_table[i])
    BY <1>1 DEF PageOK, Covers
<1>3. MappedFirst
    BY <1>1 DEF MappedFirst
<1> QED BY <1>1, <1>2, <1>3 DEF ElasticIInv

(* The pages alloc maps continue those that are mapped.                    *)
LEMMA MapsInOrder ==
    ASSUME ElasticIInv, NEW z \in Nat, page_start' \in [E!Pages -> {NULL, "page", "MAP_FAILED"}],
           \A i \in E!Pages : page_start[i] # NULL => page_start'[i] # NULL,
           \A i \in E!Pages : page_start'[i] # NULL => page_start[i] # NULL \/ i \in E!Mapped(z),
           \A i, h \in E!Pages : h < i /\ page_start'[i] # NULL /\ i \in E!Mapped(z) /\ h \in E!Mapped(z) => page_start'[h] # NULL
    PROVE  \A i, h \in E!Pages : h < i /\ page_start'[i] # NULL => page_start'[h] # NULL
<1> SUFFICES ASSUME NEW i \in E!Pages, NEW h \in E!Pages, h < i, page_start'[i] # NULL PROVE page_start'[h] # NULL
    OBVIOUS
<1>1. CASE page_start[i] # NULL
    BY <1>1 DEF ElasticIInv, MappedFirst
<1>2. CASE page_start[i] = NULL /\ page_start[h] = NULL
  <2>1. i \in E!Mapped(z)
      BY <1>2
  <2>2. NPAGES \in Nat /\ i \in Int /\ h \in Int /\ 0 <= h
      BY ElasticAssumption DEF E!Pages
  <2>3. \A x \in 0 .. h - 1 : x \in 0 .. i - 1
      BY <2>2
  <2>4. h \in E!Mapped(z)
      BY <1>2, <2>1, <2>3 DEF E!Mapped
  <2> QED BY <2>1, <2>4
<1> QED BY <1>1, <1>2

(* alloc that books nothing.                                               *)
LEMMA ElasticMaps ==
    ASSUME ElasticIInv, NEW z \in Nat, UNCHANGED <<page_bits, page_table>>,
           page_start' \in [E!Pages -> {NULL, "page", "MAP_FAILED"}],
           \A i, h \in E!Pages : h < i /\ page_start'[i] # NULL => page_start'[h] # NULL,
           \A i \in E!Pages : page_start[i] # NULL => page_start'[i] # NULL
    PROVE  ElasticIInv'
<1>1. MappedFirst'
    BY DEF ElasticIInv, MappedFirst
<1> QED BY <1>1 DEF ElasticIInv

(* What Mmap does to page_start.                                           *)
LEMMA MmapMaps ==
    ASSUME ElasticIInv, NEW z \in Nat, E!Mmap(z)
    PROVE  /\ page_start' \in [E!Pages -> {NULL, "page", "MAP_FAILED"}]
           /\ \A i \in E!Pages : page_start[i] # NULL => page_start'[i] # NULL
           /\ \A i \in E!Pages : i \in E!Mapped(z) => page_start'[i] # NULL
           /\ \A i, h \in E!Pages : h < i /\ page_start'[i] # NULL => page_start'[h] # NULL
<1>1. page_start \in [E!Pages -> {NULL, "page", "MAP_FAILED"}] /\ NULL # "page"
    BY ElasticAssumption DEF ElasticIInv, MappedFirst
<1>2. page_start' = [i \in E!Pages |-> IF i \in E!Mapped(z) THEN "page" ELSE page_start[i]]
    BY DEF E!Mmap
<1>3. /\ page_start' \in [E!Pages -> {NULL, "page", "MAP_FAILED"}]
      /\ \A i \in E!Pages : page_start'[i] = IF i \in E!Mapped(z) THEN "page" ELSE page_start[i]
    BY <1>1, <1>2
<1> QED BY <1>1, <1>3, MapsInOrder

(* A positive multiple of the granule is at least a granule.               *)
LEMMA ElasticGranules ==
    ASSUME NEW z \in Nat, z > 0, z % ElasticMin = 0 PROVE z >= ElasticMin
<1>1. ElasticMin \in Nat /\ ElasticMin > 0
    BY ElasticAssumption
<1> SUFFICES ASSUME z < ElasticMin PROVE FALSE
    BY <1>1
<1>2. z % ElasticMin = z
    BY <1>1
<1> QED BY <1>2

(* alloc books bytes that were free, in a page that is mapped now.         *)
LEMMA ElasticBooks ==
    ASSUME ElasticIInv, NEW z \in Nat, z > 0, E!alloc(z)
    PROVE  ElasticIInv'
<1>1. z % ElasticMin = 0 /\ E!Candidates(z) # {} /\ E!Mmap(z)
    BY DEF E!alloc
<1>2. z >= ElasticMin
    BY <1>1, ElasticGranules
<1>3. PICK c : c = E!Best(z) /\ c \in E!Candidates(z)
    BY <1>1, BestIsCandidate
<1>4. PICK i \in E!Pages, j \in E!Bytes : i = c[1] /\ j = c[2] /\ j \in E!Fits(i, z) /\ (page_start[i] # NULL \/ i \in E!Mapped(z))
    BY <1>3 DEF E!Candidates, E!Fits
<1>5. PICK bits, tab : bits = page_bits[i] /\ tab = page_table[i] /\ PageOK(bits, tab)
    BY DEF ElasticIInv
<1>6. page_bits[i][j] = 0 /\ E!FreeFrom(i, j) >= z
    BY <1>4 DEF E!Fits, E!FitsAt
<1>7. j + z <= ElasticPage /\ \A b \in j .. j + z - 1 : bits[b] = 0
    BY <1>5, <1>6, FreeStretch DEF ElasticIInv
<1>8. \E k \in E!Slots : tab[k] = NULL
    BY <1>2, <1>5, <1>7, SlotForRoom
<1> DEFINE S == {s \in E!Slots : page_table[i][s] = NULL}
<1>9. PICK k : k = E!Min(S)
    OBVIOUS
<1>10. k \in S
  <2>1. ElasticPage \div ElasticMin \in Nat
      BY ElasticAssumption
  <2>2. IsFiniteSet(E!Slots) /\ E!Slots \subseteq Int
    <3>1. PICK q \in Nat : q = ElasticPage \div ElasticMin
        BY <2>1
    <3>2. E!Slots = 0 .. q - 1
        BY <3>1 DEF E!Slots
    <3>3. IsFiniteSet(0 .. q - 1)
        BY <3>1, FS_Interval
    <3> QED BY <3>1, <3>2, <3>3
  <2>3. IsFiniteSet(S) /\ S \subseteq Int
      BY <2>2, FS_Subset
  <2>4. S # {}
      BY <1>5, <1>8
  <2> HIDE DEF S
  <2> QED BY <1>9, <2>3, <2>4, MinOf
<1>11. k \in E!Slots /\ tab[k] = NULL
    BY <1>5, <1>10
<1> DEFINE bits2 == [b \in E!Bytes |-> IF b \in j .. j + z - 1 THEN 1 ELSE bits[b]]
           tab2 == [tab EXCEPT ![k] = [addr |-> j, length |-> z]]
<1>12. PageOK(bits2, tab2)
    BY <1>2, <1>5, <1>7, <1>11, PageBook
<1>13. /\ page_bits' = [page_bits EXCEPT ![i] = bits2]
       /\ page_table' = [page_table EXCEPT ![i] = tab2]
    BY <1>3, <1>4, <1>5, <1>9 DEF E!alloc
<1> HIDE DEF bits2, tab2
<1>14. page_bits \in [E!Pages -> [E!Bytes -> {0, 1}]] /\ page_table \in [E!Pages -> [E!Slots -> ElasticChunk \cup {NULL}]]
    BY DEF ElasticIInv
<1>15. bits2 \in [E!Bytes -> {0, 1}] /\ tab2 \in [E!Slots -> ElasticChunk \cup {NULL}]
    BY <1>12 DEF PageOK
<1>16. /\ page_bits' \in [E!Pages -> [E!Bytes -> {0, 1}]] /\ page_table' \in [E!Pages -> [E!Slots -> ElasticChunk \cup {NULL}]]
       /\ page_bits'[i] = bits2 /\ page_table'[i] = tab2
       /\ \A h \in E!Pages : h # i => page_bits'[h] = page_bits[h] /\ page_table'[h] = page_table[h]
    BY <1>13, <1>14, <1>15
<1>17. \A h \in E!Pages : PageOK(page_bits'[h], page_table'[h])
    BY <1>12, <1>16 DEF ElasticIInv
<1>18. page_start'[i] # NULL
    BY <1>1, <1>4, MmapMaps
<1>19. MappedFirst'
  <2>1. /\ page_start' \in [E!Pages -> {NULL, "page", "MAP_FAILED"}]
        /\ \A x, h \in E!Pages : h < x /\ page_start'[x] # NULL => page_start'[h] # NULL
        /\ \A x \in E!Pages : page_start[x] # NULL => page_start'[x] # NULL
      BY <1>1, MmapMaps
  <2>2. \A x \in E!Pages : page_start'[x] = NULL => \A s \in E!Slots : page_table'[x][s] = NULL
      BY <1>16, <1>18, <2>1 DEF ElasticIInv, MappedFirst
  <2> QED BY <2>1, <2>2 DEF MappedFirst
<1> QED BY <1>16, <1>17, <1>19 DEF ElasticIInv

(* dealloc gives back the bytes of one chunk.                              *)
LEMMA ElasticFrees ==
    ASSUME ElasticIInv, NEW i \in E!Pages, NEW k \in E!Slots, E!dealloc(i, k)
    PROVE  ElasticIInv'
<1>1. PICK bits, tab : bits = page_bits[i] /\ tab = page_table[i] /\ PageOK(bits, tab) /\ tab[k] # NULL
    BY DEF ElasticIInv, E!dealloc, E!Release
<1> DEFINE bits2 == [b \in E!Bytes |-> IF b \in tab[k].addr .. tab[k].addr + tab[k].length - 1 THEN 0 ELSE bits[b]]
           tab2 == [tab EXCEPT ![k] = NULL]
<1>2. PageOK(bits2, tab2)
    BY <1>1, PageFree
<1>3. page_bits \in [E!Pages -> [E!Bytes -> {0, 1}]] /\ page_table \in [E!Pages -> [E!Slots -> ElasticChunk \cup {NULL}]]
    BY DEF ElasticIInv
<1>4. /\ page_bits' = [page_bits EXCEPT ![i] = bits2]
      /\ page_table' = [page_table EXCEPT ![i] = tab2]
      /\ page_start' = page_start
    BY <1>1 DEF E!dealloc, E!Release
<1> HIDE DEF bits2, tab2
<1>5. bits2 \in [E!Bytes -> {0, 1}] /\ tab2 \in [E!Slots -> ElasticChunk \cup {NULL}]
    BY <1>2 DEF PageOK
<1>6. /\ page_bits' \in [E!Pages -> [E!Bytes -> {0, 1}]] /\ page_table' \in [E!Pages -> [E!Slots -> ElasticChunk \cup {NULL}]]
      /\ page_bits'[i] = bits2 /\ page_table'[i] = tab2
      /\ \A h \in E!Pages : h # i => page_bits'[h] = page_bits[h] /\ page_table'[h] = page_table[h]
    BY <1>3, <1>4, <1>5
<1>7. \A h \in E!Pages : PageOK(page_bits'[h], page_table'[h])
    BY <1>2, <1>6 DEF ElasticIInv
<1>8. page_start[i] # NULL
    BY <1>1 DEF ElasticIInv, MappedFirst
<1>9. MappedFirst'
    BY <1>4, <1>6, <1>8 DEF ElasticIInv, MappedFirst
<1> QED BY <1>6, <1>7, <1>9 DEF ElasticIInv

(* Every step of the elastic allocator, for programs that ask for          *)
(* something.                                                              *)
LEMMA ElasticStep ==
    ASSUME 0 \notin ElasticSizes
    PROVE  ElasticIInv /\ [E!Next]_E!evars => ElasticIInv'
<1> SUFFICES ASSUME ElasticIInv, [E!Next]_E!evars PROVE ElasticIInv'
    OBVIOUS
<1>0. \A z \in ElasticSizes : z \in Nat /\ z > 0
    BY ElasticAssumption
<1>1. page_start \in [E!Pages -> {NULL, "page", "MAP_FAILED"}]
      /\ \A i, h \in E!Pages : h < i /\ page_start[i] # NULL => page_start[h] # NULL
    BY DEF ElasticIInv, MappedFirst
<1>2. CASE E!init_alloc
    BY <1>2, ElasticReset DEF E!init_alloc
<1>3. CASE E!cleanup
    BY <1>1, <1>3, ElasticReset DEF E!cleanup
<1>4. ASSUME UNCHANGED <<page_start, page_bits, page_table>> PROVE ElasticIInv'
    BY <1>4 DEF ElasticIInv, MappedFirst
<1>5. ASSUME NEW z \in ElasticSizes, E!alloc_ragged(z) PROVE ElasticIInv'
    BY <1>4, <1>5 DEF E!alloc_ragged
<1>6. ASSUME NEW z \in ElasticSizes, E!alloc_mmap_fails(z) PROVE ElasticIInv'
  <2>1. PICK m \in E!Mapped(z) :
           page_start' = [i \in E!Pages |-> IF i = m THEN "MAP_FAILED"
                            ELSE IF i \in E!Mapped(z) /\ i < m THEN "page" ELSE page_start[i]]
      BY <1>6 DEF E!alloc_mmap_fails
  <2>2. /\ page_start' \in [E!Pages -> {NULL, "page", "MAP_FAILED"}]
        /\ \A i \in E!Pages : page_start'[i] = IF i = m THEN "MAP_FAILED"
                            ELSE IF i \in E!Mapped(z) /\ i < m THEN "page" ELSE page_start[i]
      BY <1>1, <2>1
  <2>3. m \in E!Pages /\ NULL # "page" /\ NULL # "MAP_FAILED"
      BY ElasticAssumption DEF E!Mapped
  <2>4. \A i \in E!Pages : page_start[i] # NULL => page_start'[i] # NULL
      BY <2>2, <2>3
  <2>5. \A i \in E!Pages : page_start'[i] # NULL => page_start[i] # NULL \/ i \in E!Mapped(z)
      BY <2>2
  <2>6. \A i, h \in E!Pages : h < i /\ page_start'[i] # NULL /\ i \in E!Mapped(z) /\ h \in E!Mapped(z) => page_start'[h] # NULL
    <3> SUFFICES ASSUME NEW i \in E!Pages, NEW h \in E!Pages, h < i, page_start'[i] # NULL,
                        i \in E!Mapped(z), h \in E!Mapped(z)
                 PROVE  page_start'[h] # NULL
        OBVIOUS
    <3>1. i \in Int /\ h \in Int /\ m \in Int
        BY <2>3, ElasticAssumption DEF E!Pages
    <3>2. i = m \/ i < m
        BY <2>2 DEF E!Mapped
    <3>3. h < m
        BY <3>1, <3>2
    <3> QED BY <2>2, <2>3, <3>1, <3>3
  <2>7. \A i, h \in E!Pages : h < i /\ page_start'[i] # NULL => page_start'[h] # NULL
      BY <1>0, <2>2, <2>4, <2>5, <2>6, MapsInOrder
  <2> QED BY <1>0, <1>6, <2>2, <2>4, <2>7, ElasticMaps DEF E!alloc_mmap_fails
<1>7. ASSUME NEW z \in ElasticSizes, E!alloc_full(z) PROVE ElasticIInv'
  <2>1. z \in Nat /\ E!Mmap(z) /\ UNCHANGED <<page_bits, page_table>>
      BY <1>0, <1>7 DEF E!alloc_full
  <2>2. /\ page_start' \in [E!Pages -> {NULL, "page", "MAP_FAILED"}]
        /\ \A i \in E!Pages : page_start[i] # NULL => page_start'[i] # NULL
        /\ \A i, h \in E!Pages : h < i /\ page_start'[i] # NULL => page_start'[h] # NULL
      BY <2>1, MmapMaps
  <2> QED BY <2>1, <2>2, ElasticMaps
<1>8. ASSUME NEW z \in ElasticSizes, E!alloc(z) PROVE ElasticIInv'
    BY <1>0, <1>8, ElasticBooks
<1>9. ASSUME NEW i \in E!Pages, NEW k \in E!Slots, E!dealloc(i, k) PROVE ElasticIInv'
    BY <1>9, ElasticFrees
<1>10. CASE UNCHANGED E!evars
    BY <1>4, <1>10 DEF E!evars
<1> QED BY <1>2, <1>3, <1>5, <1>6, <1>7, <1>8, <1>9, <1>10 DEF E!Next

(* What Fits means for the bytes of a page.                                *)
LEMMA FitsIsRoom ==
    ASSUME ElasticIInv, NEW i \in E!Pages, NEW z \in Nat, z > 0
    PROVE  E!Fits(i, z) = {} <=> E!NoRoom(i, z)
<1>1. page_bits \in [E!Pages -> [E!Bytes -> {0, 1}]] /\ ElasticPage \in Nat
    BY ElasticAssumption DEF ElasticIInv
<1>2. ASSUME NEW j \in E!Bytes
      PROVE  j \in E!Fits(i, z) <=> ~\E b \in j .. j + z - 1 : b >= ElasticPage \/ page_bits[i][b] = 1
  <2>1. j \in Int /\ 0 <= j /\ j < ElasticPage
      BY <1>1 DEF E!Bytes
  <2>2. j \in E!Fits(i, z) <=> page_bits[i][j] = 0 /\ j + z <= ElasticPage /\ \A b \in j .. j + z - 1 : page_bits[i][b] = 0
      BY <1>1, FreeStretch DEF E!Fits, E!FitsAt
  <2>3. ASSUME j + z <= ElasticPage, \A b \in j .. j + z - 1 : page_bits[i][b] = 0
        PROVE  ~\E b \in j .. j + z - 1 : b >= ElasticPage \/ page_bits[i][b] = 1
      BY <1>1, <2>1, <2>3
  <2>4. ASSUME \A b \in j .. j + z - 1 : ~(b >= ElasticPage) /\ page_bits[i][b] # 1
        PROVE  j + z <= ElasticPage /\ page_bits[i][j] = 0 /\ \A b \in j .. j + z - 1 : page_bits[i][b] = 0
    <3>1. j \in j .. j + z - 1 /\ j + z - 1 \in j .. j + z - 1
        BY <2>1
    <3>0. ~(j + z - 1 >= ElasticPage)
        BY <2>4, <3>1
    <3>2. j + z <= ElasticPage
        BY ONLY <1>1, <2>1, <3>0, z \in Nat
    <3>3. \A b \in j .. j + z - 1 : b \in E!Bytes
        BY <1>1, <2>1, <3>2 DEF E!Bytes
    <3> QED BY <1>1, <2>4, <3>1, <3>2, <3>3
  <2> QED BY <2>2, <2>3, <2>4
<1>3. E!Fits(i, z) \subseteq E!Bytes
    BY DEF E!Fits, E!FitsAt
<1> QED BY <1>2, <1>3 DEF E!NoRoom

(* The instance counts as FiniteSets does.                                 *)
LEMMA ElasticCounts == \A S : E!Cardinality(S) = Cardinality(S)
BY Zenon DEF E!Cardinality, Cardinality

(* A byte of a page is marked as used exactly when one chunk of the page's *)
(* table has it, and chunks lie in mapped pages, after any sequence of     *)
(* allocs and deallocs and whichever mmap fails (EallocBytesMatchChunks);  *)
(* programs ask for at least one byte.                                     *)
THEOREM ElasticBooksAgree ==
    ASSUME 0 \notin ElasticSizes
    PROVE  E!Spec => []EallocBytesMatchChunks
<1>1. ElasticIInv => EallocBytesMatchChunks
  <2> SUFFICES ASSUME ElasticIInv PROVE EallocBytesMatchChunks
      OBVIOUS
  <2>1. E!ChunksAreMapped
    <3> SUFFICES ASSUME "MAP_FAILED" \notin {page_start[i] : i \in E!Pages},
                        NEW i \in E!Pages, NEW k \in E!Slots, page_table[i][k] # NULL
                 PROVE  page_start[i] = "page" /\ page_table[i][k].addr + page_table[i][k].length <= ElasticPage
        BY DEF E!ChunksAreMapped
    <3>1. page_start[i] \in {NULL, "page", "MAP_FAILED"} /\ page_start[i] # NULL /\ page_start[i] # "MAP_FAILED"
        BY DEF ElasticIInv, MappedFirst
    <3>2. page_table[i][k].addr + page_table[i][k].length <= ElasticPage
        BY DEF ElasticIInv, PageOK
    <3> QED BY <3>1, <3>2
  <2>2. ASSUME NEW i \in E!Pages, NEW b \in E!Bytes PROVE Cardinality(E!Covering(i, b)) = page_bits[i][b]
    <3>1. PICK bits, tab : bits = page_bits[i] /\ tab = page_table[i] /\ PageOK(bits, tab)
        BY DEF ElasticIInv
    <3>2. b \in Int /\ \A k \in E!Slots : tab[k] # NULL => tab[k].addr \in Int /\ tab[k].length \in Int
        BY <3>1, ElasticAssumption DEF PageOK, ElasticChunk, E!Bytes
    <3>3. E!Covering(i, b) = {k \in E!Slots : Covers(tab, k, b)}
      <4>1. \A k \in E!Slots : k \in E!Covering(i, b) <=> Covers(tab, k, b)
          BY <3>1, <3>2 DEF E!Covering, Covers
      <4>2. E!Covering(i, b) \subseteq E!Slots
          BY DEF E!Covering
      <4> QED BY <4>1, <4>2
    <3>4. CASE bits[b] = 1
      <4>1. PICK k \in E!Slots : Covers(tab, k, b)
          BY <3>1, <3>4 DEF PageOK
      <4>2. E!Covering(i, b) = {k}
          BY <3>1, <3>3, <4>1 DEF PageOK
      <4> QED BY <3>1, <3>4, <4>2, FS_Singleton
    <3>5. CASE bits[b] = 0
      <4>1. E!Covering(i, b) = {}
          BY <3>1, <3>3, <3>5 DEF PageOK
      <4> QED BY <3>1, <3>5, <4>1, FS_EmptySet
    <3> QED BY <3>1, <3>4, <3>5 DEF PageOK
  <2>3. \A i \in E!Pages, b \in E!Bytes : E!Cardinality(E!Covering(i, b)) = page_bits[i][b]
      BY <2>2, ElasticCounts
  <2> QED BY <2>1, <2>3 DEF EallocBytesMatchChunks, E!BytesMatchChunks
<1> QED BY <1>1, ElasticInit, ElasticStep, PTL DEF E!Spec

(* While a page is not mapped, a request that is not longer than a page    *)
(* has a candidate: the first such page, if not one before it.             *)
LEMMA PageLeftToMap ==
    ASSUME ElasticIInv, NEW z \in Nat, z > 0, z <= ElasticPage, E!Candidates(z) = {}, NEW i \in E!Pages
    PROVE  page_start[i] # NULL
<1> SUFFICES ASSUME page_start[i] = NULL PROVE FALSE
    OBVIOUS
<1>1. NPAGES \in Nat /\ ElasticPage \in Nat /\ ElasticPage > 0 /\ page_bits \in [E!Pages -> [E!Bytes -> {0, 1}]]
    BY ElasticAssumption DEF ElasticIInv
<1> DEFINE S == {x \in E!Pages : page_start[x] = NULL}
<1>2. PICK m \in S : \A x \in S : m <= x
  <2>1. IsFiniteSet(E!Pages) /\ E!Pages \subseteq Int
      BY <1>1, FS_Interval DEF E!Pages
  <2>2. IsFiniteSet(S) /\ S \subseteq Int /\ S # {}
      BY <2>1, FS_Subset
  <2> HIDE DEF S
  <2> QED BY <2>2, LeastOf
<1>3. m \in E!Pages /\ m \in Int /\ page_start[m] = NULL /\ m < NPAGES
    BY <1>1 DEF E!Pages
<1>4. \A h \in 0 .. m - 1 : h \in E!Pages /\ page_start[h] # NULL
  <2> SUFFICES ASSUME NEW h \in 0 .. m - 1 PROVE h \in E!Pages /\ page_start[h] # NULL
      OBVIOUS
  <2>1. h \in E!Pages /\ h \in Int /\ ~(m <= h)
      BY <1>1, <1>3 DEF E!Pages
  <2> QED BY <1>2, <2>1
<1>5. \A h \in 0 .. m - 1 : E!Fits(h, z) = {}
  <2> SUFFICES ASSUME NEW h \in 0 .. m - 1, NEW j \in E!Fits(h, z) PROVE FALSE
      OBVIOUS
  <2>1. h \in E!Pages /\ j \in E!Bytes /\ page_start[h] # NULL
      BY <1>4 DEF E!Fits, E!FitsAt
  <2>2. <<h, j>> \in E!Candidates(z)
      BY <2>1 DEF E!Candidates, E!Fits
  <2> QED BY <2>2
<1>6. m \in E!Mapped(z)
    BY <1>3, <1>5 DEF E!Mapped
<1>7. \A b \in E!Bytes : page_bits[m][b] = 0
    BY <1>1, <1>3 DEF ElasticIInv, MappedFirst, PageOK, Covers
<1>8. 0 \in E!Bytes
    BY <1>1 DEF E!Bytes
<1>9. \A b \in 0 .. 0 + z - 1 : b \in E!Bytes
    BY <1>1 DEF E!Bytes
<1>10. E!FreeFrom(m, 0) >= z
    BY <1>1, <1>3, <1>7, <1>8, <1>9, FreeStretch
<1>11. 0 \in E!Fits(m, z)
    BY <1>7, <1>8, <1>10 DEF E!Fits, E!FitsAt
<1>12. <<m, 0>> \in E!Candidates(z)
    BY <1>3, <1>6, <1>8, <1>11 DEF E!Candidates, E!Fits
<1> QED BY <1>12

(* When a page is mapped, no mapped page has room.                         *)
LEMMA MappedIsFull ==
    ASSUME ElasticIInv, NEW z \in Nat, z > 0, NEW n0 \in E!Mapped(z), NEW i \in E!Pages, page_start[i] # NULL
    PROVE  E!NoRoom(i, z)
<1>1. n0 \in E!Pages /\ page_start[n0] = NULL /\ \A h \in 0 .. n0 - 1 : E!Fits(h, z) = {}
    BY DEF E!Mapped
<1>2. n0 \in Int /\ i \in Int /\ 0 <= i
    BY <1>1, ElasticAssumption DEF E!Pages
<1>3. i < n0
    BY <1>1, <1>2 DEF ElasticIInv, MappedFirst
<1>4. E!Fits(i, z) = {}
    BY <1>1, <1>2, <1>3
<1> QED BY <1>4, FitsIsRoom

(* A page is mapped only when no mapped page has room for the request, and *)
(* alloc refuses whole granules only when they are more than a page or     *)
(* every page is mapped and has no room (EallocGrowsOnlyWhenFull);         *)
(* programs ask for at least one byte.                                     *)
THEOREM ElasticGrowsLast ==
    ASSUME 0 \notin ElasticSizes
    PROVE  E!Spec => EallocGrowsOnlyWhenFull
<1>0. ASSUME NEW z \in ElasticSizes PROVE z \in Nat /\ z > 0
  <2>1. z \in Nat /\ z # 0
      BY ElasticAssumption
  <2> QED BY <2>1
<1>1. ASSUME ElasticIInv, NEW z \in ElasticSizes, E!alloc_full(z), ~(z > ElasticPage), NEW i \in E!Pages
      PROVE  page_start[i] # NULL /\ E!NoRoom(i, z)
  <2>1. E!Candidates(z) = {} /\ z \in Nat /\ z > 0 /\ ElasticPage \in Nat
      BY <1>0, <1>1, ElasticAssumption DEF E!alloc_full
  <2>2. page_start[i] # NULL
      BY <1>1, <2>1, PageLeftToMap
  <2>3. E!Fits(i, z) = {}
    <3> SUFFICES ASSUME NEW j \in E!Fits(i, z) PROVE FALSE
        OBVIOUS
    <3>1. j \in E!Bytes
        BY DEF E!Fits, E!FitsAt
    <3>2. <<i, j>> \in E!Candidates(z)
        BY <1>1, <2>2, <3>1 DEF E!Candidates, E!Fits
    <3> QED BY <2>1, <3>2
  <2> QED BY <1>1, <2>1, <2>2, <2>3, FitsIsRoom
<1>2. ASSUME ElasticIInv, [E!Next]_E!evars, ready, ready', page_start' # page_start
      PROVE  \E z \in ElasticSizes :
                /\ E!alloc(z) \/ E!alloc_full(z) \/ E!alloc_mmap_fails(z)
                /\ \A i \in E!Pages : page_start[i] # NULL => E!NoRoom(i, z)
  <2>1. PICK z \in ElasticSizes : E!alloc(z) \/ E!alloc_full(z) \/ E!alloc_mmap_fails(z)
      BY <1>2 DEF E!Next, E!evars, E!init_alloc, E!cleanup, E!alloc_ragged, E!dealloc, E!Release
  <2>2. page_start \in [E!Pages -> {NULL, "page", "MAP_FAILED"}]
      BY <1>2 DEF ElasticIInv, MappedFirst
  <2>3. E!Mapped(z) # {}
    <3>1. CASE E!alloc_mmap_fails(z)
        BY <3>1 DEF E!alloc_mmap_fails
    <3>2. CASE E!Mmap(z)
      <4>1. page_start' = [i \in E!Pages |-> IF i \in E!Mapped(z) THEN "page" ELSE page_start[i]]
          BY <3>2 DEF E!Mmap
      <4> QED BY <1>2, <2>2, <4>1
    <3> QED BY <2>1, <3>1, <3>2 DEF E!alloc, E!alloc_full
  <2> QED BY <1>0, <1>2, <2>1, <2>3, MappedIsFull
<1>3. ASSUME ElasticIInv, E!Next PROVE E!RefusedForGood'
  <2>1. CASE refused' = NULL
      BY <2>1 DEF E!RefusedForGood
  <2>2. ASSUME NEW z \in ElasticSizes, E!alloc_full(z) PROVE E!RefusedForGood'
    <3>1. refused' = z /\ page_bits' = page_bits /\ E!Mmap(z) /\ z \in Nat
        BY <1>0, <2>2 DEF E!alloc_full
    <3>2. CASE z > ElasticPage
        BY <3>1, <3>2 DEF E!RefusedForGood
    <3>3. CASE ~(z > ElasticPage)
      <4>1. \A i \in E!Pages : page_start[i] # NULL /\ E!NoRoom(i, z)
          BY <1>1, <1>3, <2>2, <3>3
      <4>2. \A i \in E!Pages : page_start'[i] # NULL
          BY <1>3, <3>1, <4>1, MmapMaps
      <4>3. ASSUME NEW i \in E!Pages PROVE E!NoRoom(i, refused)'
        <5>1. \A j \in E!Bytes : \E b \in j .. j + z - 1 : b >= ElasticPage \/ page_bits[i][b] = 1
            BY <4>1 DEF E!NoRoom
        <5> QED BY <3>1, <5>1 DEF E!NoRoom
      <4> QED BY <4>2, <4>3 DEF E!RefusedForGood
    <3> QED BY <3>2, <3>3
  <2>3. \/ refused' = NULL
        \/ \E z \in ElasticSizes : E!alloc_full(z)
      BY <1>3 DEF E!Next, E!init_alloc, E!cleanup, E!alloc_ragged, E!alloc_mmap_fails, E!alloc, E!dealloc, E!Release
  <2> QED BY <2>1, <2>2, <2>3
<1>4. ElasticIInv /\ [E!Next]_E!evars => [E!Grows]_E!evars
    BY <1>2, <1>3 DEF E!Grows
<1> QED BY <1>4, ElasticInit, ElasticStep, PTL DEF E!Spec, EallocGrowsOnlyWhenFull, E!GrowsOnlyWhenFull

----------------------------------------------------------------------------
(* File contents.  A file has the places 0 to NDIRECT in its inode, the    *)
(* last of which is the indirect block, and one place per entry of that.   *)
(* A are the block numbers of all inodes, D the disk and V the bitmap.     *)
Places == 0 .. NDIRECT + NINDIRECT

Ref(A, D, i, k) ==
    IF k <= NDIRECT THEN A[i][k]
    ELSE IF A[i][NDIRECT] = 0 THEN 0 ELSE D[A[i][NDIRECT]][k - NDIRECT - 1]

(* The place of the block number of block bn of a file.                    *)
PlaceOf(bn) == IF bn < NDIRECT THEN bn ELSE bn + 1

Inode == [0 .. NDIRECT -> F!Blocks \cup {0}]
Contents == [F!Blocks -> [F!Positions -> Int]]

DiskTypes(A, D, V) == A \in [Files -> Inode] /\ D \in Contents /\ V \subseteq F!Blocks

(* Every block that is marked is at one place, and no other is at any.     *)
Owned(A, D, V) ==
    /\ DiskTypes(A, D, V)
    /\ \A i \in Files, k \in Places : Ref(A, D, i, k) \in V \cup {0}
    /\ \A i, j \in Files, k, m \in Places : Ref(A, D, i, k) = Ref(A, D, j, m) /\ Ref(A, D, i, k) # 0 => i = j /\ k = m
    /\ \A b \in V : \E i \in Files, k \in Places : Ref(A, D, i, k) = b

(* The writes that processes are in.                                       *)
Write(w) ==
    /\ w = [file |-> w.file, n |-> w.n, v |-> w.v] /\ w.file \in Files
    /\ w.n \in Nat \ {0} /\ w.v \in FileVals[w.file] /\ \E m \in FileSizes[w.file] : w.n <= m

Writes == todo = [p \in Procs |-> todo[p]] /\ \A p \in Procs : todo[p] # NONE => Write(todo[p])

(* A file of size z[i] has a block for every unit, and its offset is       *)
(* inside.                                                                 *)
Reached(A, D, z, o) ==
    /\ z \in [Files -> Nat] /\ o \in [Files -> Nat]
    /\ \A i \in Files : z[i] <= (NDIRECT + NINDIRECT) * BSIZE /\ o[i] <= z[i]
    /\ \A i \in Files : \A u \in 0 .. z[i] - 1 : Ref(A, D, i, PlaceOf(u \div BSIZE)) # 0

(* The inductive invariant of file contents: blocks have one owner, and a  *)
(* file has a block for every unit up to its size.                         *)
FileIInv == Owned(addrs, disk, used) /\ Reached(addrs, disk, isize, off) /\ Writes

(* The constants are numbers.                                              *)
LEMMA FileNumbers ==
    /\ NDIRECT \in Nat /\ NINDIRECT \in Nat /\ NBLOCKS \in Nat /\ BSIZE \in Nat /\ BSIZE > 0
    /\ MAXOPBLOCKS \in Nat /\ MAXOPBLOCKS >= 6
    /\ F!Blocks = 1 .. NBLOCKS /\ 0 \notin F!Blocks /\ F!Blocks \subseteq Nat /\ IsFiniteSet(F!Blocks)
<1>1. NBLOCKS \in Nat
    BY FileAssumption
<1>2. IsFiniteSet(F!Blocks)
    BY <1>1, FS_Interval DEF F!Blocks
<1> QED BY <1>1, <1>2, FileAssumption DEF F!Blocks

(* The least and the greatest of two, and the ends of an interval.         *)
LEMMA MaxOfTwo ==
    ASSUME NEW a \in Int, NEW b \in Int
    PROVE  F!Max({a, b}) = (IF a >= b THEN a ELSE b) /\ F!Min({a, b}) = IF a <= b THEN a ELSE b
<1>1. F!Max({a, b}) = IF a >= b THEN a ELSE b
  <2>1. \E x \in {a, b} : \A y \in {a, b} : x >= y
      OBVIOUS
  <2>2. F!Max({a, b}) \in {a, b} /\ \A y \in {a, b} : F!Max({a, b}) >= y
      BY <2>1 DEF F!Max
  <2> QED BY <2>2
<1>2. F!Min({a, b}) = IF a <= b THEN a ELSE b
  <2>1. \E x \in {a, b} : \A y \in {a, b} : x <= y
      OBVIOUS
  <2>2. F!Min({a, b}) \in {a, b} /\ \A y \in {a, b} : F!Min({a, b}) <= y
      BY <2>1 DEF F!Min
  <2> QED BY <2>2
<1> QED BY <1>1, <1>2

LEMMA EndsOf ==
    ASSUME NEW a \in Int, NEW b \in Int, a <= b
    PROVE  F!Min(a .. b) = a /\ F!Max(a .. b) = b
<1>1. F!Min(a .. b) = a
  <2>1. \E x \in a .. b : \A y \in a .. b : x <= y
      OBVIOUS
  <2>2. F!Min(a .. b) \in a .. b /\ \A y \in a .. b : F!Min(a .. b) <= y
      BY <2>1 DEF F!Min
  <2> QED BY <2>2
<1>2. F!Max(a .. b) = b
  <2>1. \E x \in a .. b : \A y \in a .. b : x >= y
      OBVIOUS
  <2>2. F!Max(a .. b) \in a .. b /\ \A y \in a .. b : F!Max(a .. b) >= y
      BY <2>1 DEF F!Max
  <2> QED BY <2>2
<1> QED BY <1>1, <1>2

(* A block has a position for every unit and for every entry.              *)
LEMMA PositionsThere ==
    /\ \A k \in 0 .. NINDIRECT - 1 : k \in F!Positions
    /\ \A u \in Nat : u % BSIZE \in F!Positions
    /\ F!Zeroed \in [F!Positions -> Int] /\ \A k \in F!Positions : F!Zeroed[k] = 0
<1>1. PICK m \in Nat : m = F!Max({BSIZE, NINDIRECT}) /\ m >= BSIZE /\ m >= NINDIRECT
    BY FileNumbers, MaxOfTwo
<1>2. F!Positions = 0 .. m - 1
    BY <1>1 DEF F!Positions
<1>3. \A u \in Nat : u % BSIZE \in 0 .. BSIZE - 1
    BY FileNumbers
<1>4. \A u \in Nat : u % BSIZE \in F!Positions
    BY <1>1, <1>2, <1>3, FileNumbers
<1>5. \A k \in 0 .. NINDIRECT - 1 : k \in F!Positions
    BY <1>1, <1>2, FileNumbers
<1>6. F!Zeroed \in [F!Positions -> Int] /\ \A k \in F!Positions : F!Zeroed[k] = 0
    BY DEF F!Zeroed
<1> QED BY <1>4, <1>5, <1>6

(* The first free block is a free one.                                     *)
LEMMA BallocFinds ==
    ASSUME NEW s, s.used \subseteq F!Blocks, s.used # F!Blocks
    PROVE  F!New(s) \in F!Blocks \ s.used
<1> DEFINE S == F!Blocks \ s.used
<1>0. S \subseteq Int
    BY FileNumbers
<1>1. S \subseteq Int /\ S # {}
    BY <1>0
<1>2. IsFiniteSet(S)
    BY FileNumbers, FS_Subset
<1>3. \E m \in S : \A x \in S : m <= x
  <2> HIDE DEF S
  <2> QED BY <1>1, <1>2, LeastOf
<1> QED BY <1>3 DEF F!New, F!Min

(* A block that is put at an empty place.                                  *)
LEMMA OwnedAdd ==
    ASSUME NEW A, NEW D, NEW V, Owned(A, D, V), NEW A2, NEW D2, NEW b \in F!Blocks \ V, DiskTypes(A2, D2, V \cup {b}),
           NEW i \in Files, NEW k \in Places,
           \A j \in Files, m \in Places : Ref(A2, D2, j, m) = IF j = i /\ m = k THEN b ELSE Ref(A, D, j, m),
           Ref(A, D, i, k) = 0
    PROVE  Owned(A2, D2, V \cup {b})
<1>1. b # 0 /\ 0 \notin V
    BY FileNumbers DEF Owned, DiskTypes
<1>2. \A j \in Files, m \in Places : Ref(A2, D2, j, m) \in V \cup {b} \cup {0}
    BY DEF Owned
<1>3. \A j, l \in Files, m, h \in Places : Ref(A2, D2, j, m) = Ref(A2, D2, l, h) /\ Ref(A2, D2, j, m) # 0 => j = l /\ m = h
  <2> SUFFICES ASSUME NEW j \in Files, NEW l \in Files, NEW m \in Places, NEW h \in Places,
                      Ref(A2, D2, j, m) = Ref(A2, D2, l, h), Ref(A2, D2, j, m) # 0
               PROVE  j = l /\ m = h
      OBVIOUS
  <2>1. Ref(A, D, j, m) # b /\ Ref(A, D, l, h) # b
      BY <1>1 DEF Owned
  <2>2. CASE j = i /\ m = k
      BY <2>1, <2>2
  <2>3. CASE ~(j = i /\ m = k) /\ ~(l = i /\ h = k)
      BY <2>3 DEF Owned
  <2>4. CASE l = i /\ h = k
      BY <2>1, <2>4
  <2> QED BY <2>2, <2>3, <2>4
<1>4. \A c \in V \cup {b} : \E j \in Files, m \in Places : Ref(A2, D2, j, m) = c
  <2> SUFFICES ASSUME NEW c \in V \cup {b} PROVE \E j \in Files, m \in Places : Ref(A2, D2, j, m) = c
      OBVIOUS
  <2>1. CASE c = b
      BY <2>1
  <2>2. CASE c # b
    <3>1. PICK j \in Files, m \in Places : Ref(A, D, j, m) = c /\ c # 0
        BY <1>1, <2>2 DEF Owned
    <3> QED BY <3>1
  <2> QED BY <2>1, <2>2
<1> QED BY <1>2, <1>3, <1>4 DEF Owned

(* What a place holds.                                                     *)
LEMMA RefDirect ==
    ASSUME NEW A, NEW D, NEW i \in Files, NEW k \in 0 .. NDIRECT
    PROVE  k \in Places /\ Ref(A, D, i, k) = A[i][k]
BY FileNumbers DEF Places, Ref

LEMMA RefIndirect ==
    ASSUME NEW A, NEW D, NEW i \in Files, NEW k \in 0 .. NINDIRECT - 1, NEW m, m = k + NDIRECT + 1
    PROVE  m \in Places /\ Ref(A, D, i, m) = IF A[i][NDIRECT] = 0 THEN 0 ELSE D[A[i][NDIRECT]][k]
<1>1. m \in Int /\ ~(m <= NDIRECT) /\ m - NDIRECT - 1 = k /\ m \in Places
    BY FileNumbers DEF Places
<1> QED BY <1>1 DEF Ref

LEMMA PlaceKinds ==
    /\ NDIRECT \in 0 .. NDIRECT /\ NDIRECT \in Places
    /\ \A k \in Places : k \in 0 .. NDIRECT \/ \E h \in 0 .. NINDIRECT - 1 : k = h + NDIRECT + 1
<1>1. NDIRECT \in Nat /\ NINDIRECT \in Nat
    BY FileNumbers
<1>2. ASSUME NEW k \in Places, k \notin 0 .. NDIRECT PROVE \E h \in 0 .. NINDIRECT - 1 : k = h + NDIRECT + 1
  <2>1. k - NDIRECT - 1 \in 0 .. NINDIRECT - 1 /\ k = (k - NDIRECT - 1) + NDIRECT + 1
      BY <1>1, <1>2 DEF Places
  <2> QED BY <2>1
<1> QED BY <1>1, <1>2 DEF Places

(* The indirect blocks are marked, and no two files share one.             *)
LEMMA IndirectBlocks ==
    ASSUME NEW A, NEW D, NEW V, Owned(A, D, V)
    PROVE  /\ \A j \in Files : A[j][NDIRECT] \in V \cup {0} /\ Ref(A, D, j, NDIRECT) = A[j][NDIRECT]
           /\ \A i, j \in Files : A[i][NDIRECT] = A[j][NDIRECT] /\ A[i][NDIRECT] # 0 => i = j
<1>1. \A j \in Files : Ref(A, D, j, NDIRECT) = A[j][NDIRECT]
    BY PlaceKinds, RefDirect
<1> QED BY <1>1, PlaceKinds DEF Owned

(* Block b is at place k of file i now, and data blocks keep their content. *)
Put(A, D, V, i, k, b, A2, D2) ==
    /\ Owned(A2, D2, V \cup {b})
    /\ \A j \in Files, m \in Places : Ref(A2, D2, j, m) = IF j = i /\ m = k THEN b ELSE Ref(A, D, j, m)
    /\ \A c \in V : c # A[i][NDIRECT] => D2[c] = D[c]

(* balloc for a place in the inode.                                        *)
PutsDirect(A, D, V, i, k, b, A2, D2) ==
    /\ Owned(A, D, V) /\ i \in Files /\ k \in 0 .. NDIRECT /\ A[i][k] = 0 /\ b \in F!Blocks \ V
    /\ A2 = [A EXCEPT ![i] = [A[i] EXCEPT ![k] = b]] /\ D2 = [D EXCEPT ![b] = F!Zeroed]

LEMMA PutDirect ==
    ASSUME NEW A, NEW D, NEW V, NEW i, NEW k, NEW b, NEW A2, NEW D2, PutsDirect(A, D, V, i, k, b, A2, D2)
    PROVE  Put(A, D, V, i, k, b, A2, D2)
<1>0. Owned(A, D, V) /\ i \in Files /\ k \in 0 .. NDIRECT /\ A[i][k] = 0 /\ b \in F!Blocks \ V
      /\ A2 = [A EXCEPT ![i] = [A[i] EXCEPT ![k] = b]] /\ D2 = [D EXCEPT ![b] = F!Zeroed]
    BY DEF PutsDirect
<1>1. A \in [Files -> Inode] /\ D \in Contents /\ V \subseteq F!Blocks /\ A[i] \in Inode
    BY <1>0 DEF Owned, DiskTypes
<1>2. b # 0 /\ 0 \notin V /\ b \in F!Blocks
    BY <1>0, <1>1, FileNumbers
<1>3. A2[i] \in Inode /\ A2[i][k] = b /\ \A m \in 0 .. NDIRECT : m # k => A2[i][m] = A[i][m]
    BY <1>0, <1>1 DEF Inode
<1>4. A2 \in [Files -> Inode] /\ \A j \in Files : j # i => A2[j] = A[j]
    BY <1>0, <1>1, <1>3
<1>5. D2 \in Contents /\ D2[b] = F!Zeroed /\ \A c \in F!Blocks : c # b => D2[c] = D[c]
    BY <1>0, <1>1, <1>2, PositionsThere DEF Contents
<1>6. \A c \in V : D2[c] = D[c]
    BY <1>0, <1>1, <1>5
<1>7. \A j \in Files : A[j][NDIRECT] \in V \cup {0}
    BY <1>0, IndirectBlocks
<1>8. ASSUME NEW j \in Files, NEW m \in Places PROVE Ref(A2, D2, j, m) = IF j = i /\ m = k THEN b ELSE Ref(A, D, j, m)
  <2>1. CASE m \in 0 .. NDIRECT
    <3>1. Ref(A2, D2, j, m) = A2[j][m] /\ Ref(A, D, j, m) = A[j][m]
        BY ONLY <2>1, RefDirect, j \in Files
    <3> QED BY <1>0, <1>3, <1>4, <2>1, <3>1
  <2>2. CASE m \notin 0 .. NDIRECT
    <3>1. PICK h \in 0 .. NINDIRECT - 1 : m = h + NDIRECT + 1
        BY <1>0, <2>2, PlaceKinds
    <3>0. m \in Int /\ ~(m <= NDIRECT) /\ m - NDIRECT - 1 = h
        BY <1>0, <3>1, FileNumbers
    <3>2. /\ Ref(A2, D2, j, m) = IF A2[j][NDIRECT] = 0 THEN 0 ELSE D2[A2[j][NDIRECT]][h]
          /\ Ref(A, D, j, m) = IF A[j][NDIRECT] = 0 THEN 0 ELSE D[A[j][NDIRECT]][h]
        BY <1>0, <3>0 DEF Ref
    <3>3. m # k
        BY <1>0, <2>2
    <3>4. CASE j = i /\ k = NDIRECT
      <4>1. D2[b][h] = 0
          BY <1>0, <1>5, PositionsThere
      <4>2. A2[j][NDIRECT] = b /\ A[j][NDIRECT] = 0
          BY <1>0, <1>3, <3>4
      <4> QED BY <1>0, <1>2, <3>2, <3>3, <4>1, <4>2
    <3>5. CASE ~(j = i /\ k = NDIRECT)
      <4>1. A2[j][NDIRECT] = A[j][NDIRECT]
          BY <1>0, <1>3, <1>4, <3>5, PlaceKinds
      <4> QED BY <1>0, <1>6, <1>7, <3>2, <3>3, <4>1
    <3> QED BY <1>0, <3>4, <3>5
  <2> QED BY <1>0, <2>1, <2>2
<1>9. DiskTypes(A2, D2, V \cup {b})
    BY <1>0, <1>1, <1>2, <1>4, <1>5 DEF DiskTypes
<1>10. k \in Places /\ Ref(A, D, i, k) = 0
    BY <1>0, RefDirect
<1>11. Owned(A2, D2, V \cup {b})
  <2>1. Owned(A, D, V) /\ i \in Files /\ b \in F!Blocks \ V
      BY <1>0
  <2> QED BY ONLY <2>1, <1>8, <1>9, <1>10, OwnedAdd
<1> QED BY <1>6, <1>8, <1>11 DEF Put

(* balloc for an entry of the indirect block.                              *)
PutsIndirect(A, D, V, i, h, a, b, D1, D2) ==
    /\ Owned(A, D, V) /\ i \in Files /\ h \in 0 .. NINDIRECT - 1 /\ a = A[i][NDIRECT] /\ a # 0 /\ D[a][h] = 0
    /\ b \in F!Blocks \ V /\ D1 = [D EXCEPT ![b] = F!Zeroed] /\ D2 = [D1 EXCEPT ![a] = [D1[a] EXCEPT ![h] = b]]

LEMMA PutIndirect ==
    ASSUME NEW A, NEW D, NEW V, NEW i, NEW h, NEW a, NEW b, NEW D1, NEW D2, PutsIndirect(A, D, V, i, h, a, b, D1, D2)
    PROVE  Put(A, D, V, i, h + NDIRECT + 1, b, A, D2) /\ a \in V
<1>0. Owned(A, D, V) /\ i \in Files /\ h \in 0 .. NINDIRECT - 1 /\ a = A[i][NDIRECT] /\ a # 0 /\ D[a][h] = 0
      /\ b \in F!Blocks \ V /\ D1 = [D EXCEPT ![b] = F!Zeroed] /\ D2 = [D1 EXCEPT ![a] = [D1[a] EXCEPT ![h] = b]]
    BY DEF PutsIndirect
<1>1. A \in [Files -> Inode] /\ D \in Contents /\ V \subseteq F!Blocks /\ A[i] \in Inode
    BY <1>0 DEF Owned, DiskTypes
<1>2. b # 0 /\ 0 \notin V /\ b \in F!Blocks /\ b \in Int
    BY <1>0, <1>1, FileNumbers
<1>3. \A j \in Files : A[j][NDIRECT] \in V \cup {0}
    BY <1>0, IndirectBlocks
<1>4. a \in V /\ a # b /\ a \in F!Blocks
    BY <1>0, <1>1, <1>3
<1>5. h \in F!Positions
    BY <1>0, PositionsThere
<1>6. D1 \in Contents /\ D1[b] = F!Zeroed /\ \A c \in F!Blocks : c # b => D1[c] = D[c]
    BY <1>0, <1>1, <1>2, PositionsThere DEF Contents
<1>7. D1[a] \in [F!Positions -> Int] /\ D1[a] = D[a]
    BY <1>0, <1>4, <1>6 DEF Contents
<1>8. PICK e : e = [D1[a] EXCEPT ![h] = b] /\ e \in [F!Positions -> Int] /\ e[h] = b /\ \A x \in F!Positions : x # h => e[x] = D[a][x]
    BY <1>0, <1>2, <1>5, <1>7
<1>9. D2 \in Contents /\ D2[a] = e /\ \A c \in F!Blocks : c # b /\ c # a => D2[c] = D[c]
    BY <1>0, <1>4, <1>6, <1>8 DEF Contents
<1>10. \A c \in V : c # a => D2[c] = D[c]
    BY <1>0, <1>1, <1>9
<1>11. \A j \in Files : j # i /\ A[j][NDIRECT] # 0 => A[j][NDIRECT] # a
    BY <1>0, IndirectBlocks
<1>12. h \in Int /\ NDIRECT \in Int
    BY <1>0, FileNumbers
<1>13. ASSUME NEW j \in Files, NEW m \in Places
       PROVE  Ref(A, D2, j, m) = IF j = i /\ m = h + NDIRECT + 1 THEN b ELSE Ref(A, D, j, m)
  <2>1. CASE m \in 0 .. NDIRECT
    <3>1. Ref(A, D2, j, m) = A[j][m] /\ Ref(A, D, j, m) = A[j][m]
        BY ONLY <2>1, RefDirect, j \in Files
    <3>2. m # h + NDIRECT + 1
        BY <1>0, <1>12, <2>1
    <3> QED BY <1>0, <3>1, <3>2
  <2>2. CASE m \notin 0 .. NDIRECT
    <3>1. PICK g \in 0 .. NINDIRECT - 1 : m = g + NDIRECT + 1
        BY <1>0, <2>2, PlaceKinds
    <3>0. m \in Int /\ ~(m <= NDIRECT) /\ m - NDIRECT - 1 = g
        BY <1>0, <3>1, FileNumbers
    <3>2. /\ Ref(A, D2, j, m) = IF A[j][NDIRECT] = 0 THEN 0 ELSE D2[A[j][NDIRECT]][g]
          /\ Ref(A, D, j, m) = IF A[j][NDIRECT] = 0 THEN 0 ELSE D[A[j][NDIRECT]][g]
        BY <1>0, <3>0 DEF Ref
    <3>3. m = h + NDIRECT + 1 <=> g = h
        BY <1>0, <1>12, <3>1
    <3>4. CASE j # i
        BY <1>0, <1>3, <1>10, <1>11, <3>2, <3>4
    <3>5. CASE j = i
      <4>1. g \in F!Positions
          BY <1>0, PositionsThere
      <4> QED BY <1>0, <1>8, <1>9, <3>2, <3>3, <3>5, <4>1
    <3> QED BY <1>0, <3>4, <3>5
  <2> QED BY <1>0, <2>1, <2>2
<1>14. DiskTypes(A, D2, V \cup {b})
    BY <1>0, <1>1, <1>2, <1>9 DEF DiskTypes
<1>15. PICK g : g = h + NDIRECT + 1
    OBVIOUS
<1>16. g \in Places /\ Ref(A, D, i, g) = 0
  <2>1. g \in Int /\ ~(g <= NDIRECT) /\ g - NDIRECT - 1 = h /\ g \in Places
      BY <1>0, <1>15, FileNumbers DEF Places
  <2> QED BY <1>0, <2>1 DEF Ref
<1>17. Owned(A, D2, V \cup {b})
  <2>1. Owned(A, D, V) /\ i \in Files /\ b \in F!Blocks \ V
      BY <1>0
  <2> QED BY ONLY <2>1, <1>13, <1>14, <1>15, <1>16, OwnedAdd
<1> QED BY <1>0, <1>4, <1>10, <1>13, <1>17 DEF Put

(* The record bmap works on, for file i, and A the inodes before it began. *)
Lookup == [addrs : Inode, used : SUBSET F!Blocks, disk : Contents, logged : SUBSET Int, full : BOOLEAN]

With(A, i, s) == [A EXCEPT ![i] = s.addrs]

At1(A, i, s, j, m) == Ref(With(A, i, s), s.disk, j, m)

Sound(A, i, s) == s \in Lookup /\ Owned(With(A, i, s), s.disk, s.used)

(* What is at a place stays there, other files stay as they are, and the   *)
(* content of data blocks does.                                            *)
Grown(A, i, s, t) ==
    /\ \A j \in Files, m \in Places : At1(A, i, s, j, m) # 0 => At1(A, i, t, j, m) = At1(A, i, s, j, m)
    /\ \A j \in Files, m \in Places : j # i => At1(A, i, t, j, m) = At1(A, i, s, j, m)
    /\ \A j \in Files, m \in Places : m # NDIRECT /\ At1(A, i, s, j, m) # 0 =>
          t.disk[At1(A, i, s, j, m)] = s.disk[At1(A, i, s, j, m)]

LEMMA GrownSame == ASSUME NEW A, NEW i, NEW s PROVE Grown(A, i, s, s)
BY DEF Grown

LEMMA GrownMore ==
    ASSUME NEW A, NEW i, NEW s, NEW t, NEW r, Grown(A, i, s, t), Grown(A, i, t, r)
    PROVE  Grown(A, i, s, r)
<1>1. ASSUME NEW j \in Files, NEW m \in Places, At1(A, i, s, j, m) # 0
      PROVE  At1(A, i, r, j, m) = At1(A, i, s, j, m) /\ (m # NDIRECT => r.disk[At1(A, i, s, j, m)] = s.disk[At1(A, i, s, j, m)])
  <2>1. At1(A, i, t, j, m) = At1(A, i, s, j, m) /\ (m # NDIRECT => t.disk[At1(A, i, s, j, m)] = s.disk[At1(A, i, s, j, m)])
      BY <1>1 DEF Grown
  <2>2. At1(A, i, r, j, m) = At1(A, i, t, j, m) /\ (m # NDIRECT => r.disk[At1(A, i, t, j, m)] = t.disk[At1(A, i, t, j, m)])
      BY <1>1, <2>1 DEF Grown
  <2> QED BY <2>1, <2>2
<1>2. \A j \in Files, m \in Places : j # i => At1(A, i, r, j, m) = At1(A, i, s, j, m)
    BY DEF Grown
<1> QED BY <1>1, <1>2 DEF Grown

(* The record after balloc.                                                *)
LEMMA BallocIs ==
    ASSUME NEW s \in Lookup, NEW b \in F!Blocks, b = F!New(s), NEW r, r = F!balloc(s)
    PROVE  /\ r \in Lookup /\ r.addrs = s.addrs /\ r.used = s.used \cup {b} /\ r.disk = [s.disk EXCEPT ![b] = F!Zeroed]
           /\ r.logged = s.logged \cup {0, b} /\ r.full = s.full
<1>1. s.used \in SUBSET F!Blocks /\ s.disk \in Contents /\ s.logged \in SUBSET Int /\ s.addrs \in Inode
    BY DEF Lookup
<1>2. PICK w \in SUBSET F!Blocks : w = s.used \cup {b}
    BY <1>1
<1>3. PICK d \in Contents : d = [s.disk EXCEPT ![b] = F!Zeroed]
    BY <1>1, PositionsThere DEF Contents
<1>4. PICK l \in SUBSET Int : l = s.logged \cup {0, b}
  <2>1. 0 \in Int /\ b \in Int
      BY FileNumbers
  <2>2. s.logged \cup {0, b} \in SUBSET Int
      BY <1>1, <2>1
  <2> QED BY <2>2
<1>5. r = [s EXCEPT !.used = w, !.disk = d, !.logged = l]
    BY <1>2, <1>3, <1>4 DEF F!balloc, F!New, F!BITMAP
<1> QED BY ONLY s \in Lookup, <1>2, <1>3, <1>4, <1>5 DEF Lookup

(* balloc on a full disk.                                                  *)
LEMMA FullSound ==
    ASSUME NEW A, NEW i, NEW s, Sound(A, i, s)
    PROVE  Sound(A, i, [s EXCEPT !.full = TRUE]) /\ [s EXCEPT !.full = TRUE].full
<1>1. s \in Lookup
    BY DEF Sound
<1>2. PICK t : t = [s EXCEPT !.full = TRUE]
    OBVIOUS
<1>3. t \in Lookup /\ t.addrs = s.addrs /\ t.disk = s.disk /\ t.used = s.used /\ t.full
    BY <1>1, <1>2 DEF Lookup
<1> QED BY <1>2, <1>3 DEF Sound, With

(* bmap for a block number in the inode.                                   *)
LEMMA BmapAddr ==
    ASSUME NEW A \in [Files -> Inode], NEW i \in Files, NEW s, Sound(A, i, s), NEW k \in 0 .. NDIRECT,
           NEW t, t = F!bmap_addr(s, k)
    PROVE  /\ Sound(A, i, t) /\ (s.full => t.full)
           /\ ~t.full => /\ Grown(A, i, s, t) /\ t.addrs[k] # 0
                         /\ t.logged \subseteq s.logged \cup {0, t.addrs[k]}
<1>1. s \in Lookup /\ Owned(With(A, i, s), s.disk, s.used) /\ s.addrs \in Inode
    BY DEF Sound, Lookup
<1>2. CASE s.addrs[k] # 0
  <2>1. t = s
      BY <1>2 DEF F!bmap_addr
  <2> QED BY <1>2, <2>1, GrownSame
<1>3. CASE s.addrs[k] = 0 /\ F!Full(s)
  <2>1. t = [s EXCEPT !.full = TRUE]
      BY <1>3 DEF F!bmap_addr
  <2> QED BY <1>1, <2>1, FullSound
<1>4. CASE s.addrs[k] = 0 /\ ~F!Full(s)
  <2>1. PICK b \in F!Blocks \ s.used : b = F!New(s)
      BY <1>1, <1>4, BallocFinds DEF Lookup, F!Full
  <2>2. PICK r : r = F!balloc(s)
      OBVIOUS
  <2>3. /\ r \in Lookup /\ r.addrs = s.addrs /\ r.used = s.used \cup {b} /\ r.disk = [s.disk EXCEPT ![b] = F!Zeroed]
        /\ r.logged = s.logged \cup {0, b} /\ r.full = s.full
      BY <1>1, <2>1, <2>2, BallocIs
  <2>4. PICK e : e = [s.addrs EXCEPT ![k] = b] /\ e \in Inode /\ e[k] = b
    <3>1. PICK e : e = [s.addrs EXCEPT ![k] = b]
        OBVIOUS
    <3>2. s.addrs \in [0 .. NDIRECT -> F!Blocks \cup {0}] /\ b \in F!Blocks
        BY <1>1, <2>1 DEF Inode
    <3>3. e \in [0 .. NDIRECT -> F!Blocks \cup {0}] /\ e[k] = b
        BY <3>1, <3>2
    <3> QED BY <3>1, <3>3 DEF Inode
  <2>5. b \in Int /\ b # 0 /\ 0 \in Int
      BY <2>1, FileNumbers
  <2>6. t = [r EXCEPT !.addrs = e]
      BY <1>4, <2>1, <2>2, <2>3, <2>4 DEF F!bmap_addr
  <2>7. /\ t.used = s.used \cup {b} /\ t.disk = [s.disk EXCEPT ![b] = F!Zeroed]
        /\ t.logged = s.logged \cup {0, b} /\ t.full = s.full
        /\ t.addrs = [s.addrs EXCEPT ![k] = b] /\ t.addrs[k] = b /\ t \in Lookup
      BY <2>3, <2>4, <2>6 DEF Lookup
  <2>8. PICK A1, A2 : A1 = With(A, i, s) /\ A2 = With(A, i, t)
      OBVIOUS
  <2>9. A1 \in [Files -> Inode] /\ A1[i] = s.addrs
      BY <1>1, <2>8 DEF With
  <2>10. A2 = [A1 EXCEPT ![i] = [A1[i] EXCEPT ![k] = b]]
      BY <1>1, <2>7, <2>8, <2>9 DEF With
  <2>11. A1[i][k] = 0
      BY <1>4, <2>9
  <2>12. Owned(A1, s.disk, s.used)
      BY <1>1, <2>8
  <2>13. Put(A1, s.disk, s.used, i, k, b, A2, t.disk)
    <3>1. PICK D, V : D = s.disk /\ V = s.used
        OBVIOUS
    <3>2. PICK D2 : D2 = t.disk /\ D2 = [D EXCEPT ![b] = F!Zeroed]
        BY <2>7, <3>1
    <3>3. Owned(A1, D, V) /\ b \in F!Blocks \ V
        BY <2>1, <2>12, <3>1
    <3>4. Put(A1, D, V, i, k, b, A2, D2)
      <4>1. PutsDirect(A1, D, V, i, k, b, A2, D2)
          BY <2>10, <2>11, <3>2, <3>3 DEF PutsDirect
      <4> QED BY ONLY <4>1, PutDirect
    <3> QED BY <3>1, <3>2, <3>4
  <2>15. Sound(A, i, t)
      BY <2>7, <2>8, <2>13 DEF Sound, Put
  <2>16. \A j \in Files, m \in Places : At1(A, i, t, j, m) = IF j = i /\ m = k THEN b ELSE At1(A, i, s, j, m)
      BY <2>8, <2>13 DEF At1, Put
  <2>17. k \in Places /\ At1(A, i, s, i, k) = 0
      BY <2>8, <2>11, RefDirect DEF At1
  <2>18. \A j \in Files, m \in Places : At1(A, i, s, j, m) \in s.used \cup {0}
      BY <2>8, <2>12 DEF At1, Owned
  <2>19. Grown(A, i, s, t)
    <3>1. \A j \in Files, m \in Places : m # NDIRECT /\ At1(A, i, s, j, m) # 0 => At1(A, i, s, j, m) # A1[i][NDIRECT]
      <4>1. NDIRECT \in Places /\ Ref(A1, s.disk, i, NDIRECT) = A1[i][NDIRECT]
          BY <2>12, IndirectBlocks, PlaceKinds
      <4> QED BY <2>8, <2>12, <4>1 DEF At1, Owned
    <3>2. \A j \in Files, m \in Places : m # NDIRECT /\ At1(A, i, s, j, m) # 0 =>
              t.disk[At1(A, i, s, j, m)] = s.disk[At1(A, i, s, j, m)]
        BY <2>13, <2>18, <3>1 DEF Put
    <3> QED BY <2>16, <2>17, <3>2 DEF Grown
  <2> QED BY <2>5, <2>7, <2>15, <2>19
<1> QED BY <1>2, <1>3, <1>4

(* bmap for a block number in the indirect block.                          *)
LEMMA BmapIndirect ==
    ASSUME NEW A \in [Files -> Inode], NEW i \in Files, NEW s, Sound(A, i, s), s.addrs[NDIRECT] # 0,
           NEW h \in 0 .. NINDIRECT - 1, NEW g, g = h + NDIRECT + 1, NEW t, t = F!bmap_indirect(s, h)
    PROVE  /\ Sound(A, i, t) /\ (s.full => t.full)
           /\ ~t.full => /\ Grown(A, i, s, t) /\ At1(A, i, t, i, g) # 0 /\ t.addrs = s.addrs
                         /\ t.logged \subseteq s.logged \cup {0, s.addrs[NDIRECT], At1(A, i, t, i, g)}
<1>1. s \in Lookup /\ Owned(With(A, i, s), s.disk, s.used) /\ s.addrs \in Inode
    BY DEF Sound, Lookup
<1>2. PICK a : a = s.addrs[NDIRECT]
    OBVIOUS
<1>3. g \in Int /\ ~(g <= NDIRECT) /\ g - NDIRECT - 1 = h /\ g \in Places /\ g # NDIRECT
    BY FileNumbers DEF Places
<1>0. PICK A1 : A1 = With(A, i, s)
    OBVIOUS
<1>4. A1 = With(A, i, s) /\ A1 \in [Files -> Inode] /\ A1[i] = s.addrs
    BY <1>0, <1>1 DEF With
<1>5. At1(A, i, s, i, g) = s.disk[a][h]
    BY <1>2, <1>3, <1>4 DEF At1, Ref
<1>6. CASE s.full
  <2>1. t = s
      BY <1>6 DEF F!bmap_indirect
  <2> QED BY <1>6, <2>1
<1>7. CASE ~s.full /\ s.disk[a][h] # 0
  <2>1. t = s
      BY <1>2, <1>7 DEF F!bmap_indirect
  <2> QED BY <1>5, <1>7, <2>1, GrownSame
<1>8. CASE ~s.full /\ s.disk[a][h] = 0 /\ F!Full(s)
  <2>1. t = [s EXCEPT !.full = TRUE]
      BY <1>2, <1>8 DEF F!bmap_indirect
  <2> QED BY <1>1, <2>1, FullSound
<1>9. CASE ~s.full /\ s.disk[a][h] = 0 /\ ~F!Full(s)
  <2>1. PICK b \in F!Blocks \ s.used : b = F!New(s)
      BY <1>1, <1>9, BallocFinds DEF Lookup, F!Full
  <2>2. PICK D1 : D1 = [s.disk EXCEPT ![b] = F!Zeroed]
      OBVIOUS
  <2>3. PICK r : r = F!balloc(s)
      OBVIOUS
  <2>4. /\ r \in Lookup /\ r.addrs = s.addrs /\ r.used = s.used \cup {b} /\ r.disk = D1
        /\ r.logged = s.logged \cup {0, b} /\ r.full = s.full
      BY <1>1, <2>1, <2>2, <2>3, BallocIs
  <2>5. PICK D2 : D2 = [D1 EXCEPT ![a] = [D1[a] EXCEPT ![h] = b]]
      OBVIOUS
  <2>6. PICK l : l = s.logged \cup {0, b} \cup {a}
      OBVIOUS
  <2>7. t = [r EXCEPT !.disk = D2, !.logged = l]
      BY <1>2, <1>9, <2>1, <2>3, <2>4, <2>5, <2>6 DEF F!bmap_indirect
  <2>8. Owned(A1, s.disk, s.used) /\ a = A1[i][NDIRECT] /\ a # 0
      BY <1>1, <1>2, <1>4
  <2>9. Put(A1, s.disk, s.used, i, g, b, A1, D2) /\ a \in s.used
    <3>1. PICK D, V : D = s.disk /\ V = s.used
        OBVIOUS
    <3>2. Owned(A1, D, V) /\ b \in F!Blocks \ V /\ D[a][h] = 0 /\ D1 = [D EXCEPT ![b] = F!Zeroed]
        BY <1>9, <2>1, <2>2, <2>8, <3>1
    <3>3. Put(A1, D, V, i, h + NDIRECT + 1, b, A1, D2) /\ a \in V
      <4>1. PutsIndirect(A1, D, V, i, h, a, b, D1, D2)
          BY <2>5, <2>8, <3>2 DEF PutsIndirect
      <4> QED BY ONLY <4>1, PutIndirect
    <3> QED BY <3>1, <3>3
  <2>10. b \in Int /\ b # 0 /\ 0 \in Int /\ a \in Int
    <3>1. s.used \subseteq F!Blocks
        BY <1>1 DEF Lookup
    <3> QED BY <2>1, <2>9, <3>1, FileNumbers
  <2>11. /\ t.addrs = s.addrs /\ t.used = s.used \cup {b} /\ t.disk = D2 /\ t.logged = l /\ t.full = s.full
         /\ t \in Lookup
    <3>1. D2 \in Contents /\ s.addrs \in Inode /\ r.used \in SUBSET F!Blocks
        BY <1>1, <2>4, <2>9 DEF Owned, DiskTypes, Lookup, Put
    <3>2. l \in SUBSET Int
        BY <1>1, <2>6, <2>10 DEF Lookup
    <3>3. /\ t \in Lookup /\ t.addrs = r.addrs /\ t.used = r.used /\ t.disk = D2 /\ t.logged = l /\ t.full = r.full
        BY ONLY <2>4, <2>7, <3>1, <3>2 DEF Lookup
    <3> QED BY <2>4, <3>3
  <2>12. With(A, i, t) = A1
      BY <1>4, <2>11 DEF With
  <2>13. Sound(A, i, t)
      BY <2>9, <2>11, <2>12 DEF Sound, Put
  <2>14. \A j \in Files, m \in Places : At1(A, i, t, j, m) = IF j = i /\ m = g THEN b ELSE At1(A, i, s, j, m)
      BY <1>4, <2>9, <2>11, <2>12 DEF At1, Put
  <2>15. \A j \in Files, m \in Places : At1(A, i, s, j, m) \in s.used \cup {0}
      BY <1>4, <2>8 DEF At1, Owned
  <2>16. \A j \in Files, m \in Places : m # NDIRECT /\ At1(A, i, s, j, m) # 0 => At1(A, i, s, j, m) # a
    <3>1. NDIRECT \in Places /\ Ref(A1, s.disk, i, NDIRECT) = a
        BY <2>8, IndirectBlocks, PlaceKinds
    <3> QED BY <1>4, <2>8, <3>1 DEF At1, Owned
  <2>17. Grown(A, i, s, t)
    <3>1. \A j \in Files, m \in Places : m # NDIRECT /\ At1(A, i, s, j, m) # 0 =>
              t.disk[At1(A, i, s, j, m)] = s.disk[At1(A, i, s, j, m)]
        BY <2>8, <2>9, <2>11, <2>15, <2>16 DEF Put
    <3> QED BY <1>5, <1>9, <2>14, <3>1 DEF Grown
  <2>18. At1(A, i, t, i, g) = b
      BY <1>3, <2>14
  <2> QED BY <1>2, <1>9, <2>6, <2>10, <2>11, <2>13, <2>17, <2>18
<1> QED BY <1>6, <1>7, <1>8, <1>9

(* Where the block number of block bn is.                                  *)
LEMMA PlaceOfBlock ==
    ASSUME NEW bn \in 0 .. NDIRECT + NINDIRECT - 1
    PROVE  /\ PlaceOf(bn) \in Places /\ PlaceOf(bn) # NDIRECT
           /\ bn < NDIRECT => bn \in 0 .. NDIRECT /\ PlaceOf(bn) = bn
           /\ ~(bn < NDIRECT) => bn - NDIRECT \in 0 .. NINDIRECT - 1 /\ PlaceOf(bn) = (bn - NDIRECT) + NDIRECT + 1
BY FileNumbers DEF PlaceOf, Places

(* bmap finds or makes a block, and keeps all others.                      *)
LEMMA Bmap ==
    ASSUME NEW A \in [Files -> Inode], NEW i \in Files, NEW s, Sound(A, i, s),
           NEW bn \in 0 .. NDIRECT + NINDIRECT - 1, NEW t, t = F!bmap(s, bn)
    PROVE  /\ Sound(A, i, t) /\ (s.full => t.full)
           /\ ~t.full => /\ Grown(A, i, s, t) /\ At1(A, i, t, i, PlaceOf(bn)) # 0
                         /\ t.logged \subseteq s.logged \cup {0, t.addrs[NDIRECT], At1(A, i, t, i, PlaceOf(bn))}
<1>1. CASE bn < NDIRECT
  <2>1. bn \in 0 .. NDIRECT /\ PlaceOf(bn) = bn
      BY <1>1, PlaceOfBlock
  <2>2. t = F!bmap_addr(s, bn)
      BY <1>1 DEF F!bmap
  <2>3. /\ Sound(A, i, t) /\ (s.full => t.full)
        /\ ~t.full => /\ Grown(A, i, s, t) /\ t.addrs[bn] # 0
                      /\ t.logged \subseteq s.logged \cup {0, t.addrs[bn]}
      BY <2>1, <2>2, BmapAddr
  <2>4. At1(A, i, t, i, bn) = t.addrs[bn]
    <3>1. At1(A, i, t, i, bn) = With(A, i, t)[i][bn]
        BY ONLY i \in Files, <2>1, RefDirect DEF At1
    <3>2. With(A, i, t)[i] = t.addrs
        BY DEF With
    <3> QED BY <3>1, <3>2
  <2> QED BY <2>1, <2>3, <2>4
<1>2. CASE ~(bn < NDIRECT)
  <2>0. PICK g : g = PlaceOf(bn)
      OBVIOUS
  <2>1. PICK h \in 0 .. NINDIRECT - 1 : h = bn - NDIRECT /\ g = h + NDIRECT + 1 /\ PlaceOf(bn) = g
      BY <1>2, <2>0, PlaceOfBlock
  <2>2. PICK r : r = F!bmap_addr(s, NDIRECT)
      OBVIOUS
  <2>3. t = F!bmap_indirect(r, h)
      BY <1>2, <2>1, <2>2 DEF F!bmap
  <2>4. /\ Sound(A, i, r) /\ (s.full => r.full)
        /\ ~r.full => /\ Grown(A, i, s, r) /\ r.addrs[NDIRECT] # 0
                      /\ r.logged \subseteq s.logged \cup {0, r.addrs[NDIRECT]}
      BY <2>2, BmapAddr, PlaceKinds
  <2>5. CASE r.full
    <3>1. t = r
        BY <2>3, <2>5 DEF F!bmap_indirect
    <3> QED BY <2>4, <2>5, <3>1
  <2>6. CASE ~r.full
    <3>1. /\ Sound(A, i, t) /\ (r.full => t.full)
          /\ ~t.full => /\ Grown(A, i, r, t) /\ At1(A, i, t, i, g) # 0 /\ t.addrs = r.addrs
                        /\ t.logged \subseteq r.logged \cup {0, r.addrs[NDIRECT], At1(A, i, t, i, g)}
        BY <2>1, <2>3, <2>4, <2>6, BmapIndirect
    <3>2. ~t.full => Grown(A, i, s, t)
        BY <2>4, <2>6, <3>1, GrownMore
    <3>3. ~t.full => t.logged \subseteq s.logged \cup {0, t.addrs[NDIRECT], At1(A, i, t, i, g)}
        BY <2>4, <2>6, <3>1
    <3> QED BY <2>1, <2>4, <2>6, <3>1, <3>2, <3>3
  <2> QED BY <2>5, <2>6
<1> QED BY <1>1, <1>2

(* Induction along an interval, for sets.                                  *)
LEMMA Upward ==
    ASSUME NEW a \in Int, NEW b \in Int, NEW S, a \in S, \A x \in a .. b - 1 : x \in S => x + 1 \in S
    PROVE  a .. b \subseteq S
<1> DEFINE T == (a .. b) \ S
<1> SUFFICES ASSUME T # {} PROVE FALSE
    OBVIOUS
<1>1. T \subseteq Int
    OBVIOUS
<1>2. IsFiniteSet(T)
    BY FS_Interval, FS_Subset
<1>3. PICK m \in T : \A x \in T : m <= x
  <2> HIDE DEF T
  <2> QED BY <1>1, <1>2, LeastOf
<1>4. m \in Int /\ a <= m /\ m <= b /\ m # a /\ m \notin S
    OBVIOUS
<1>5. m - 1 \in a .. b - 1 /\ m - 1 \in a .. b /\ m - 1 + 1 = m /\ ~(m <= m - 1)
    BY <1>4
<1>6. m - 1 \notin T
    BY <1>3, <1>5
<1> QED BY <1>4, <1>5, <1>6

(* The records while blocks first to last are looked up.                   *)
Chain(g, s, first, last) ==
    g = [b \in first - 1 .. last |-> IF b = first - 1 THEN s ELSE F!bmap(g[b - 1], b)]

(* There are such records: the recursion of bmaps is well founded.         *)
LEMMA ChainExists ==
    ASSUME NEW s, NEW first \in Int, NEW last \in Int, first - 1 <= last
    PROVE  \E g : Chain(g, s, first, last) /\ F!bmaps(s, first, last) = g[last]
<1> DEFINE S == {c \in first - 1 .. last : \E g : Chain(g, s, first, c)}
<1>1. first - 1 \in S
  <2>1. PICK g : g = [b \in first - 1 .. first - 1 |-> s]
      OBVIOUS
  <2>2. Chain(g, s, first, first - 1)
      BY <2>1 DEF Chain
  <2> QED BY <2>2
<1>2. ASSUME NEW x \in first - 1 .. last - 1, x \in S PROVE x + 1 \in S
  <2>1. PICK g : Chain(g, s, first, x)
      BY <1>2
  <2>2. PICK h : h = [b \in first - 1 .. x + 1 |-> IF b = x + 1 THEN F!bmap(g[x], b) ELSE g[b]]
      OBVIOUS
  <2>3. ASSUME NEW b \in first - 1 .. x + 1
        PROVE  h[b] = IF b = first - 1 THEN s ELSE F!bmap(h[b - 1], b)
    <3>1. CASE b = x + 1
      <4>1. x \in first - 1 .. x + 1 /\ x # x + 1 /\ b - 1 = x /\ b # first - 1
          BY <3>1
      <4>2. h[x] = g[x] /\ h[b] = F!bmap(g[x], b)
          BY <2>2, <3>1, <4>1
      <4> QED BY <4>1, <4>2
    <3>2. CASE b # x + 1
      <4>1. b \in first - 1 .. x /\ h[b] = g[b]
          BY <2>2, <3>2
      <4>2. g[b] = IF b = first - 1 THEN s ELSE F!bmap(g[b - 1], b)
          BY <2>1, <4>1 DEF Chain
      <4>3. CASE b = first - 1
          BY <4>1, <4>2, <4>3
      <4>4. CASE b # first - 1
        <5>1. b - 1 \in first - 1 .. x + 1 /\ b - 1 # x + 1
            BY <4>1, <4>4
        <5>2. h[b - 1] = g[b - 1]
            BY <2>2, <5>1
        <5> QED BY <4>1, <4>2, <4>4, <5>2
      <4> QED BY <4>3, <4>4
    <3> QED BY <3>1, <3>2
  <2>4. Chain(h, s, first, x + 1)
      BY <2>2, <2>3 DEF Chain
  <2>5. x + 1 \in first - 1 .. last
      OBVIOUS
  <2> QED BY <2>4, <2>5
<1>3. last \in S
  <2> HIDE DEF S
  <2>1. first - 1 \in Int
      OBVIOUS
  <2>2. first - 1 .. last \subseteq S
      BY <1>1, <1>2, <2>1, Upward
  <2> QED BY <2>2
<1>4. \E g : Chain(g, s, first, last)
    BY <1>3
<1> QED BY <1>4 DEF Chain, F!bmaps

(* What looking up blocks first to last does, unless the disk is full.     *)
Found(A, i, s, first, last, t) ==
    /\ Grown(A, i, s, t)
    /\ \A bn \in first .. last : At1(A, i, t, i, PlaceOf(bn)) # 0
    /\ t.logged \subseteq s.logged \cup {0, t.addrs[NDIRECT]} \cup {At1(A, i, t, i, PlaceOf(bn)) : bn \in first .. last}

LEMMA FoundMore ==
    ASSUME NEW A \in [Files -> Inode], NEW i \in Files, NEW s, NEW r, NEW first \in Nat, NEW x \in Int,
           first - 1 <= x, x < NDIRECT + NINDIRECT - 1, Sound(A, i, r), Found(A, i, s, first, x, r),
           NEW t, t = F!bmap(r, x + 1), ~t.full
    PROVE  Found(A, i, s, first, x + 1, t)
<1>1. x + 1 \in 0 .. NDIRECT + NINDIRECT - 1
    BY FileNumbers
<1>2. /\ Sound(A, i, t) /\ Grown(A, i, r, t) /\ At1(A, i, t, i, PlaceOf(x + 1)) # 0
      /\ t.logged \subseteq r.logged \cup {0, t.addrs[NDIRECT], At1(A, i, t, i, PlaceOf(x + 1))}
  <2>1. PICK y \in 0 .. NDIRECT + NINDIRECT - 1 : y = x + 1
      BY <1>1
  <2> QED BY <2>1, Bmap
<1>3. Grown(A, i, s, r)
    BY DEF Found
<1>4. Grown(A, i, s, t)
    BY <1>2, <1>3, GrownMore
<1>5. ASSUME NEW bn \in first .. x PROVE At1(A, i, r, i, PlaceOf(bn)) # 0 /\ At1(A, i, t, i, PlaceOf(bn)) = At1(A, i, r, i, PlaceOf(bn))
  <2>1. bn \in 0 .. NDIRECT + NINDIRECT - 1
      BY FileNumbers
  <2>2. PlaceOf(bn) \in Places
      BY <2>1, PlaceOfBlock
  <2>3. At1(A, i, r, i, PlaceOf(bn)) # 0
      BY DEF Found
  <2> QED BY <1>2, <2>2, <2>3 DEF Grown
<1>6. \A bn \in first .. x + 1 : bn \in first .. x \/ bn = x + 1
    OBVIOUS
<1>7. \A bn \in first .. x + 1 : At1(A, i, t, i, PlaceOf(bn)) # 0
    BY <1>2, <1>5, <1>6
<1>8. r.addrs[NDIRECT] = 0 \/ r.addrs[NDIRECT] = t.addrs[NDIRECT]
  <2>1. NDIRECT \in 0 .. NDIRECT /\ NDIRECT \in Places
      BY PlaceKinds
  <2>2. At1(A, i, r, i, NDIRECT) = r.addrs[NDIRECT] /\ At1(A, i, t, i, NDIRECT) = t.addrs[NDIRECT]
    <3>1. At1(A, i, r, i, NDIRECT) = With(A, i, r)[i][NDIRECT] /\ At1(A, i, t, i, NDIRECT) = With(A, i, t)[i][NDIRECT]
        BY ONLY i \in Files, <2>1, RefDirect DEF At1
    <3>2. With(A, i, r)[i] = r.addrs /\ With(A, i, t)[i] = t.addrs
        BY DEF With
    <3> QED BY <3>1, <3>2
  <2> QED BY <1>2, <2>1, <2>2 DEF Grown
<1>9. t.logged \subseteq s.logged \cup {0, t.addrs[NDIRECT]} \cup {At1(A, i, t, i, PlaceOf(bn)) : bn \in first .. x + 1}
  <2> SUFFICES ASSUME NEW b \in t.logged, b \notin s.logged, b # 0, b # t.addrs[NDIRECT]
               PROVE  \E bn \in first .. x + 1 : b = At1(A, i, t, i, PlaceOf(bn))
      OBVIOUS
  <2>1. CASE b = At1(A, i, t, i, PlaceOf(x + 1))
      BY <2>1
  <2>2. CASE b \in r.logged
    <3>1. PICK bn \in first .. x : b = At1(A, i, r, i, PlaceOf(bn))
        BY <1>8, <2>2 DEF Found
    <3>2. bn \in first .. x + 1
        OBVIOUS
    <3> QED BY <1>5, <3>1, <3>2
  <2> QED BY <1>2, <2>1, <2>2
<1> QED BY <1>4, <1>7, <1>9 DEF Found

LEMMA Bmaps ==
    ASSUME NEW A \in [Files -> Inode], NEW i \in Files, NEW s, Sound(A, i, s), NEW first \in Nat, NEW last \in Int,
           first - 1 <= last, last <= NDIRECT + NINDIRECT - 1, NEW t, t = F!bmaps(s, first, last)
    PROVE  Sound(A, i, t) /\ (~t.full => Found(A, i, s, first, last, t))
<1>1. PICK g : Chain(g, s, first, last) /\ F!bmaps(s, first, last) = g[last]
    BY ChainExists
<1> DEFINE S == {b \in first - 1 .. last : Sound(A, i, g[b]) /\ (~g[b].full => Found(A, i, s, first, b, g[b]))}
<1>2. first - 1 \in S
  <2>1. first - 1 \in first - 1 .. last
      OBVIOUS
  <2>2. g[first - 1] = s
      BY <1>1, <2>1 DEF Chain
  <2>3. first .. first - 1 = {}
      OBVIOUS
  <2>4. Found(A, i, s, first, first - 1, s)
    <3>1. Grown(A, i, s, s)
        BY GrownSame
    <3> QED BY <2>3, <3>1 DEF Found
  <2> QED BY <2>1, <2>2, <2>4
<1>3. ASSUME NEW x \in first - 1 .. last - 1, x \in S PROVE x + 1 \in S
  <2>1. x + 1 \in first - 1 .. last /\ x + 1 # first - 1 /\ x + 1 - 1 = x /\ x + 1 \in 0 .. NDIRECT + NINDIRECT - 1
      BY FileNumbers
  <2>2. g[x + 1] = F!bmap(g[x], x + 1)
      BY <1>1, <2>1 DEF Chain
  <2>3. PICK r, u : r = g[x] /\ u = g[x + 1] /\ u = F!bmap(r, x + 1)
      BY <2>2
  <2>4. Sound(A, i, r) /\ (~r.full => Found(A, i, s, first, x, r))
      BY <1>3, <2>3
  <2>5. Sound(A, i, u) /\ (r.full => u.full)
    <3>1. PICK y \in 0 .. NDIRECT + NINDIRECT - 1 : y = x + 1
        BY <2>1
    <3> QED BY <2>3, <2>4, <3>1, Bmap
  <2>6. ASSUME ~u.full PROVE Found(A, i, s, first, x + 1, u)
    <3>1. Found(A, i, s, first, x, r) /\ x \in Int /\ first - 1 <= x /\ x < NDIRECT + NINDIRECT - 1
        BY <2>4, <2>5, <2>6, FileNumbers
    <3> QED BY <2>3, <2>4, <2>6, <3>1, FoundMore
  <2> QED BY <2>1, <2>3, <2>5, <2>6
<1>4. last \in S
  <2> HIDE DEF S
  <2>1. first - 1 \in Int
      OBVIOUS
  <2>2. first - 1 .. last \subseteq S
      BY <1>2, <1>3, <2>1, Upward
  <2> QED BY <2>2
<1> QED BY <1>1, <1>4

(* The block and the position of a unit.                                   *)
LEMMA UnitIs ==
    ASSUME NEW u \in Nat
    PROVE  /\ u \div BSIZE \in Nat /\ u % BSIZE \in 0 .. BSIZE - 1
           /\ u = BSIZE * (u \div BSIZE) + (u % BSIZE)
<1>1. BSIZE \in Nat \ {0}
    BY FileNumbers
<1>2. u = BSIZE * (u \div BSIZE) + (u % BSIZE)
    BY <1>1, Z3
<1>3. u \div BSIZE \in Nat
    BY <1>1, Z3
<1>4. u % BSIZE \in 0 .. BSIZE - 1
    BY <1>1, Z3
<1> QED BY <1>2, <1>3, <1>4

LEMMA UnitBelow ==
    ASSUME NEW u \in Nat, NEW c \in Nat, u < c * BSIZE
    PROVE  u \div BSIZE <= c - 1
<1>1. PICK B \in Nat : B = BSIZE /\ B > 0
    BY FileNumbers
<1>2. PICK x \in Nat : x = u \div B /\ B * x <= u
  <2>1. u \div BSIZE \in Nat /\ u % BSIZE \in 0 .. BSIZE - 1 /\ u = BSIZE * (u \div BSIZE) + (u % BSIZE)
      BY UnitIs
  <2>2. PICK x \in Nat, r \in 0 .. B - 1 : x = u \div B /\ u = B * x + r
      BY <1>1, <2>1
  <2> QED BY <1>1, <2>2
<1>3. B * x < c * B
    BY <1>1, <1>2
<1>4. ASSUME x >= c PROVE FALSE
  <2>1. PICK d \in Nat : x = c + d
      BY <1>4
  <2>2. B * x = c * B + B * d /\ B * d >= 0
      BY <1>1, <2>1
  <2>3. B * x \in Int /\ c * B \in Int /\ B * d \in Int
      BY <1>1
  <2> QED BY <1>3, <2>2, <2>3
<1> QED BY <1>1, <1>2, <1>4

(* Units that are no more than so many parts of a block apart.             *)
LEMMA UnitsNear ==
    ASSUME NEW a \in Nat, NEW z \in Nat, a <= z, NEW q \in Nat, z < a + q * BSIZE
    PROVE  a \div BSIZE <= z \div BSIZE /\ z \div BSIZE <= a \div BSIZE + q
<1>1. PICK B \in Nat : B = BSIZE /\ B > 0
    BY FileNumbers
<1>2. PICK x \in Nat : x = a \div B /\ B * x <= a /\ a < B * x + B
  <2>1. a \div BSIZE \in Nat /\ a % BSIZE \in 0 .. BSIZE - 1 /\ a = BSIZE * (a \div BSIZE) + (a % BSIZE)
      BY UnitIs
  <2>2. PICK x \in Nat, r \in 0 .. B - 1 : x = a \div B /\ a = B * x + r
      BY <1>1, <2>1
  <2> QED BY <1>1, <2>2
<1>3. z \div B <= x + q
  <2>1. PICK c \in Nat : c = x + q + 1
      OBVIOUS
  <2>2. c * B = B * x + q * B + B
      BY <1>1, <2>1
  <2>3. B * x \in Int /\ q * B \in Int
      BY <1>1
  <2>4. z < c * B
      BY <1>1, <1>2, <2>2, <2>3
  <2>5. z \div BSIZE <= c - 1
      BY <1>1, <2>4, UnitBelow
  <2> QED BY <1>1, <2>1, <2>5
<1>4. x <= z \div B
  <2>1. z \div BSIZE \in Nat /\ z % BSIZE \in 0 .. BSIZE - 1 /\ z = BSIZE * (z \div BSIZE) + (z % BSIZE)
      BY UnitIs
  <2>2. PICK y \in Nat, r \in 0 .. B - 1 : y = z \div B /\ z = B * y + r
      BY <1>1, <2>1
  <2>3. PICK c \in Nat : c = y + 1
      OBVIOUS
  <2>4. c * B = B * y + B /\ B * y \in Int
      BY <1>1, <2>3
  <2>5. a < c * B
      BY <1>1, <2>2, <2>4
  <2>6. a \div BSIZE <= c - 1
      BY <1>1, <2>5, UnitBelow
  <2> QED BY <1>1, <1>2, <2>2, <2>3, <2>6
<1> QED BY <1>1, <1>2, <1>3, <1>4

(* A unit is the only one at its position of its block.                    *)
LEMMA UnitOnly ==
    ASSUME NEW u \in Nat, NEW w \in Nat, u \div BSIZE = w \div BSIZE, u % BSIZE = w % BSIZE
    PROVE  u = w
<1>1. u = BSIZE * (u \div BSIZE) + (u % BSIZE)
    BY UnitIs
<1>2. w = BSIZE * (w \div BSIZE) + (w % BSIZE)
    BY UnitIs
<1>3. BSIZE * (u \div BSIZE) + (u % BSIZE) = BSIZE * (w \div BSIZE) + (w % BSIZE)
    OBVIOUS
<1> QED BY <1>1, <1>2, <1>3, Zenon

(* The place of a block number tells the block.                            *)
LEMMA PlaceOfOnly ==
    ASSUME NEW b \in Nat, NEW c \in Nat, PlaceOf(b) = PlaceOf(c)
    PROVE  b = c
BY FileNumbers DEF PlaceOf

(* The block of a unit is the one at its place, if there is one.           *)
LEMMA BlockIsRef ==
    ASSUME NEW A, NEW D, NEW i \in Files, NEW u, u \div BSIZE \in 0 .. NDIRECT + NINDIRECT - 1,
           Ref(A, D, i, PlaceOf(u \div BSIZE)) # 0
    PROVE  F!Block(A[i], D, u) = Ref(A, D, i, PlaceOf(u \div BSIZE))
<1>1. PICK bn \in 0 .. NDIRECT + NINDIRECT - 1 : bn = u \div BSIZE
    OBVIOUS
<1>2. F!Block(A[i], D, u) = IF bn < NDIRECT THEN A[i][bn] ELSE D[A[i][NDIRECT]][bn - NDIRECT]
    BY <1>1 DEF F!Block
<1>3. CASE bn < NDIRECT
  <2>1. bn \in 0 .. NDIRECT /\ PlaceOf(bn) = bn
      BY <1>3, PlaceOfBlock
  <2>2. Ref(A, D, i, bn) = A[i][bn]
      BY <2>1, RefDirect
  <2> QED BY <1>1, <1>2, <1>3, <2>1, <2>2
<1>4. CASE ~(bn < NDIRECT)
  <2>1. PICK h \in 0 .. NINDIRECT - 1 : h = bn - NDIRECT /\ PlaceOf(bn) = h + NDIRECT + 1
      BY <1>4, PlaceOfBlock
  <2>2. Ref(A, D, i, PlaceOf(bn)) = IF A[i][NDIRECT] = 0 THEN 0 ELSE D[A[i][NDIRECT]][h]
    <3>1. PICK g : g = PlaceOf(bn) /\ g = h + NDIRECT + 1
        BY <2>1
    <3>2. Ref(A, D, i, g) = IF A[i][NDIRECT] = 0 THEN 0 ELSE D[A[i][NDIRECT]][h]
      <4>1. g \in Int /\ ~(g <= NDIRECT) /\ g - NDIRECT - 1 = h
          BY <3>1, FileNumbers
      <4> QED BY <4>1 DEF Ref
    <3> QED BY <3>1, <3>2
  <2> QED BY <1>1, <1>2, <1>4, <2>1, <2>2
<1> QED BY <1>3, <1>4

(* What writei gives to bmap.                                              *)
Start(i) == [addrs |-> addrs[i], used |-> used, disk |-> disk, logged |-> {}, full |-> FALSE]

(* The part of process p's write that is next: m units of file i, in       *)
(* blocks first to last.                                                   *)
Part(p, i, m, first, last) ==
    /\ todo[p] # NONE /\ i = todo[p].file /\ i \in Files /\ m = F!part(todo[p].n) /\ m \in Nat \ {0} /\ m <= todo[p].n
    /\ F!Units(p) = off[i] .. off[i] + m - 1 /\ off[i] + m <= (NDIRECT + NINDIRECT) * BSIZE
    /\ first \in Nat /\ last \in Nat /\ first <= last /\ last <= NDIRECT + NINDIRECT - 1
    /\ last <= first + ((MAXOPBLOCKS - 4) \div 2)
    /\ \A u \in F!Units(p) : u \in Nat /\ u \div BSIZE \in first .. last
    /\ F!Mapped(p) = F!bmaps(Start(i), first, last)

LEMMA PartIs ==
    ASSUME FileIInv, NEW p \in Procs, F!Writing(p), F!Fits(todo[p].file, F!part(todo[p].n))
    PROVE  \E i, m, first, last : Part(p, i, m, first, last)
<1>1. Write(todo[p])
    BY DEF FileIInv, Writes, F!Writing
<1>2. PICK i \in Files, w \in Nat \ {0} : i = todo[p].file /\ w = todo[p].n
    BY <1>1 DEF Write
<1>3. PICK q \in Nat \ {0} : q = (MAXOPBLOCKS - 4) \div 2
  <2>1. MAXOPBLOCKS \in Nat /\ MAXOPBLOCKS >= 6
      BY FileNumbers
  <2>2. (MAXOPBLOCKS - 4) \div 2 \in Nat \ {0}
      BY <2>1
  <2> QED BY <2>2
<1>4. PICK B \in Nat \ {0} : B = BSIZE
    BY FileNumbers
<1>5. PICK Q \in Nat \ {0} : Q = q * B
  <2>1. q * B \in Nat \ {0}
      BY <1>3, <1>4
  <2> QED BY <2>1
<1>6. PICK m \in Nat \ {0} : m = F!part(w) /\ m <= w /\ m <= Q
  <2>1. F!part(w) = F!Min({w, Q})
      BY <1>3, <1>4, <1>5 DEF F!part
  <2>2. w \in Int /\ Q \in Int
      OBVIOUS
  <2>3. F!Min({w, Q}) = IF w <= Q THEN w ELSE Q
      BY <2>2, MaxOfTwo
  <2> QED BY <2>1, <2>3
<1>7. PICK a \in Nat : a = off[i]
    BY <1>2 DEF FileIInv, Reached
<1>8. PICK z \in Nat : z = a + m - 1 /\ a <= z
    OBVIOUS
<1>9. F!Units(p) = a .. z
    BY <1>2, <1>6, <1>7, <1>8 DEF F!Units
<1>10. F!Min(a .. z) = a /\ F!Max(a .. z) = z
    BY <1>8, EndsOf
<1>11. NDIRECT + NINDIRECT \in Nat
    BY FileNumbers
<1>12. PICK c \in Nat : c = NDIRECT + NINDIRECT
    BY <1>11
<1>13. a + m <= c * BSIZE
    BY <1>2, <1>6, <1>7, <1>12 DEF F!Fits, F!MAXFILE
<1>14. PICK first \in Nat, last \in Nat : first = a \div BSIZE /\ last = z \div BSIZE
    BY UnitIs
<1>15. c * BSIZE \in Int
    BY FileNumbers
<1>16. ASSUME NEW u \in a .. z PROVE u \in Nat /\ u \div BSIZE \in first .. last
  <2>0. u \in Nat /\ a <= u /\ u <= z
      OBVIOUS
  <2>1. first <= u \div BSIZE
    <3>1. u < a + (u + 1) * BSIZE
      <4>1. (u + 1) * B >= u + 1 /\ (u + 1) * B \in Int
          BY <2>0
      <4> QED BY <1>4, <2>0, <4>1
    <3>2. u + 1 \in Nat
        BY <2>0
    <3> QED BY <1>14, <2>0, <3>1, <3>2, UnitsNear
  <2>2. u \div BSIZE <= last
    <3>1. z < u + (z + 1) * BSIZE
      <4>1. (z + 1) * B >= z + 1 /\ (z + 1) * B \in Int
          BY <2>0
      <4> QED BY <1>4, <2>0, <4>1
    <3>2. z + 1 \in Nat
        OBVIOUS
    <3> QED BY <1>14, <2>0, <3>1, <3>2, UnitsNear
  <2>3. u \div BSIZE \in Nat
      BY <2>0, UnitIs
  <2> QED BY <2>0, <2>1, <2>2, <2>3
<1>17. last <= c - 1
  <2>1. z < c * BSIZE
      BY <1>8, <1>13, <1>15
  <2> QED BY <1>14, <2>1, UnitBelow
<1>18. first <= last /\ last <= first + q
  <2>1. z < a + q * BSIZE
      BY <1>4, <1>5, <1>6, <1>8
  <2> QED BY <1>8, <1>14, <2>1, UnitsNear
<1>19. F!Mapped(p) = F!bmaps(Start(i), first, last)
    BY <1>2, <1>9, <1>10, <1>14 DEF F!Mapped, Start
<1>20. Part(p, i, m, first, last)
  <2>1. i = todo[p].file /\ i \in Files /\ m = F!part(todo[p].n) /\ m \in Nat \ {0} /\ m <= todo[p].n
      BY <1>2, <1>6
  <2>2. F!Units(p) = off[i] .. off[i] + m - 1 /\ off[i] + m <= (NDIRECT + NINDIRECT) * BSIZE
      BY <1>7, <1>8, <1>9, <1>12, <1>13
  <2>3. last <= NDIRECT + NINDIRECT - 1 /\ last <= first + ((MAXOPBLOCKS - 4) \div 2)
    <3>1. last <= NDIRECT + NINDIRECT - 1
        BY <1>12, <1>17, FileNumbers
    <3>2. last <= first + ((MAXOPBLOCKS - 4) \div 2)
        BY <1>3, <1>18, Zenon
    <3> QED BY <3>1, <3>2
  <2>4. \A u \in F!Units(p) : u \in Nat /\ u \div BSIZE \in first .. last
      BY <1>9, <1>16
  <2>5. todo[p] # NONE
      BY DEF F!Writing
  <2> QED BY <2>1, <2>2, <2>3, <2>4, <2>5, <1>18, <1>19 DEF Part
<1> QED BY <1>20

(* The disk with the blocks of the part looked up, if it has room.         *)
LEMMA MappedIs ==
    ASSUME FileIInv, NEW p \in Procs, NEW i, NEW m, NEW first, NEW last, Part(p, i, m, first, last),
           NEW t, t = F!Mapped(p)
    PROVE  /\ Sound(addrs, i, t) /\ (~t.full => Found(addrs, i, Start(i), first, last, t))
           /\ \A j \in Files, k \in Places : At1(addrs, i, Start(i), j, k) = Ref(addrs, disk, j, k)
           /\ Start(i).disk = disk /\ Start(i).logged = {}
<1>1. i \in Files /\ first \in Nat /\ last \in Nat /\ first <= last /\ last <= NDIRECT + NINDIRECT - 1
    BY DEF Part
<1>2. Owned(addrs, disk, used) /\ addrs \in [Files -> Inode] /\ disk \in Contents /\ used \subseteq F!Blocks
    BY DEF FileIInv, Owned, DiskTypes
<1>3. With(addrs, i, Start(i)) = addrs
    BY <1>1, <1>2 DEF With, Start
<1>4. Start(i) \in Lookup
    BY <1>1, <1>2 DEF Start, Lookup
<1>5. Start(i).disk = disk /\ Start(i).used = used /\ Start(i).logged = {}
    BY DEF Start
<1>6. Sound(addrs, i, Start(i))
    BY <1>2, <1>3, <1>4, <1>5 DEF Sound
<1>7. Sound(addrs, i, t) /\ (~t.full => Found(addrs, i, Start(i), first, last, t))
  <2>1. t = F!bmaps(Start(i), first, last)
      BY DEF Part
  <2>2. first - 1 <= last
      BY <1>1
  <2> QED BY <1>1, <1>2, <1>6, <2>1, <2>2, Bmaps
<1> QED BY <1>3, <1>5, <1>7 DEF At1

(* The disk when writei has filled the units of the part.                  *)
Filled(p, t, v) == [b \in F!Blocks |-> [k \in F!Positions |->
    IF \E u \in F!Units(p) : F!Block(t.addrs, t.disk, u) = b /\ u % BSIZE = k THEN v ELSE t.disk[b][k]]]

(* Another map of the same blocks.                                         *)
LEMMA OwnedSame ==
    ASSUME NEW A, NEW D, NEW V, Owned(A, D, V), NEW D2 \in Contents,
           \A j \in Files, k \in Places : Ref(A, D2, j, k) = Ref(A, D, j, k)
    PROVE  Owned(A, D2, V)
<1>1. DiskTypes(A, D2, V)
    BY DEF Owned, DiskTypes
<1>2. \A j \in Files, k \in Places : Ref(A, D2, j, k) \in V \cup {0}
    BY DEF Owned
<1>3. \A j, l \in Files, k, h \in Places : Ref(A, D2, j, k) = Ref(A, D2, l, h) /\ Ref(A, D2, j, k) # 0 => j = l /\ k = h
    BY DEF Owned
<1>4. \A b \in V : \E j \in Files, k \in Places : Ref(A, D2, j, k) = b
    BY DEF Owned
<1> QED BY <1>1, <1>2, <1>3, <1>4 DEF Owned

(* What the hypotheses on a part and its disk give.                        *)
Fills(p, i, m, first, last, t, v, A2, D2) ==
    /\ FileIInv /\ p \in Procs /\ Part(p, i, m, first, last) /\ t = F!Mapped(p) /\ ~t.full /\ v \in Int
    /\ A2 = With(addrs, i, t) /\ D2 = Filled(p, t, v)

LEMMA FillsBlocks ==
    ASSUME NEW p, NEW i, NEW m, NEW first, NEW last, NEW t, NEW v, NEW A2, NEW D2,
           Fills(p, i, m, first, last, t, v, A2, D2), NEW u \in F!Units(p)
    PROVE  /\ PlaceOf(u \div BSIZE) \in Places /\ PlaceOf(u \div BSIZE) # NDIRECT /\ u \in Nat
           /\ Ref(A2, t.disk, i, PlaceOf(u \div BSIZE)) # 0
           /\ F!Block(t.addrs, t.disk, u) = Ref(A2, t.disk, i, PlaceOf(u \div BSIZE))
<1>1. FileIInv /\ p \in Procs /\ Part(p, i, m, first, last) /\ t = F!Mapped(p) /\ ~t.full /\ A2 = With(addrs, i, t)
    BY DEF Fills
<1>2. Found(addrs, i, Start(i), first, last, t)
    BY <1>1, MappedIs
<1>3. i \in Files /\ u \in Nat /\ u \div BSIZE \in first .. last
    BY <1>1 DEF Part
<1>4. u \div BSIZE \in 0 .. NDIRECT + NINDIRECT - 1
  <2>1. first \in Nat /\ last \in Nat /\ last <= NDIRECT + NINDIRECT - 1
      BY <1>1 DEF Part
  <2> QED BY <1>3, <2>1, FileNumbers
<1>5. PlaceOf(u \div BSIZE) \in Places /\ PlaceOf(u \div BSIZE) # NDIRECT
    BY <1>4, PlaceOfBlock
<1>6. Ref(A2, t.disk, i, PlaceOf(u \div BSIZE)) # 0
    BY <1>1, <1>2, <1>3 DEF Found, At1
<1>7. A2[i] = t.addrs
    BY <1>1, <1>3 DEF With, FileIInv, Owned, DiskTypes
<1>8. F!Block(A2[i], t.disk, u) = Ref(A2, t.disk, i, PlaceOf(u \div BSIZE))
    BY <1>3, <1>4, <1>6, BlockIsRef
<1> QED BY <1>3, <1>5, <1>6, <1>7, <1>8

(* writei leaves every place as bmap made it.                              *)
LEMMA FillsKeep ==
    ASSUME NEW p, NEW i, NEW m, NEW first, NEW last, NEW t, NEW v, NEW A2, NEW D2,
           Fills(p, i, m, first, last, t, v, A2, D2)
    PROVE  /\ Owned(A2, D2, t.used) /\ Owned(A2, t.disk, t.used)
           /\ \A j \in Files, k \in Places : Ref(A2, D2, j, k) = Ref(A2, t.disk, j, k)
<1>1. FileIInv /\ p \in Procs /\ Part(p, i, m, first, last) /\ t = F!Mapped(p) /\ ~t.full /\ v \in Int
      /\ A2 = With(addrs, i, t) /\ D2 = Filled(p, t, v)
    BY DEF Fills
<1>2. Sound(addrs, i, t)
    BY <1>1, MappedIs
<1>3. PICK D : D = t.disk
    OBVIOUS
<1>4. Owned(A2, D, t.used) /\ D \in Contents
    BY <1>1, <1>2, <1>3 DEF Sound, Lookup
<1>5. D2 \in Contents
  <2>1. \A b \in F!Blocks, k \in F!Positions : D[b][k] \in Int
      BY <1>4 DEF Contents
  <2> QED BY <1>1, <1>3, <2>1 DEF Filled, Contents
<1>6. ASSUME NEW j \in Files, A2[j][NDIRECT] # 0, NEW k \in F!Positions
      PROVE  D2[A2[j][NDIRECT]][k] = D[A2[j][NDIRECT]][k]
  <2>1. PICK a : a = A2[j][NDIRECT]
      OBVIOUS
  <2>2. a = Ref(A2, D, j, NDIRECT) /\ NDIRECT \in Places /\ a \in t.used
      BY <1>4, <1>6, <2>1, IndirectBlocks, PlaceKinds
  <2>3. a \in F!Blocks
      BY <1>4, <2>2 DEF Owned, DiskTypes
  <2>4. ~ \E u \in F!Units(p) : F!Block(t.addrs, t.disk, u) = a
    <3> SUFFICES ASSUME NEW u \in F!Units(p), F!Block(t.addrs, t.disk, u) = a PROVE FALSE
        OBVIOUS
    <3>1. /\ PlaceOf(u \div BSIZE) \in Places /\ PlaceOf(u \div BSIZE) # NDIRECT
          /\ Ref(A2, D, i, PlaceOf(u \div BSIZE)) # 0 /\ a = Ref(A2, D, i, PlaceOf(u \div BSIZE))
        BY <1>3, FillsBlocks
    <3>2. i \in Files
        BY <1>1 DEF Part
    <3>3. PICK g \in Places : g # NDIRECT /\ Ref(A2, D, i, g) # 0 /\ Ref(A2, D, i, g) = Ref(A2, D, j, NDIRECT)
        BY <2>2, <3>1
    <3>4. \A l, j0 \in Files, k0, h \in Places : Ref(A2, D, l, k0) = Ref(A2, D, j0, h) /\ Ref(A2, D, l, k0) # 0 => k0 = h
        BY <1>4 DEF Owned
    <3> QED BY <2>2, <3>2, <3>3, <3>4
  <2> QED BY <1>1, <1>3, <1>6, <2>1, <2>3, <2>4 DEF Filled
<1>7. ASSUME NEW j \in Files, NEW k \in Places PROVE Ref(A2, D2, j, k) = Ref(A2, D, j, k)
  <2>1. CASE k \in 0 .. NDIRECT
      BY <2>1, RefDirect
  <2>2. CASE k \notin 0 .. NDIRECT
    <3>1. PICK h \in 0 .. NINDIRECT - 1 : k = h + NDIRECT + 1
        BY <2>2, PlaceKinds
    <3>0. k \in Int /\ ~(k <= NDIRECT) /\ k - NDIRECT - 1 = h
        BY <3>1, FileNumbers
    <3>2. /\ Ref(A2, D2, j, k) = IF A2[j][NDIRECT] = 0 THEN 0 ELSE D2[A2[j][NDIRECT]][h]
          /\ Ref(A2, D, j, k) = IF A2[j][NDIRECT] = 0 THEN 0 ELSE D[A2[j][NDIRECT]][h]
        BY <3>0 DEF Ref
    <3>3. h \in F!Positions
        BY PositionsThere
    <3> QED BY <1>6, <3>2, <3>3
  <2> QED BY <2>1, <2>2
<1>8. Owned(A2, D2, t.used)
    BY <1>4, <1>5, <1>7, OwnedSame
<1> QED BY <1>3, <1>4, <1>7, <1>8

(* Every unit that was there stays at its block, and the units of the part *)
(* and no others have the value written.                                   *)
LEMMA FillsUnits ==
    ASSUME NEW p, NEW i, NEW m, NEW first, NEW last, NEW t, NEW v, NEW A2, NEW D2,
           Fills(p, i, m, first, last, t, v, A2, D2)
    PROVE  /\ \A j \in Files, k \in Places : Ref(addrs, disk, j, k) # 0 => Ref(A2, D2, j, k) = Ref(addrs, disk, j, k)
           /\ \A u \in F!Units(p) : /\ Ref(A2, D2, i, PlaceOf(u \div BSIZE)) # 0
                                    /\ D2[Ref(A2, D2, i, PlaceOf(u \div BSIZE))][u % BSIZE] = v
           /\ \A j \in Files, u \in Nat :
                PlaceOf(u \div BSIZE) \in Places /\ PlaceOf(u \div BSIZE) # NDIRECT
                /\ Ref(addrs, disk, j, PlaceOf(u \div BSIZE)) # 0 /\ ~(j = i /\ u \in F!Units(p)) =>
                   D2[Ref(addrs, disk, j, PlaceOf(u \div BSIZE))][u % BSIZE]
                     = disk[Ref(addrs, disk, j, PlaceOf(u \div BSIZE))][u % BSIZE]
<1>1. FileIInv /\ p \in Procs /\ Part(p, i, m, first, last) /\ t = F!Mapped(p) /\ ~t.full /\ v \in Int
      /\ A2 = With(addrs, i, t) /\ D2 = Filled(p, t, v)
    BY DEF Fills
<1>2. PICK D : D = t.disk
    OBVIOUS
<1>3. Owned(A2, D, t.used) /\ \A j \in Files, k \in Places : Ref(A2, D2, j, k) = Ref(A2, D, j, k)
    BY <1>2, FillsKeep
<1>4. /\ Grown(addrs, i, Start(i), t)
      /\ \A j \in Files, k \in Places : At1(addrs, i, Start(i), j, k) = Ref(addrs, disk, j, k)
      /\ Start(i).disk = disk
    BY <1>1, MappedIs DEF Found
<1>5. \A j \in Files, k \in Places : At1(addrs, i, t, j, k) = Ref(A2, D, j, k)
    BY <1>1, <1>2 DEF At1
<1>6. /\ \A j \in Files, k \in Places : Ref(addrs, disk, j, k) # 0 => Ref(A2, D, j, k) = Ref(addrs, disk, j, k)
      /\ \A j \in Files, k \in Places : k # NDIRECT /\ Ref(addrs, disk, j, k) # 0 =>
            D[Ref(addrs, disk, j, k)] = disk[Ref(addrs, disk, j, k)]
    BY <1>2, <1>4, <1>5 DEF Grown
<1>7. i \in Files
    BY <1>1 DEF Part
<1>8. \A j \in Files, k \in Places : Ref(A2, D, j, k) # 0 => Ref(A2, D, j, k) \in F!Blocks
    BY <1>3 DEF Owned, DiskTypes
<1>9. ASSUME NEW u \in F!Units(p)
      PROVE  /\ Ref(A2, D2, i, PlaceOf(u \div BSIZE)) # 0
             /\ D2[Ref(A2, D2, i, PlaceOf(u \div BSIZE))][u % BSIZE] = v
  <2>1. PICK g \in Places : g = PlaceOf(u \div BSIZE) /\ Ref(A2, D, i, g) # 0 /\ F!Block(t.addrs, t.disk, u) = Ref(A2, D, i, g)
      BY <1>2, FillsBlocks
  <2>2. PICK b \in F!Blocks : b = Ref(A2, D2, i, g) /\ b = F!Block(t.addrs, t.disk, u) /\ b # 0
      BY <1>3, <1>7, <1>8, <2>1
  <2>3. u % BSIZE \in F!Positions
      BY FillsBlocks, PositionsThere
  <2>4. D2[b][u % BSIZE] = v
      BY <1>1, <2>2, <2>3 DEF Filled
  <2> QED BY <2>1, <2>2, <2>4
<1>10. ASSUME NEW j \in Files, NEW u \in Nat, PlaceOf(u \div BSIZE) \in Places, PlaceOf(u \div BSIZE) # NDIRECT,
              Ref(addrs, disk, j, PlaceOf(u \div BSIZE)) # 0, ~(j = i /\ u \in F!Units(p))
       PROVE  D2[Ref(addrs, disk, j, PlaceOf(u \div BSIZE))][u % BSIZE] = disk[Ref(addrs, disk, j, PlaceOf(u \div BSIZE))][u % BSIZE]
  <2>1. PICK g \in Places : g = PlaceOf(u \div BSIZE) /\ g # NDIRECT /\ Ref(addrs, disk, j, g) # 0
      BY <1>10
  <2>2. PICK b \in F!Blocks : b = Ref(addrs, disk, j, g) /\ b = Ref(A2, D, j, g) /\ b # 0 /\ D[b] = disk[b]
      BY <1>6, <1>8, <2>1
  <2>3. PICK x \in F!Positions : x = u % BSIZE
      BY PositionsThere
  <2>4. ASSUME NEW w \in F!Units(p), F!Block(t.addrs, t.disk, w) = b, w % BSIZE = x PROVE FALSE
    <3>1. PICK h \in Places : h = PlaceOf(w \div BSIZE) /\ Ref(A2, D, i, h) # 0 /\ b = Ref(A2, D, i, h) /\ w \in Nat
        BY <1>2, <2>4, FillsBlocks
    <3>2. \A j0, l \in Files, k0, h0 \in Places :
             Ref(A2, D, j0, k0) = Ref(A2, D, l, h0) /\ Ref(A2, D, j0, k0) # 0 => j0 = l /\ k0 = h0
        BY <1>3 DEF Owned
    <3>3. j = i /\ g = h
      <4>1. Ref(A2, D, j, g) = Ref(A2, D, i, h) /\ Ref(A2, D, j, g) # 0
          BY <2>2, <3>1
      <4> QED BY ONLY j \in Files, g \in Places, h \in Places, <1>7, <4>1, <3>2
    <3>4. u \div BSIZE \in Nat /\ w \div BSIZE \in Nat
        BY <3>1, UnitIs
    <3>5. u \div BSIZE = w \div BSIZE
        BY <2>1, <3>1, <3>3, <3>4, PlaceOfOnly
    <3>6. u = w
        BY <2>3, <2>4, <3>1, <3>5, UnitOnly
    <3> QED BY <1>10, <3>3, <3>6
  <2>5. D2[b][x] = D[b][x]
      BY <1>1, <1>2, <2>4 DEF Filled
  <2> QED BY <2>1, <2>2, <2>3, <2>5
<1>11. \A j \in Files, k \in Places : Ref(addrs, disk, j, k) # 0 => Ref(A2, D2, j, k) = Ref(addrs, disk, j, k)
    BY <1>3, <1>6
<1>12. \A u \in F!Units(p) : /\ Ref(A2, D2, i, PlaceOf(u \div BSIZE)) # 0
                              /\ D2[Ref(A2, D2, i, PlaceOf(u \div BSIZE))][u % BSIZE] = v
    BY ONLY <1>9
<1>13. \A j \in Files, u \in Nat :
         PlaceOf(u \div BSIZE) \in Places /\ PlaceOf(u \div BSIZE) # NDIRECT
         /\ Ref(addrs, disk, j, PlaceOf(u \div BSIZE)) # 0 /\ ~(j = i /\ u \in F!Units(p)) =>
            D2[Ref(addrs, disk, j, PlaceOf(u \div BSIZE))][u % BSIZE]
              = disk[Ref(addrs, disk, j, PlaceOf(u \div BSIZE))][u % BSIZE]
    BY ONLY <1>10
<1> QED BY ONLY <1>11, <1>12, <1>13

LEMMA FileInit == F!Init => FileIInv
<1> SUFFICES ASSUME F!Init PROVE FileIInv
    OBVIOUS
<1>1. /\ addrs = [i \in Files |-> [k \in 0 .. NDIRECT |-> 0]] /\ disk = [b \in F!Blocks |-> F!Zeroed] /\ used = {}
      /\ isize = [i \in Files |-> 0] /\ off = [i \in Files |-> 0] /\ todo = [p \in Procs |-> NONE]
    BY DEF F!Init
<1>2. \A i \in Files, k \in 0 .. NDIRECT : addrs[i][k] = 0
    BY <1>1
<1>3. \A i \in Files, k \in Places : Ref(addrs, disk, i, k) = 0
  <2> SUFFICES ASSUME NEW i \in Files, NEW k \in Places PROVE Ref(addrs, disk, i, k) = 0
      OBVIOUS
  <2>1. CASE k <= NDIRECT
    <3>1. k \in 0 .. NDIRECT
        BY <2>1, FileNumbers DEF Places
    <3> QED BY <1>2, <2>1, <3>1 DEF Ref
  <2>2. CASE ~(k <= NDIRECT)
      BY <1>2, <2>2, PlaceKinds DEF Ref
  <2> QED BY <2>1, <2>2
<1>4. addrs \in [Files -> Inode] /\ disk \in Contents
  <2>1. [k \in 0 .. NDIRECT |-> 0] \in Inode
      BY DEF Inode
  <2>2. disk \in Contents
      BY <1>1, PositionsThere DEF Contents
  <2> QED BY <1>1, <2>1, <2>2
<1>5. Owned(addrs, disk, used)
    BY <1>1, <1>3, <1>4 DEF Owned, DiskTypes
<1>6. Reached(addrs, disk, isize, off)
  <2>1. PICK N \in Nat : N = (NDIRECT + NINDIRECT) * BSIZE
    <3>1. (NDIRECT + NINDIRECT) * BSIZE \in Nat
        BY FileNumbers
    <3> QED BY <3>1
  <2>2. \A i \in Files : isize[i] = 0 /\ off[i] = 0
      BY <1>1
  <2>3. 0 .. 0 - 1 = {}
      OBVIOUS
  <2>4. \A i \in Files : isize[i] <= (NDIRECT + NINDIRECT) * BSIZE /\ off[i] <= isize[i]
      BY <2>1, <2>2
  <2>5. \A i \in Files : 0 .. isize[i] - 1 = {}
      BY <2>2, <2>3
  <2>6. isize \in [Files -> Nat] /\ off \in [Files -> Nat]
      BY <1>1
  <2> QED BY <2>4, <2>5, <2>6 DEF Reached
<1>7. Writes
    BY <1>1 DEF Writes
<1> QED BY <1>5, <1>6, <1>7 DEF FileIInv

(* A file that does not change, but for its offset.                        *)
LEMMA FileSeeks ==
    ASSUME FileIInv, UNCHANGED <<addrs, isize, used, disk>>, Writes', NEW i \in Files, NEW k \in 0 .. isize[i],
           off' = off \/ off' = [off EXCEPT ![i] = k]
    PROVE  FileIInv'
<1>1. isize \in [Files -> Nat] /\ off \in [Files -> Nat] /\ \A j \in Files : off[j] <= isize[j]
    BY DEF FileIInv, Reached
<1>2. off' \in [Files -> Nat] /\ \A j \in Files : off'[j] <= isize[j]
  <2>1. k \in Nat /\ k <= isize[i]
      BY <1>1
  <2>2. CASE off' = off
      BY <1>1, <2>2
  <2>3. CASE off' = [off EXCEPT ![i] = k]
      BY <1>1, <2>1, <2>3
  <2> QED BY <2>2, <2>3
<1>3. Owned(addrs', disk', used')
    BY DEF FileIInv
<1>4. Reached(addrs', disk', isize', off')
  <2>1. Reached(addrs, disk, isize, off)
      BY DEF FileIInv
  <2> QED BY <1>2, <2>1 DEF Reached
<1> QED BY <1>3, <1>4 DEF FileIInv

LEMMA FilewriteStep ==
    ASSUME FileIInv, NEW p \in Procs, NEW i \in Files, NEW m \in FileSizes[i], NEW v \in FileVals[i], F!filewrite(p, i, m, v)
    PROVE  FileIInv'
<1>1. todo' = [todo EXCEPT ![p] = [file |-> i, n |-> m, v |-> v]] /\ UNCHANGED <<addrs, isize, used, disk, off>>
    BY DEF F!filewrite
<1>2. todo = [q \in Procs |-> todo[q]] /\ \A q \in Procs : todo[q] # NONE => Write(todo[q])
    BY DEF FileIInv, Writes
<1>3. Write([file |-> i, n |-> m, v |-> v])
  <2>1. m \in Nat \ {0} /\ m <= m
      BY FileAssumption
  <2> QED BY <2>1 DEF Write
<1>4. Writes'
  <2>1. todo' = [q \in Procs |-> todo'[q]] /\ todo'[p] = [file |-> i, n |-> m, v |-> v] /\ \A q \in Procs : q # p => todo'[q] = todo[q]
      BY <1>1, <1>2
  <2> QED BY <1>2, <1>3, <2>1 DEF Writes
<1>5. 0 \in 0 .. isize[i]
    BY DEF FileIInv, Reached
<1> QED BY <1>1, <1>4, <1>5, FileSeeks

(* A process whose write is over.                                          *)
LEMMA WriteDone ==
    ASSUME Writes, NEW p \in Procs, todo' = [todo EXCEPT ![p] = NONE]
    PROVE  Writes'
<1>1. todo' = [q \in Procs |-> todo'[q]] /\ todo'[p] = NONE /\ \A q \in Procs : q # p => todo'[q] = todo[q]
    BY DEF Writes
<1> QED BY <1>1 DEF Writes

LEMMA WriteiFailsStep ==
    ASSUME FileIInv, NEW p \in Procs, NEW i \in Files, F!writei_fails(p)
    PROVE  FileIInv'
<1>1. todo' = [todo EXCEPT ![p] = NONE] /\ UNCHANGED <<addrs, isize, used, disk, off>>
    BY DEF F!writei_fails
<1>2. Writes'
    BY <1>1, WriteDone DEF FileIInv
<1>3. 0 \in 0 .. isize[i]
    BY DEF FileIInv, Reached
<1> QED BY <1>1, <1>2, <1>3, FileSeeks

(* Where fileread leaves the offset.                                       *)
LEMMA FilereadIs ==
    ASSUME FileIInv, NEW i \in Files, NEW m \in FileSizes[i], F!fileread(i, m)
    PROVE  \E k \in 0 .. isize[i] : off' = [off EXCEPT ![i] = k]
<1>1. isize[i] \in Nat /\ off[i] \in Nat /\ m \in Nat
    BY FileAssumption DEF FileIInv, Reached
<1>2. F!Min({off[i] + m, isize[i]}) = IF off[i] + m <= isize[i] THEN off[i] + m ELSE isize[i]
  <2>1. off[i] + m \in Int /\ isize[i] \in Int
      BY <1>1
  <2> QED BY <2>1, MaxOfTwo
<1>3. F!Min({off[i] + m, isize[i]}) \in 0 .. isize[i]
    BY <1>1, <1>2
<1>4. off' = [off EXCEPT ![i] = F!Min({off[i] + m, isize[i]})]
    BY DEF F!fileread
<1> QED BY <1>3, <1>4

LEMMA FilereadStep ==
    ASSUME FileIInv, NEW i \in Files, NEW m \in FileSizes[i], F!fileread(i, m)
    PROVE  FileIInv'
<1>1. PICK k \in 0 .. isize[i] : off' = [off EXCEPT ![i] = k]
    BY FilereadIs
<1>2. UNCHANGED <<addrs, isize, used, disk, todo>>
    BY DEF F!fileread
<1>3. Writes'
    BY <1>2 DEF FileIInv, Writes
<1> QED BY <1>1, <1>2, <1>3, FileSeeks

LEMMA OpenStep ==
    ASSUME FileIInv, NEW i \in Files, F!sys_open(i)
    PROVE  FileIInv'
<1>1. off' = [off EXCEPT ![i] = 0] /\ UNCHANGED <<addrs, isize, used, disk, todo>>
    BY DEF F!sys_open
<1>2. Writes'
    BY <1>1 DEF FileIInv, Writes
<1>3. 0 \in 0 .. isize[i]
    BY DEF FileIInv, Reached
<1> QED BY <1>1, <1>2, <1>3, FileSeeks

(* A part that is written, in terms of the lemmas above.                   *)
WritesPart(p, i, m, first, last, t, A2, D2) ==
    /\ Fills(p, i, m, first, last, t, todo[p].v, A2, D2) /\ off[i] <= isize[i]
    /\ addrs' = A2 /\ used' = t.used /\ disk' = D2
    /\ isize' = [isize EXCEPT ![i] = F!Max({isize[i], off[i] + m})]
    /\ off' = [off EXCEPT ![i] = off[i] + m]
    /\ todo' = [todo EXCEPT ![p] = IF m = todo[p].n THEN NONE ELSE [todo[p] EXCEPT !.n = todo[p].n - m]]

LEMMA WriteiIs ==
    ASSUME FileIInv, NEW p \in Procs, F!writei(p)
    PROVE  \/ UNCHANGED <<addrs, isize, used, disk, off, todo>>
           \/ \E i, m, first, last, t, A2, D2 : WritesPart(p, i, m, first, last, t, A2, D2)
<1>1. F!Writing(p) /\ F!Fits(todo[p].file, F!part(todo[p].n))
    BY DEF F!writei
<1>2. PICK i, m, first, last : Part(p, i, m, first, last)
    BY <1>1, PartIs
<1>3. i = todo[p].file /\ m = F!part(todo[p].n) /\ i \in Files
    BY <1>2 DEF Part
<1>4. PICK t : t = F!Mapped(p)
    OBVIOUS
<1>5. CASE t.full
    BY <1>4, <1>5 DEF F!writei
<1>6. CASE ~t.full
  <2>1. PICK A2, D2 : A2 = With(addrs, i, t) /\ D2 = Filled(p, t, todo[p].v)
      OBVIOUS
  <2>2. /\ addrs' = [addrs EXCEPT ![i] = t.addrs] /\ used' = t.used
        /\ isize' = [isize EXCEPT ![i] = F!Max({isize[i], off[i] + m})]
        /\ off' = [off EXCEPT ![i] = off[i] + m]
        /\ todo' = [todo EXCEPT ![p] = IF m = todo[p].n THEN NONE ELSE [todo[p] EXCEPT !.n = todo[p].n - m]]
    <3>1. addrs' = [addrs EXCEPT ![i] = t.addrs] /\ used' = t.used
        BY <1>3, <1>4, <1>6 DEF F!writei
    <3>2. isize' = [isize EXCEPT ![i] = F!Max({isize[i], off[i] + m})]
        BY <1>3, <1>4, <1>6 DEF F!writei
    <3>3. off' = [off EXCEPT ![i] = off[i] + m]
        BY <1>3, <1>4, <1>6 DEF F!writei
    <3>4. todo' = [todo EXCEPT ![p] = IF m = todo[p].n THEN NONE ELSE [todo[p] EXCEPT !.n = todo[p].n - m]]
      <4>1. ~F!Mapped(p).full
          BY <1>4, <1>6
      <4>2. todo' = [todo EXCEPT ![p] = IF F!part(todo[p].n) = todo[p].n THEN NONE
                                        ELSE [todo[p] EXCEPT !.n = todo[p].n - F!part(todo[p].n)]]
          BY <4>1, Zenon DEF F!writei
      <4> QED BY <1>3, <4>2, Zenon
    <3> QED BY <3>1, <3>2, <3>3, <3>4
  <2>3. disk' = D2
      BY <1>4, <1>6, <2>1 DEF F!writei, Filled
  <2>4. todo[p].v \in Int
    <3>1. Write(todo[p])
        BY <1>1 DEF FileIInv, Writes, F!Writing
    <3> QED BY <3>1, FileAssumption DEF Write
  <2>5. off[i] <= isize[i]
      BY <1>3 DEF FileIInv, Reached
  <2>6. Fills(p, i, m, first, last, t, todo[p].v, A2, D2)
      BY <1>2, <1>4, <1>6, <2>1, <2>4 DEF Fills
  <2>7. addrs' = A2
      BY <2>1, <2>2 DEF With
  <2>8. WritesPart(p, i, m, first, last, t, A2, D2)
      BY <2>2, <2>3, <2>5, <2>6, <2>7 DEF WritesPart
  <2> QED BY <2>8
<1> QED BY <1>5, <1>6

(* The sizes and the offset after a part.                                  *)
LEMMA PartSizes ==
    ASSUME FileIInv, NEW p \in Procs, NEW i, NEW m, NEW first, NEW last, NEW t, NEW A2, NEW D2,
           WritesPart(p, i, m, first, last, t, A2, D2)
    PROVE  /\ i \in Files /\ m \in Nat \ {0} /\ off[i] \in Nat /\ isize[i] \in Nat /\ off[i] <= isize[i]
           /\ off[i] + m <= (NDIRECT + NINDIRECT) * BSIZE /\ F!Units(p) = off[i] .. off[i] + m - 1
           /\ isize' \in [Files -> Nat] /\ off' \in [Files -> Nat]
           /\ isize'[i] = (IF isize[i] >= off[i] + m THEN isize[i] ELSE off[i] + m) /\ off'[i] = off[i] + m
           /\ \A j \in Files : j # i => isize'[j] = isize[j] /\ off'[j] = off[j]
<1>1. Part(p, i, m, first, last) /\ off[i] <= isize[i]
    BY DEF WritesPart, Fills
<1>2. /\ i \in Files /\ m \in Nat \ {0} /\ off[i] + m <= (NDIRECT + NINDIRECT) * BSIZE
      /\ F!Units(p) = off[i] .. off[i] + m - 1
    BY <1>1 DEF Part
<1>3. isize \in [Files -> Nat] /\ off \in [Files -> Nat] /\ off[i] \in Nat /\ isize[i] \in Nat
    BY <1>2 DEF FileIInv, Reached
<1>4. PICK a \in Nat, z \in Nat, c \in Nat : a = off[i] /\ z = isize[i] /\ c = a + m
    BY <1>2, <1>3
<1>5. F!Max({z, c}) = IF z >= c THEN z ELSE c
    BY MaxOfTwo
<1>6. F!Max({z, c}) \in Nat
    BY <1>5
<1>7. isize' = [isize EXCEPT ![i] = F!Max({z, c})] /\ off' = [off EXCEPT ![i] = c]
    BY <1>4 DEF WritesPart
<1>8. isize' \in [Files -> Nat] /\ off' \in [Files -> Nat]
    BY <1>3, <1>6, <1>7
<1>9. /\ isize'[i] = F!Max({z, c}) /\ off'[i] = c
      /\ \A j \in Files : j # i => isize'[j] = isize[j] /\ off'[j] = off[j]
    BY <1>2, <1>3, <1>7
<1> QED BY <1>1, <1>2, <1>3, <1>4, <1>5, <1>8, <1>9

LEMMA WriteiStep ==
    ASSUME FileIInv, NEW p \in Procs, NEW i, NEW m, NEW first, NEW last, NEW t, NEW A2, NEW D2,
           WritesPart(p, i, m, first, last, t, A2, D2)
    PROVE  FileIInv'
<1>1. Fills(p, i, m, first, last, t, todo[p].v, A2, D2) /\ Part(p, i, m, first, last)
    BY DEF WritesPart, Fills
<1>2. addrs' = A2 /\ used' = t.used /\ disk' = D2
    BY DEF WritesPart
<1>3. Owned(addrs', disk', used')
    BY <1>1, <1>2, FillsKeep
<1>4. /\ i \in Files /\ m \in Nat \ {0} /\ off[i] \in Nat /\ isize[i] \in Nat /\ off[i] <= isize[i]
      /\ off[i] + m <= (NDIRECT + NINDIRECT) * BSIZE /\ F!Units(p) = off[i] .. off[i] + m - 1
      /\ isize' \in [Files -> Nat] /\ off' \in [Files -> Nat]
      /\ isize'[i] = (IF isize[i] >= off[i] + m THEN isize[i] ELSE off[i] + m) /\ off'[i] = off[i] + m
      /\ \A j \in Files : j # i => isize'[j] = isize[j] /\ off'[j] = off[j]
    BY PartSizes
<1>5. /\ isize \in [Files -> Nat] /\ off \in [Files -> Nat]
      /\ \A j \in Files : isize[j] <= (NDIRECT + NINDIRECT) * BSIZE /\ off[j] <= isize[j]
      /\ \A j \in Files : \A u \in 0 .. isize[j] - 1 : Ref(addrs, disk, j, PlaceOf(u \div BSIZE)) # 0
    BY DEF FileIInv, Reached
<1>6. PICK N \in Nat : N = (NDIRECT + NINDIRECT) * BSIZE
  <2>1. (NDIRECT + NINDIRECT) * BSIZE \in Nat
      BY FileNumbers
  <2> QED BY <2>1
<1>7. \A j \in Files : isize'[j] <= N /\ off'[j] <= isize'[j]
    BY <1>4, <1>5, <1>6
<1>8. ASSUME NEW j \in Files, NEW u \in 0 .. isize'[j] - 1 PROVE Ref(A2, D2, j, PlaceOf(u \div BSIZE)) # 0
  <2>1. CASE u \in 0 .. isize[j] - 1
    <3>1. PICK g : g = PlaceOf(u \div BSIZE) /\ Ref(addrs, disk, j, g) # 0
        BY <1>5, <2>1
    <3>2. u \in Nat /\ u < N
        BY <1>5, <1>6, <2>1
    <3>3. g \in Places
      <4>1. PICK c \in Nat : c = NDIRECT + NINDIRECT
          BY FileNumbers
      <4>2. u \div BSIZE <= c - 1 /\ u \div BSIZE \in Nat
          BY <1>6, <3>2, <4>1, UnitBelow, UnitIs
      <4>3. u \div BSIZE \in 0 .. NDIRECT + NINDIRECT - 1
          BY <4>1, <4>2, FileNumbers
      <4> QED BY <3>1, <4>3, PlaceOfBlock
    <3>4. Ref(A2, D2, j, g) = Ref(addrs, disk, j, g)
        BY <1>1, <3>1, <3>3, FillsUnits
    <3> QED BY <3>1, <3>4
  <2>2. CASE u \notin 0 .. isize[j] - 1
    <3>1. j = i /\ u \in F!Units(p)
      <4>1. j = i
          BY <1>4, <2>2
      <4> QED BY <1>4, <2>2, <4>1
    <3> QED BY <1>1, <3>1, FillsUnits
  <2> QED BY <2>1, <2>2
<1>9. Reached(addrs', disk', isize', off')
    BY <1>2, <1>4, <1>6, <1>7, <1>8 DEF Reached
<1>10. Writes'
  <2>1. todo = [q \in Procs |-> todo[q]] /\ \A q \in Procs : todo[q] # NONE => Write(todo[q])
      BY DEF FileIInv, Writes
  <2>2. todo' = [todo EXCEPT ![p] = IF m = todo[p].n THEN NONE ELSE [todo[p] EXCEPT !.n = todo[p].n - m]]
      BY DEF WritesPart
  <2>3. CASE m = todo[p].n
      BY <2>2, <2>3, WriteDone DEF FileIInv
  <2>4. CASE m # todo[p].n
    <3>1. m <= todo[p].n
        BY <1>1 DEF Part
    <3>2. ASSUME todo[p] # NONE PROVE Write([todo[p] EXCEPT !.n = todo[p].n - m])
      <4>1. PICK w : w = todo[p] /\ Write(w)
          BY <2>1, <3>2
      <4>2. PICK f, x, v : f \in Files /\ x \in Nat \ {0} /\ w = [file |-> f, n |-> x, v |-> v] /\ w.file = f /\ w.n = x /\ w.v = v
          BY <4>1 DEF Write
      <4>3. PICK y \in Nat \ {0} : y = x - m /\ y <= x
          BY <1>4, <2>4, <3>1, <4>1, <4>2
      <4>4. PICK r : r = [todo[p] EXCEPT !.n = todo[p].n - m]
          OBVIOUS
      <4>5. r = [file |-> f, n |-> y, v |-> v]
        <5>1. r = [w EXCEPT !.n = y]
            BY <4>1, <4>2, <4>3, <4>4, Zenon
        <5>2. r = [[file |-> f, n |-> x, v |-> v] EXCEPT !.n = y]
            BY <4>2, <5>1, Zenon
        <5> QED BY ONLY <5>2
      <4>6. v \in FileVals[f] /\ \E h \in FileSizes[f] : y <= h
        <5>1. PICK h \in FileSizes[f] : x <= h
            BY <4>1, <4>2 DEF Write
        <5>2. h \in Nat
            BY <4>2, FileAssumption
        <5> QED BY <4>1, <4>2, <4>3, <5>1, <5>2 DEF Write
      <4>7. Write(r)
          BY <4>2, <4>5, <4>6 DEF Write
      <4> QED BY <4>4, <4>7
    <3>3. PICK r : r = [todo[p] EXCEPT !.n = todo[p].n - m]
        OBVIOUS
    <3>4. todo' = [todo EXCEPT ![p] = r]
        BY <2>2, <2>4, <3>3
    <3>5. todo[p] # NONE
        BY <1>1 DEF Part
    <3>6. todo' = [q \in Procs |-> todo'[q]] /\ todo'[p] = r /\ \A q \in Procs : q # p => todo'[q] = todo[q]
        BY <2>1, <3>4
    <3> QED BY <2>1, <3>2, <3>3, <3>5, <3>6 DEF Writes
  <2> QED BY <2>3, <2>4
<1> QED BY <1>3, <1>9, <1>10 DEF FileIInv

(* The blocks of a file are those at its places.                           *)
LEMMA FileBlocksAre ==
    ASSUME NEW i \in Files
    PROVE  F!Direct(i) \cup F!Indirect(i) = {Ref(addrs, disk, i, k) : k \in Places} \ {0}
<1>1. ASSUME NEW b, b \in F!Direct(i) \cup F!Indirect(i) PROVE b # 0 /\ \E k \in Places : b = Ref(addrs, disk, i, k)
  <2>1. CASE b \in F!Direct(i)
    <3>1. PICK k \in 0 .. NDIRECT : b = addrs[i][k] /\ b # 0
        BY <2>1 DEF F!Direct
    <3>2. k \in Places /\ Ref(addrs, disk, i, k) = addrs[i][k]
        BY RefDirect
    <3> QED BY <3>1, <3>2
  <2>2. CASE b \in F!Indirect(i)
    <3>1. addrs[i][NDIRECT] # 0
        BY <2>2 DEF F!Indirect
    <3>2. PICK k \in 0 .. NINDIRECT - 1 : b = disk[addrs[i][NDIRECT]][k] /\ b # 0
        BY <2>2, <3>1 DEF F!Indirect
    <3>3. PICK g : g = k + NDIRECT + 1
        OBVIOUS
    <3>4. g \in Int /\ ~(g <= NDIRECT) /\ g - NDIRECT - 1 = k /\ g \in Places
        BY <3>3, FileNumbers DEF Places
    <3>5. Ref(addrs, disk, i, g) = b
        BY <3>1, <3>2, <3>4 DEF Ref
    <3> QED BY <3>2, <3>4, <3>5
  <2> QED BY <1>1, <2>1, <2>2
<1>2. ASSUME NEW k \in Places, Ref(addrs, disk, i, k) # 0 PROVE Ref(addrs, disk, i, k) \in F!Direct(i) \cup F!Indirect(i)
  <2>1. CASE k \in 0 .. NDIRECT
    <3>1. Ref(addrs, disk, i, k) = addrs[i][k]
        BY <2>1, RefDirect
    <3> QED BY <1>2, <2>1, <3>1 DEF F!Direct
  <2>2. CASE k \notin 0 .. NDIRECT
    <3>1. PICK h \in 0 .. NINDIRECT - 1 : k = h + NDIRECT + 1
        BY <2>2, PlaceKinds
    <3>2. k \in Int /\ ~(k <= NDIRECT) /\ k - NDIRECT - 1 = h
        BY <3>1, FileNumbers
    <3>3. addrs[i][NDIRECT] # 0 /\ Ref(addrs, disk, i, k) = disk[addrs[i][NDIRECT]][h]
        BY <1>2, <3>2 DEF Ref
    <3> QED BY <1>2, <3>3 DEF F!Indirect
  <2> QED BY <2>1, <2>2
<1> QED BY <1>1, <1>2

LEMMA ItruncStep ==
    ASSUME FileIInv, NEW i \in Files, F!itrunc(i)
    PROVE  FileIInv' /\ ~broken'
<1>1. PICK R : R = F!Direct(i) \cup F!Indirect(i)
    OBVIOUS
<1>2. /\ used' = used \ R /\ (broken' <=> ~(R \subseteq used))
      /\ addrs' = [addrs EXCEPT ![i] = [k \in 0 .. NDIRECT |-> 0]]
      /\ isize' = [isize EXCEPT ![i] = 0] /\ off' = [off EXCEPT ![i] = 0] /\ disk' = disk /\ todo' = todo
    BY <1>1 DEF F!itrunc, F!Truncate
<1>3. R = {Ref(addrs, disk, i, k) : k \in Places} \ {0}
    BY <1>1, FileBlocksAre
<1>4. Owned(addrs, disk, used) /\ addrs \in [Files -> Inode] /\ disk \in Contents /\ used \subseteq F!Blocks
    BY DEF FileIInv, Owned, DiskTypes
<1>5. R \subseteq used
    BY <1>3, <1>4 DEF Owned
<1>6. addrs'[i] = [k \in 0 .. NDIRECT |-> 0] /\ \A j \in Files : j # i => addrs'[j] = addrs[j]
    BY <1>2, <1>4
<1>7. addrs' \in [Files -> Inode]
  <2>1. [k \in 0 .. NDIRECT |-> 0] \in Inode
      BY DEF Inode
  <2> QED BY <1>2, <1>4, <2>1
<1>8. ASSUME NEW j \in Files, NEW k \in Places PROVE Ref(addrs', disk, j, k) = IF j = i THEN 0 ELSE Ref(addrs, disk, j, k)
  <2>1. CASE j = i
    <3>1. addrs'[i][NDIRECT] = 0 /\ \A h \in 0 .. NDIRECT : addrs'[i][h] = 0
        BY <1>6, PlaceKinds
    <3>2. CASE k \in 0 .. NDIRECT
        BY <2>1, <3>1, <3>2, RefDirect
    <3>3. CASE k \notin 0 .. NDIRECT
      <4>1. ~(k <= NDIRECT)
          BY <3>3, FileNumbers DEF Places
      <4> QED BY <2>1, <3>1, <4>1 DEF Ref
    <3> QED BY <3>2, <3>3
  <2>2. CASE j # i
      BY <1>6, <2>2 DEF Ref
  <2> QED BY <2>1, <2>2
<1>9. Owned(addrs', disk, used \ R)
  <2>1. DiskTypes(addrs', disk, used \ R)
      BY <1>4, <1>7 DEF DiskTypes
  <2>2. \A j, l \in Files, k, m \in Places : Ref(addrs, disk, j, k) = Ref(addrs, disk, l, m) /\ Ref(addrs, disk, j, k) # 0 => j = l /\ k = m
      BY <1>4 DEF Owned
  <2>3. \A j \in Files, k \in Places : j # i => Ref(addrs, disk, j, k) \in (used \ R) \cup {0}
    <3> SUFFICES ASSUME NEW j \in Files, NEW k \in Places, j # i, Ref(addrs, disk, j, k) # 0
                 PROVE  Ref(addrs, disk, j, k) \in used \ R
        OBVIOUS
    <3>1. Ref(addrs, disk, j, k) \in used
        BY <1>4 DEF Owned
    <3>2. ASSUME NEW m \in Places, Ref(addrs, disk, j, k) = Ref(addrs, disk, i, m) PROVE FALSE
        BY <2>2, <3>2
    <3> QED BY <1>3, <3>1, <3>2
  <2>4. \A b \in used \ R : \E j \in Files, k \in Places : Ref(addrs', disk, j, k) = b
    <3> SUFFICES ASSUME NEW b \in used \ R PROVE \E j \in Files, k \in Places : Ref(addrs', disk, j, k) = b
        OBVIOUS
    <3>0. b # 0
        BY <1>4, FileNumbers
    <3>1. PICK j \in Files, k \in Places : Ref(addrs, disk, j, k) = b
        BY <1>4 DEF Owned
    <3>2. j # i
        BY <1>3, <3>0, <3>1
    <3> QED BY <1>8, <3>1, <3>2
  <2>5. \A j \in Files, k \in Places : Ref(addrs', disk, j, k) \in (used \ R) \cup {0}
      BY <1>8, <2>3
  <2>6. \A j, l \in Files, k, m \in Places : Ref(addrs', disk, j, k) = Ref(addrs', disk, l, m) /\ Ref(addrs', disk, j, k) # 0 => j = l /\ k = m
    <3> SUFFICES ASSUME NEW j \in Files, NEW l \in Files, NEW k \in Places, NEW m \in Places,
                        Ref(addrs', disk, j, k) = Ref(addrs', disk, l, m), Ref(addrs', disk, j, k) # 0
                 PROVE  j = l /\ k = m
        OBVIOUS
    <3>1. Ref(addrs', disk, j, k) = Ref(addrs, disk, j, k) /\ Ref(addrs', disk, l, m) = Ref(addrs, disk, l, m)
        BY <1>8
    <3>2. Ref(addrs, disk, j, k) = Ref(addrs, disk, l, m) /\ Ref(addrs, disk, j, k) # 0
        BY <3>1
    <3> QED BY ONLY j \in Files, l \in Files, k \in Places, m \in Places, <2>2, <3>2
  <2> QED BY <2>1, <2>4, <2>5, <2>6 DEF Owned
<1>10. Reached(addrs', disk, isize', off')
  <2>1. /\ isize \in [Files -> Nat] /\ off \in [Files -> Nat]
        /\ \A j \in Files : isize[j] <= (NDIRECT + NINDIRECT) * BSIZE /\ off[j] <= isize[j]
        /\ \A j \in Files : \A u \in 0 .. isize[j] - 1 : Ref(addrs, disk, j, PlaceOf(u \div BSIZE)) # 0
      BY DEF FileIInv, Reached
  <2>2. PICK N \in Nat : N = (NDIRECT + NINDIRECT) * BSIZE
    <3>1. (NDIRECT + NINDIRECT) * BSIZE \in Nat
        BY FileNumbers
    <3> QED BY <3>1
  <2>3. isize'[i] = 0 /\ off'[i] = 0 /\ \A j \in Files : j # i => isize'[j] = isize[j] /\ off'[j] = off[j]
      BY <1>2, <2>1
  <2>4. isize' \in [Files -> Nat] /\ off' \in [Files -> Nat]
      BY <1>2, <2>1
  <2>5. \A j \in Files : isize'[j] <= N /\ off'[j] <= isize'[j]
      BY <2>1, <2>2, <2>3
  <2>6. ASSUME NEW j \in Files, NEW u \in 0 .. isize'[j] - 1 PROVE Ref(addrs', disk, j, PlaceOf(u \div BSIZE)) # 0
    <3>1. j # i
        BY <2>3
    <3>2. Ref(addrs, disk, j, PlaceOf(u \div BSIZE)) # 0
        BY <2>1, <2>3, <3>1
    <3>3. Ref(addrs', disk, j, PlaceOf(u \div BSIZE)) = Ref(addrs, disk, j, PlaceOf(u \div BSIZE))
        BY <1>6, <3>1 DEF Ref
    <3> QED BY <3>2, <3>3
  <2> QED BY <2>2, <2>4, <2>5, <2>6 DEF Reached
<1>11. Writes'
    BY <1>2 DEF FileIInv, Writes
<1> QED BY <1>2, <1>5, <1>9, <1>10, <1>11 DEF FileIInv

LEMMA FileStep == FileIInv /\ [F!Next]_F!dvars => FileIInv'
<1> SUFFICES ASSUME FileIInv, [F!Next]_F!dvars PROVE FileIInv'
    OBVIOUS
<1>1. CASE UNCHANGED F!dvars
    BY <1>1 DEF F!dvars, FileIInv, Writes
<1>2. ASSUME NEW i \in Files, NEW p \in Procs, NEW m \in FileSizes[i], NEW v \in FileVals[i], F!filewrite(p, i, m, v) PROVE FileIInv'
    BY <1>2, FilewriteStep
<1>3. ASSUME NEW p \in Procs, F!writei(p) PROVE FileIInv'
  <2>1. CASE UNCHANGED <<addrs, isize, used, disk, off, todo>>
      BY <2>1 DEF FileIInv, Writes
  <2>2. ASSUME NEW i, NEW m, NEW first, NEW last, NEW t, NEW A2, NEW D2, WritesPart(p, i, m, first, last, t, A2, D2) PROVE FileIInv'
      BY <2>2, WriteiStep
  <2> QED BY <1>3, <2>1, <2>2, WriteiIs
<1>4. ASSUME NEW i \in Files, NEW p \in Procs, F!writei_fails(p) PROVE FileIInv'
    BY <1>4, WriteiFailsStep
<1>5. ASSUME NEW i \in Files, NEW m \in FileSizes[i], F!fileread(i, m) PROVE FileIInv'
    BY <1>5, FilereadStep
<1>6. ASSUME NEW i \in Files, F!sys_open(i) \/ F!itrunc(i) PROVE FileIInv'
    BY <1>6, OpenStep, ItruncStep
<1>7. CASE F!Next
    BY <1>2, <1>3, <1>4, <1>5, <1>6, <1>7 DEF F!Next
<1> QED BY <1>1, <1>7

LEMMA FileCounts == \A S : F!Cardinality(S) = Cardinality(S)
BY Zenon DEF F!Cardinality, Cardinality

(* The places that hold a block number are as many as the marked blocks.   *)
LEMMA SlotsAreBlocks ==
    ASSUME FileIInv
    PROVE  F!Cardinality(F!Slots) = F!Cardinality(used)
<1> DEFINE S == F!Slots
           f == [s \in S |-> Ref(addrs, disk, s[1], s[2])]
<1>1. \A s : s \in S <=> s \in Files \X Places /\ Ref(addrs, disk, s[1], s[2]) # 0
  <2>1. F!MAXFILE = NDIRECT + NINDIRECT
      BY DEF F!MAXFILE
  <2>2. ASSUME NEW i \in Files, NEW k \in Places
        PROVE  Ref(addrs, disk, i, k) # 0 <=> IF k <= NDIRECT THEN addrs[i][k] # 0
                 ELSE addrs[i][NDIRECT] # 0 /\ disk[addrs[i][NDIRECT]][k - NDIRECT - 1] # 0
      BY DEF Ref
  <2>3. S = {s \in Files \X Places : IF s[2] <= NDIRECT THEN addrs[s[1]][s[2]] # 0
                 ELSE addrs[s[1]][NDIRECT] # 0 /\ disk[addrs[s[1]][NDIRECT]][s[2] - NDIRECT - 1] # 0}
      BY <2>1 DEF F!Slots, Places
  <2> HIDE DEF S
  <2>4. \A s \in Files \X Places : s[1] \in Files /\ s[2] \in Places
      OBVIOUS
  <2> QED BY <2>2, <2>3, <2>4
<1> HIDE DEF S
<1>2. \A s \in S : s = <<s[1], s[2]>> /\ s[1] \in Files /\ s[2] \in Places /\ Ref(addrs, disk, s[1], s[2]) # 0
    BY <1>1
<1>3. Owned(addrs, disk, used) /\ 0 \notin used
    BY FileNumbers DEF FileIInv, Owned, DiskTypes
<1>4. f \in [S -> used]
    BY <1>2, <1>3 DEF Owned
<1>5. ASSUME NEW x \in S, NEW y \in S, f[x] = f[y] PROVE x = y
  <2>1. PICK i \in Files, j \in Files, k \in Places, m \in Places : i = x[1] /\ k = x[2] /\ j = y[1] /\ m = y[2]
      BY <1>2
  <2>2. Ref(addrs, disk, i, k) = Ref(addrs, disk, j, m) /\ Ref(addrs, disk, i, k) # 0
      BY <1>2, <1>5, <2>1
  <2>3. i = j /\ k = m
      BY <1>3, <2>2 DEF Owned
  <2> QED BY <1>2, <2>1, <2>3
<1>6. ASSUME NEW b \in used PROVE \E s \in S : f[s] = b
  <2>1. PICK i \in Files, k \in Places : Ref(addrs, disk, i, k) = b
      BY <1>3 DEF Owned
  <2>2. b # 0
      BY <1>3
  <2>3. <<i, k>> \in S
      BY <1>1, <2>1, <2>2
  <2>4. f[<<i, k>>] = b
      BY <2>1, <2>3
  <2> QED BY <2>3, <2>4
<1>7. f \in Injection(S, used) /\ f \in Surjection(S, used)
  <2> HIDE DEF f
  <2>1. f \in Injection(S, used)
      BY <1>4, <1>5 DEF Injection, IsInjective
  <2>2. f \in Surjection(S, used)
      BY <1>4, <1>6 DEF Surjection
  <2> QED BY <2>1, <2>2
<1>8. IsFiniteSet(used)
    BY FileNumbers, FS_Subset DEF FileIInv, Owned, DiskTypes
<1>9. IsFiniteSet(S) /\ Cardinality(S) = Cardinality(used)
  <2> HIDE DEF f
  <2> QED BY <1>7, <1>8, FS_Injection
<1>10. Cardinality(F!Slots) = Cardinality(used)
    BY <1>9 DEF S
<1> QED BY <1>10, FileCounts

(* After any sequence of reads, writes, removals and reopenings, at any    *)
(* sizes of the disk and the files, the bitmap marks exactly the blocks    *)
(* the inodes and the indirect blocks refer to, each one once (balloc,     *)
(* bmap, writei, itrunc).                                                  *)
THEOREM BlocksHaveOneOwner == F!Spec => []FileBlocksAccounted
<1>1. FileIInv => FileBlocksAccounted
  <2> SUFFICES ASSUME FileIInv PROVE FileBlocksAccounted
      OBVIOUS
  <2>1. Owned(addrs, disk, used) /\ 0 \notin used
      BY FileNumbers DEF FileIInv, Owned, DiskTypes
  <2>2. ASSUME NEW b \in used PROVE \E i \in Files : b \in F!Direct(i) \cup F!Indirect(i)
    <3>1. PICK i \in Files, k \in Places : Ref(addrs, disk, i, k) = b
        BY <2>1 DEF Owned
    <3>2. b \in {Ref(addrs, disk, i, h) : h \in Places} \ {0}
        BY <2>1, <3>1
    <3> QED BY <3>2, FileBlocksAre
  <2>3. ASSUME NEW i \in Files, NEW b \in F!Direct(i) \cup F!Indirect(i) PROVE b \in used
    <3>1. b \in {Ref(addrs, disk, i, h) : h \in Places} \ {0}
        BY FileBlocksAre
    <3> QED BY <2>1, <3>1 DEF Owned
  <2>4. used = UNION {F!Direct(i) \cup F!Indirect(i) : i \in Files}
      BY <2>2, <2>3
  <2> QED BY <2>4, SlotsAreBlocks DEF FileBlocksAccounted, F!BlocksAccounted
<1> QED BY <1>1, FileInit, FileStep, PTL DEF F!Spec

(* One element more.                                                       *)
LEMMA AddsOne ==
    ASSUME NEW S, NEW x, IsFiniteSet(S)
    PROVE  /\ IsFiniteSet(S \cup {x}) /\ Cardinality(S) \in Nat /\ Cardinality(S \cup {x}) \in Nat
           /\ Cardinality(S \cup {x}) <= Cardinality(S) + 1
<1>1. IsFiniteSet(S \cup {x}) /\ Cardinality(S \cup {x}) = IF x \in S THEN Cardinality(S) ELSE Cardinality(S) + 1
    BY FS_AddElement
<1>2. Cardinality(S) \in Nat /\ Cardinality(S \cup {x}) \in Nat
    BY <1>1, FS_CardinalityType
<1> QED BY <1>1, <1>2

(* So many numbers, and three more.                                        *)
Few(S, f, a, b, x, y, z) == a \in Int /\ b \in Int /\ a <= b /\ S \subseteq {f[k] : k \in a .. b} \cup {x, y, z}

LEMMA FewBlocks ==
    ASSUME NEW S, NEW f, NEW a, NEW b, NEW x, NEW y, NEW z, Few(S, f, a, b, x, y, z)
    PROVE  Cardinality(S) <= b - a + 4
<1> DEFINE T == {f[k] : k \in a .. b}
           g == [k \in a .. b |-> f[k]]
<1>0. a \in Int /\ b \in Int /\ a <= b /\ S \subseteq T \cup {x, y, z}
    BY DEF Few
<1>1. IsFiniteSet(a .. b) /\ Cardinality(a .. b) = b - a + 1
    BY <1>0, FS_Interval
<1>2. g \in Surjection(a .. b, T)
    BY DEF Surjection
<1>3. IsFiniteSet(T) /\ Cardinality(T) <= b - a + 1 /\ Cardinality(T) \in Nat
  <2> HIDE DEF T, g
  <2> QED BY <1>0, <1>1, <1>2, FS_Surjection, FS_CardinalityType
<1> HIDE DEF T
<1>4. PICK T1 : T1 = T \cup {x} /\ IsFiniteSet(T1) /\ Cardinality(T1) <= Cardinality(T) + 1 /\ Cardinality(T1) \in Nat
    BY <1>3, AddsOne
<1>5. PICK T2 : T2 = T1 \cup {y} /\ IsFiniteSet(T2) /\ Cardinality(T2) <= Cardinality(T1) + 1 /\ Cardinality(T2) \in Nat
    BY <1>4, AddsOne
<1>6. PICK T3 : T3 = T2 \cup {z} /\ IsFiniteSet(T3) /\ Cardinality(T3) <= Cardinality(T2) + 1 /\ Cardinality(T3) \in Nat
    BY <1>5, AddsOne
<1>7. S \subseteq T3
  <2>1. T3 = T \cup {x, y, z}
      BY <1>4, <1>5, <1>6
  <2> QED BY <1>0, <2>1
<1>8. Cardinality(S) <= Cardinality(T3) /\ IsFiniteSet(S)
    BY <1>6, <1>7, FS_Subset
<1>9. Cardinality(S) \in Nat
    BY <1>8, FS_CardinalityType
<1> QED BY <1>0, <1>3, <1>4, <1>5, <1>6, <1>8, <1>9

(* Whatever its offset and its size, a part of a write logs the bitmap     *)
(* block, the indirect block, the inode and one block more than it has     *)
(* blocks' worth of units: filewrite's max keeps it within MAXOPBLOCKS.    *)
THEOREM PartsFitTransactions == F!Spec => []FilePartFitsTransaction
<1>1. FileIInv => FilePartFitsTransaction
  <2> SUFFICES ASSUME FileIInv, NEW p \in Procs, F!Writing(p), F!Fits(todo[p].file, F!part(todo[p].n)), ~F!Mapped(p).full
               PROVE  F!Cardinality(F!Logged(p)) <= MAXOPBLOCKS
      BY DEF FilePartFitsTransaction, F!PartFitsTransaction
  <2>1. PICK i, m, first, last : Part(p, i, m, first, last)
      BY PartIs
  <2>2. PICK t : t = F!Mapped(p)
      OBVIOUS
  <2>3. PICK A2, D2 : A2 = With(addrs, i, t) /\ D2 = Filled(p, t, 0)
      OBVIOUS
  <2>4. Fills(p, i, m, first, last, t, 0, A2, D2)
      BY <2>1, <2>2, <2>3 DEF Fills
  <2>5. t.logged \subseteq {0, t.addrs[NDIRECT]} \cup {At1(addrs, i, t, i, PlaceOf(bn)) : bn \in first .. last}
      BY <2>1, <2>2, MappedIs DEF Found
  <2> DEFINE f == [bn \in first .. last |-> At1(addrs, i, t, i, PlaceOf(bn))]
  <2>6. ASSUME NEW u \in F!Units(p) PROVE F!Block(t.addrs, t.disk, u) \in {f[bn] : bn \in first .. last}
    <3>1. PICK bn \in first .. last : bn = u \div BSIZE
        BY <2>1 DEF Part
    <3>2. F!Block(t.addrs, t.disk, u) = At1(addrs, i, t, i, PlaceOf(bn))
        BY <2>3, <2>4, <3>1, FillsBlocks DEF At1
    <3> QED BY <3>2
  <2>7. t.logged \subseteq {0, t.addrs[NDIRECT]} \cup {f[bn] : bn \in first .. last}
      BY <2>5
  <2>8. F!Logged(p) \subseteq {f[bn] : bn \in first .. last} \cup {0, t.addrs[NDIRECT], F!INODE}
    <3> HIDE DEF f
    <3> QED BY <2>2, <2>6, <2>7 DEF F!Logged
  <2>9. first \in Nat /\ last \in Nat /\ first <= last /\ last <= first + ((MAXOPBLOCKS - 4) \div 2)
      BY <2>1 DEF Part
  <2>10. Cardinality(F!Logged(p)) <= last - first + 4
    <3> HIDE DEF f
    <3>1. first \in Int /\ last \in Int
        BY <2>9
    <3>2. PICK g, x, y, z : g = f /\ x = 0 /\ y = t.addrs[NDIRECT] /\ z = F!INODE
        OBVIOUS
    <3>3. F!Logged(p) \subseteq {g[bn] : bn \in first .. last} \cup {x, y, z} /\ first <= last
        BY <2>8, <2>9, <3>2
    <3>4. Few(F!Logged(p), g, first, last, x, y, z)
        BY <3>1, <3>3 DEF Few
    <3> QED BY ONLY <3>4, FewBlocks
  <2>11. (MAXOPBLOCKS - 4) \div 2 <= MAXOPBLOCKS - 4
    <3>1. MAXOPBLOCKS - 4 \in Nat
        BY FileNumbers
    <3> QED BY <3>1
  <2>12. last - first + 4 <= MAXOPBLOCKS
    <3>1. PICK q \in Int : q = (MAXOPBLOCKS - 4) \div 2
        BY FileNumbers
    <3>2. last <= first + q /\ q <= MAXOPBLOCKS - 4
        BY <2>9, <2>11, <3>1, Zenon
    <3> QED BY <2>9, <3>2, FileNumbers
  <2>13. Cardinality(F!Logged(p)) \in Nat
    <3>1. IsFiniteSet({f[bn] : bn \in first .. last} \cup {0, t.addrs[NDIRECT], F!INODE})
      <4>1. IsFiniteSet(first .. last)
          BY <2>9, FS_Interval
      <4>2. f \in Surjection(first .. last, {f[bn] : bn \in first .. last})
          BY DEF Surjection
      <4>3. IsFiniteSet({f[bn] : bn \in first .. last})
        <5> HIDE DEF f
        <5> QED BY <4>1, <4>2, FS_Surjection
      <4>4. IsFiniteSet({0, t.addrs[NDIRECT], F!INODE})
        <5>1. {0, t.addrs[NDIRECT], F!INODE} = ({0} \cup {t.addrs[NDIRECT]}) \cup {F!INODE}
            OBVIOUS
        <5>2. IsFiniteSet({0}) /\ IsFiniteSet({t.addrs[NDIRECT]}) /\ IsFiniteSet({F!INODE})
            BY FS_Singleton
        <5> QED BY <5>1, <5>2, FS_Union
      <4> QED BY <4>3, <4>4, FS_Union
    <3> QED BY <2>8, <3>1, FS_Subset, FS_CardinalityType
  <2>14. Cardinality(F!Logged(p)) <= MAXOPBLOCKS
    <3>1. PICK c \in Nat : c = Cardinality(F!Logged(p))
        BY <2>13
    <3>2. c <= last - first + 4
        BY <2>10, <3>1
    <3>3. c <= MAXOPBLOCKS
        BY <2>9, <2>12, <3>2, FileNumbers
    <3> QED BY <3>1, <3>3
  <2> QED BY <2>14, FileCounts
<1> QED BY <1>1, FileInit, FileStep, PTL DEF F!Spec

(* What the files hold, for the abstract specification and in terms of     *)
(* places.                                                                 *)
Text == [i \in Files |-> [k \in 1 .. isize[i] |-> disk[F!Block(addrs[i], disk, k - 1)][(k - 1) % BSIZE]]]

TextOf(A, D, z, i) == [k \in 1 .. z[i] |-> D[Ref(A, D, i, PlaceOf((k - 1) \div BSIZE))][(k - 1) % BSIZE]]

(* The units of a file have blocks.                                        *)
LEMMA ReachedBlock ==
    ASSUME NEW A, NEW D, NEW z, NEW o, Reached(A, D, z, o), NEW i \in Files, NEW u \in 0 .. z[i] - 1
    PROVE  /\ u \in Nat /\ u \div BSIZE \in 0 .. NDIRECT + NINDIRECT - 1
           /\ Ref(A, D, i, PlaceOf(u \div BSIZE)) # 0
           /\ F!Block(A[i], D, u) = Ref(A, D, i, PlaceOf(u \div BSIZE))
<1>1. z[i] \in Nat /\ z[i] <= (NDIRECT + NINDIRECT) * BSIZE /\ Ref(A, D, i, PlaceOf(u \div BSIZE)) # 0
    BY DEF Reached
<1>2. PICK c \in Nat : c = NDIRECT + NINDIRECT
    BY FileNumbers
<1>3. c * BSIZE \in Int /\ z[i] <= c * BSIZE
    BY <1>1, <1>2, FileNumbers
<1>4. u \in Nat /\ u < c * BSIZE
    BY <1>1, <1>3
<1>5. u \div BSIZE <= c - 1 /\ u \div BSIZE \in Nat
    BY <1>4, UnitBelow, UnitIs
<1>6. u \div BSIZE \in 0 .. NDIRECT + NINDIRECT - 1
    BY <1>2, <1>5, FileNumbers
<1> QED BY <1>1, <1>4, <1>6, BlockIsRef

LEMMA TextIs ==
    ASSUME NEW A, NEW D, NEW z, NEW o, Reached(A, D, z, o), NEW i \in Files
    PROVE  [k \in 1 .. z[i] |-> D[F!Block(A[i], D, k - 1)][(k - 1) % BSIZE]] = TextOf(A, D, z, i)
<1>0. z[i] \in Nat
    BY DEF Reached
<1>1. ASSUME NEW k \in 1 .. z[i]
      PROVE  D[F!Block(A[i], D, k - 1)][(k - 1) % BSIZE] = D[Ref(A, D, i, PlaceOf((k - 1) \div BSIZE))][(k - 1) % BSIZE]
  <2>1. PICK u \in 0 .. z[i] - 1 : u = k - 1
      BY <1>0
  <2>2. F!Block(A[i], D, u) = Ref(A, D, i, PlaceOf(u \div BSIZE))
      BY ReachedBlock
  <2> QED BY <2>1, <2>2
<1> QED BY <1>1 DEF TextOf

LEMMA TextLen ==
    ASSUME NEW A, NEW D, NEW z, NEW o, Reached(A, D, z, o), NEW i \in Files
    PROVE  Len(TextOf(A, D, z, i)) = z[i]
<1>1. z[i] \in Nat
    BY DEF Reached
<1> QED BY <1>1 DEF TextOf

LEMMA TextBefore ==
    ASSUME FileIInv
    PROVE  \A i \in Files : Text[i] = TextOf(addrs, disk, isize, i)
<1>1. Reached(addrs, disk, isize, off)
    BY DEF FileIInv
<1> QED BY <1>1, TextIs DEF Text

LEMMA TextAfter ==
    ASSUME FileIInv'
    PROVE  \A i \in Files : Text'[i] = TextOf(addrs', disk', isize', i)
<1>1. Reached(addrs', disk', isize', off')
    BY DEF FileIInv
<1> QED BY <1>1, TextIs DEF Text

(* A part of a write is a write of the store.                              *)
LEMMA PartRefines ==
    ASSUME FileIInv, FileIInv', NEW p \in Procs, NEW i, NEW m, NEW first, NEW last, NEW t, NEW A2, NEW D2,
           WritesPart(p, i, m, first, last, t, A2, D2)
    PROVE  /\ i \in Files /\ m \in 1 .. (NDIRECT + NINDIRECT) * BSIZE /\ todo[p].v \in FileVals[i] /\ off'[i] # off[i]
           /\ off' = [off EXCEPT ![i] = off[i] + m]
           /\ Text' = [Text EXCEPT ![i] = F!Store!Written(Text[i], off[i], m, todo[p].v)]
<1>1. Fills(p, i, m, first, last, t, todo[p].v, A2, D2) /\ Part(p, i, m, first, last) /\ addrs' = A2 /\ disk' = D2
      /\ off' = [off EXCEPT ![i] = off[i] + m]
    BY DEF WritesPart, Fills
<1>2. /\ i \in Files /\ m \in Nat \ {0} /\ off[i] \in Nat /\ isize[i] \in Nat /\ off[i] <= isize[i]
      /\ off[i] + m <= (NDIRECT + NINDIRECT) * BSIZE /\ F!Units(p) = off[i] .. off[i] + m - 1
      /\ isize'[i] = (IF isize[i] >= off[i] + m THEN isize[i] ELSE off[i] + m) /\ off'[i] = off[i] + m
      /\ \A j \in Files : j # i => isize'[j] = isize[j]
    BY PartSizes
<1>3. Reached(addrs, disk, isize, off) /\ Reached(A2, D2, isize', off')
    BY <1>1 DEF FileIInv
<1>4. ASSUME NEW j \in Files, NEW k \in 1 .. isize[j], ~(j = i /\ k - 1 \in F!Units(p))
      PROVE  TextOf(A2, D2, isize', j)[k] = TextOf(addrs, disk, isize, j)[k]
  <2>1. isize[j] \in Nat /\ isize'[j] \in Nat /\ isize[j] <= isize'[j]
    <3>1. isize[j] \in Nat /\ isize'[j] \in Nat
        BY <1>3 DEF Reached
    <3> QED BY <1>2, <3>1
  <2>2. PICK u \in 0 .. isize[j] - 1 : u = k - 1 /\ u \in Nat
      BY <2>1
  <2>3. PICK g \in Places : g = PlaceOf(u \div BSIZE) /\ g # NDIRECT /\ Ref(addrs, disk, j, g) # 0
    <3>1. u \div BSIZE \in 0 .. NDIRECT + NINDIRECT - 1 /\ Ref(addrs, disk, j, PlaceOf(u \div BSIZE)) # 0
        BY <1>3, ReachedBlock
    <3> QED BY <3>1, PlaceOfBlock
  <2>4. Ref(A2, D2, j, g) = Ref(addrs, disk, j, g)
      BY <1>1, <2>3, FillsUnits
  <2>5. D2[Ref(addrs, disk, j, g)][u % BSIZE] = disk[Ref(addrs, disk, j, g)][u % BSIZE]
      BY <1>1, <1>4, <2>2, <2>3, FillsUnits
  <2>6. TextOf(addrs, disk, isize, j)[k] = disk[Ref(addrs, disk, j, g)][u % BSIZE]
      BY <2>2, <2>3 DEF TextOf
  <2>7. TextOf(A2, D2, isize', j)[k] = D2[Ref(A2, D2, j, g)][u % BSIZE]
    <3>1. k \in 1 .. isize'[j]
        BY <2>1
    <3> QED BY <2>2, <2>3, <3>1 DEF TextOf
  <2> QED BY <2>4, <2>5, <2>6, <2>7
<1>5. ASSUME NEW k \in 1 .. isize'[i], k - 1 \in F!Units(p)
      PROVE  TextOf(A2, D2, isize', i)[k] = todo[p].v
  <2>1. PICK u \in F!Units(p) : u = k - 1
      BY <1>5
  <2>2. D2[Ref(A2, D2, i, PlaceOf(u \div BSIZE))][u % BSIZE] = todo[p].v
      BY <1>1, FillsUnits
  <2> QED BY <2>1, <2>2 DEF TextOf
<1>6. \A j \in Files : Text[j] = TextOf(addrs, disk, isize, j) /\ Text'[j] = TextOf(A2, D2, isize', j)
    BY <1>1, TextBefore, TextAfter
<1>7. \A j \in Files : j # i => Text'[j] = Text[j]
  <2> SUFFICES ASSUME NEW j \in Files, j # i PROVE TextOf(A2, D2, isize', j) = TextOf(addrs, disk, isize, j)
      BY <1>6
  <2>1. isize'[j] = isize[j]
      BY <1>2
  <2>2. \A k \in 1 .. isize[j] : TextOf(A2, D2, isize', j)[k] = TextOf(addrs, disk, isize, j)[k]
      BY <1>4
  <2> QED BY <2>1, <2>2 DEF TextOf
<1>8. Len(Text[i]) = isize[i]
    BY <1>2, <1>3, <1>6, TextLen
<1>9. isize'[i] = IF off[i] + m > isize[i] THEN off[i] + m ELSE isize[i]
    BY <1>2
<1>10. Text'[i] = [k \in 1 .. isize'[i] |-> IF k \in off[i] + 1 .. off[i] + m THEN todo[p].v ELSE Text[i][k]]
  <2>1. ASSUME NEW k \in 1 .. isize'[i]
        PROVE  TextOf(A2, D2, isize', i)[k] = IF k \in off[i] + 1 .. off[i] + m THEN todo[p].v ELSE TextOf(addrs, disk, isize, i)[k]
    <3>1. k - 1 \in F!Units(p) <=> k \in off[i] + 1 .. off[i] + m
        BY <1>2
    <3>2. CASE k - 1 \in F!Units(p)
        BY <1>5, <3>1, <3>2
    <3>3. CASE k - 1 \notin F!Units(p)
      <4>1. k \in 1 .. isize[i]
          BY <1>2, <3>1, <3>3
      <4> QED BY <1>2, <1>4, <3>1, <3>3, <4>1
    <3> QED BY <3>2, <3>3
  <2>2. TextOf(A2, D2, isize', i) = [k \in 1 .. isize'[i] |-> TextOf(A2, D2, isize', i)[k]]
      BY DEF TextOf
  <2>3. TextOf(A2, D2, isize', i) = [k \in 1 .. isize'[i] |-> IF k \in off[i] + 1 .. off[i] + m THEN todo[p].v ELSE TextOf(addrs, disk, isize, i)[k]]
      BY <2>1, <2>2
  <2> QED BY <1>2, <1>6, <2>3
<1>11. Text' = [Text EXCEPT ![i] = Text'[i]]
  <2>1. Text = [j \in Files |-> Text[j]] /\ Text' = [j \in Files |-> Text'[j]]
      BY DEF Text
  <2> QED BY <1>2, <1>7, <2>1
<1>12. m \in 1 .. (NDIRECT + NINDIRECT) * BSIZE
  <2>1. (NDIRECT + NINDIRECT) * BSIZE \in Int
      BY FileNumbers
  <2> QED BY <1>2, <2>1
<1>13. todo[p].v \in FileVals[i]
  <2>1. Write(todo[p]) /\ todo[p].file = i
      BY <1>1 DEF FileIInv, Writes, Part
  <2> QED BY <2>1 DEF Write
<1>14. off'[i] # off[i]
    BY <1>2
<1>15. Text'[i] = F!Store!Written(Text[i], off[i], m, todo[p].v)
    BY <1>8, <1>9, <1>10 DEF F!Store!Written
<1> QED BY <1>1, <1>2, <1>11, <1>12, <1>13, <1>14, <1>15

(* A step that leaves the files as they are.                               *)
LEMMA TextStays ==
    ASSUME UNCHANGED <<addrs, isize, disk>>
    PROVE  Text' = Text
BY DEF Text

(* Moving the offset inside a file is a step of the store, or none.        *)
LEMMA SeekRefines ==
    ASSUME FileIInv, UNCHANGED <<addrs, isize, disk>>, NEW i \in Files, NEW k \in 0 .. isize[i], off' = [off EXCEPT ![i] = k]
    PROVE  F!Store!Next \/ (Text' = Text /\ off' = off)
<1>1. Text' = Text
    BY TextStays
<1>2. Reached(addrs, disk, isize, off)
    BY DEF FileIInv
<1>3. off \in [Files -> Nat] /\ isize[i] \in Nat /\ isize[i] <= (NDIRECT + NINDIRECT) * BSIZE
    BY <1>2 DEF Reached
<1>4. Len(Text[i]) = isize[i]
    BY <1>2, TextBefore, TextLen
<1>5. CASE off'[i] = off[i]
    BY <1>1, <1>3, <1>5
<1>6. CASE off'[i] # off[i]
  <2>1. k \in 0 .. F!MAXFILE * BSIZE
    <3>1. (NDIRECT + NINDIRECT) * BSIZE \in Int
        BY FileNumbers
    <3> QED BY <1>3, <3>1 DEF F!MAXFILE
  <2>2. F!Store!Seek(i, k)
      BY <1>1, <1>4 DEF F!Store!Seek, Text
  <2>3. <<Text'[i], off'[i]>> # <<Text[i], off[i]>>
      BY <1>6
  <2> QED BY <2>1, <2>2, <2>3 DEF F!Store!Next, Text
<1> QED BY <1>5, <1>6

LEMMA RemoveRefines ==
    ASSUME FileIInv, FileIInv', NEW i \in Files, F!itrunc(i)
    PROVE  F!Store!Next \/ (Text' = Text /\ off' = off)
<1>1. /\ addrs' = [addrs EXCEPT ![i] = [k \in 0 .. NDIRECT |-> 0]]
      /\ isize' = [isize EXCEPT ![i] = 0] /\ off' = [off EXCEPT ![i] = 0] /\ disk' = disk
    BY DEF F!itrunc, F!Truncate
<1>2. addrs \in [Files -> Inode] /\ isize \in [Files -> Nat] /\ off \in [Files -> Nat]
    BY DEF FileIInv, Owned, DiskTypes, Reached
<1>3. isize'[i] = 0 /\ \A j \in Files : j # i => isize'[j] = isize[j] /\ addrs'[j] = addrs[j]
    BY <1>1, <1>2
<1>4. Text'[i] = <<>>
  <2>1. Text'[i] = [k \in 1 .. isize'[i] |-> disk'[F!Block(addrs'[i], disk', k - 1)][(k - 1) % BSIZE]]
      BY DEF Text
  <2>2. 1 .. isize'[i] = {}
      BY <1>3
  <2> QED BY <2>1, <2>2
<1>5. \A j \in Files : j # i => Text'[j] = Text[j]
    BY <1>1, <1>3 DEF Text
<1>6. Text' = [Text EXCEPT ![i] = <<>>]
  <2>1. Text = [j \in Files |-> Text[j]] /\ Text' = [j \in Files |-> Text'[j]]
      BY DEF Text
  <2> QED BY <1>4, <1>5, <2>1
<1>7. CASE Text'[i] = Text[i] /\ off'[i] = off[i]
  <2>1. off' = off
      BY <1>1, <1>2, <1>7
  <2>2. Text' = Text
    <3>1. Text = [j \in Files |-> Text[j]] /\ Text' = [j \in Files |-> Text'[j]]
        BY DEF Text
    <3> QED BY <1>5, <1>7, <3>1
  <2> QED BY <2>1, <2>2
<1>8. CASE ~(Text'[i] = Text[i] /\ off'[i] = off[i])
  <2>1. F!Store!Remove(i)
      BY <1>1, <1>6 DEF F!Store!Remove, Text
  <2>2. <<Text'[i], off'[i]>> # <<Text[i], off[i]>>
      BY <1>8
  <2> QED BY <2>1, <2>2 DEF F!Store!Next, Text
<1> QED BY <1>7, <1>8

LEMMA WriteRefinesStore ==
    ASSUME FileIInv, FileIInv', NEW p \in Procs, NEW i, NEW m, NEW first, NEW last, NEW t, NEW A2, NEW D2,
           WritesPart(p, i, m, first, last, t, A2, D2)
    PROVE  F!Store!Next
<1>1. /\ i \in Files /\ m \in 1 .. (NDIRECT + NINDIRECT) * BSIZE /\ todo[p].v \in FileVals[i] /\ off'[i] # off[i]
      /\ off' = [off EXCEPT ![i] = off[i] + m]
      /\ Text' = [Text EXCEPT ![i] = F!Store!Written(Text[i], off[i], m, todo[p].v)]
    BY PartRefines
<1>2. PICK v : v = todo[p].v /\ v \in UNION {FileVals[j] : j \in Files}
    BY <1>1
<1>3. m \in 1 .. F!MAXFILE * BSIZE
    BY <1>1 DEF F!MAXFILE
<1>4. F!Store!Write(i, m, v)
    BY <1>1, <1>2 DEF F!Store!Write, Text
<1>5. <<Text'[i], off'[i]>> # <<Text[i], off[i]>>
    BY <1>1
<1> QED BY <1>1, <1>2, <1>3, <1>4, <1>5 DEF F!Store!Next, Text

(* Every step is one of the store, or is not seen.                         *)
LEMMA FileRefines ==
    FileIInv /\ FileIInv' /\ [F!Next]_F!dvars => F!Store!Next \/ (Text' = Text /\ off' = off)
<1> DEFINE Abs == F!Store!Next \/ (Text' = Text /\ off' = off)
<1> SUFFICES ASSUME FileIInv, FileIInv', [F!Next]_F!dvars PROVE Abs
    OBVIOUS
<1>1. CASE UNCHANGED F!dvars
    BY <1>1, TextStays DEF F!dvars
<1>2. ASSUME NEW i \in Files, NEW p \in Procs, NEW m \in FileSizes[i], NEW v \in FileVals[i], F!filewrite(p, i, m, v) PROVE Abs
    BY <1>2, TextStays DEF F!filewrite
<1>3. ASSUME NEW p \in Procs, F!writei(p) PROVE Abs
  <2>1. CASE UNCHANGED <<addrs, isize, used, disk, off, todo>>
      BY <2>1, TextStays
  <2>2. ASSUME NEW i, NEW m, NEW first, NEW last, NEW t, NEW A2, NEW D2, WritesPart(p, i, m, first, last, t, A2, D2) PROVE Abs
      BY <2>2, WriteRefinesStore
  <2> QED BY <1>3, <2>1, <2>2, WriteiIs
<1>4. ASSUME NEW p \in Procs, F!writei_fails(p) PROVE Abs
    BY <1>4, TextStays DEF F!writei_fails
<1>5. ASSUME NEW i \in Files, NEW m \in FileSizes[i], F!fileread(i, m) PROVE Abs
  <2>1. PICK k \in 0 .. isize[i] : off' = [off EXCEPT ![i] = k]
      BY <1>5, FilereadIs
  <2>2. UNCHANGED <<addrs, isize, disk>>
      BY <1>5 DEF F!fileread
  <2> QED BY <2>1, <2>2, SeekRefines
<1>6. ASSUME NEW i \in Files, F!sys_open(i) PROVE Abs
  <2>1. off' = [off EXCEPT ![i] = 0] /\ UNCHANGED <<addrs, isize, disk>>
      BY <1>6 DEF F!sys_open
  <2>2. 0 \in 0 .. isize[i]
      BY DEF FileIInv, Reached
  <2> QED BY <2>1, <2>2, SeekRefines
<1>7. ASSUME NEW i \in Files, F!itrunc(i) PROVE Abs
    BY <1>7, RemoveRefines
<1>8. CASE F!Next
  <2> HIDE DEF Abs
  <2> QED BY <1>2, <1>3, <1>4, <1>5, <1>6, <1>7, <1>8 DEF F!Next
<1> QED BY <1>1, <1>8

(* bmap, readi, writei and itrunc implement the store of files: for any    *)
(* number of files and processes and any sizes, a write changes the units  *)
(* it is given at the offset it found and no other unit of any file.       *)
THEOREM FilesReadBack == F!Spec => FileImplementsFileStore
<1>1. F!Init => F!Store!Init
  <2> SUFFICES ASSUME F!Init PROVE F!Store!Init
      OBVIOUS
  <2>1. isize = [i \in Files |-> 0] /\ off = [i \in Files |-> 0]
      BY DEF F!Init
  <2>2. \A i \in Files : 1 .. isize[i] = {}
      BY <2>1
  <2>3. Text = [i \in Files |-> <<>>]
      BY <2>2 DEF Text
  <2> QED BY <2>1, <2>3 DEF F!Store!Init, Text
<1>2. FileIInv /\ [F!Next]_F!dvars => FileIInv' /\ [F!Store!Next]_<<
          [i \in Files |-> [k \in 1 .. isize[i] |-> disk[F!Block(addrs[i], disk, k - 1)][(k - 1) % BSIZE]]], off>>
    BY FileStep, FileRefines DEF Text
<1> QED BY <1>1, <1>2, FileInit, PTL
        DEF F!Spec, FileImplementsFileStore, F!ImplementsFileStore, F!Store!Spec
----------------------------------------------------------------------------
(* malloc.  The blocks in the list of free ones, base included: a header   *)
(* that is no node of the list has no pointer.                             *)
FreeNodes(l) == {x \in U!Addrs : l.ptr[x] # U!NIL}

(* q comes after p: the next node above it, or base after the last one.    *)
Follows(S, p, q) ==
    \/ p < q /\ \A y \in S : y <= p \/ q <= y
    \/ q = 0 /\ \A y \in S : y <= p

(* Nodes in address order, base first, with pointers f.                    *)
OrderedRing(S, f) ==
    /\ S \subseteq Nat /\ 0 \in S
    /\ \A p \in S : f[p] \in S /\ Follows(S, p, f[p])

(* The list is such a ring, all of it below the end of the heap.           *)
FreeRing(l) ==
    /\ l \in [size : [U!Addrs -> Nat], ptr : [U!Addrs -> U!Addrs \cup {U!NIL}], freep : U!Addrs]
    /\ FreeNodes(l) \subseteq 0 .. HeapLimit - 1
    /\ l.freep \in FreeNodes(l)
    /\ OrderedRing(FreeNodes(l), l.ptr)

(* The unit a lies in the block at x.                                      *)
InBlock(l, x, a) == x <= a /\ a < x + l.size[x]

(* The blocks of the list and those in G tile O, and no two of the list    *)
(* touch.                                                                  *)
HeapTiled(l, G, O) ==
    /\ l.size[0] = 0
    /\ G \subseteq 1 .. HeapLimit - 1 /\ G \cap FreeNodes(l) = {}
    /\ \A x \in (FreeNodes(l) \ {0}) \cup G : l.size[x] >= 1 /\ \A a \in Int : InBlock(l, x, a) => a \in O
    /\ \A x, y \in (FreeNodes(l) \ {0}) \cup G : x < y => x + l.size[x] <= y
    /\ O \subseteq Int /\ \A a \in O : \E x \in (FreeNodes(l) \ {0}) \cup G : InBlock(l, x, a)
    /\ \A x, y \in FreeNodes(l) \ {0} : x + l.size[x] # y

(* The inductive invariant of malloc.                                      *)
HeapIInv ==
    /\ brk \in 1 .. HeapLimit /\ own \subseteq 1 .. brk - 1
    /\ given = [x \in DOMAIN given |-> given[x]]
    /\ \A x \in DOMAIN given : given[x] = list.size[x]
    /\ list = [size |-> list.size, ptr |-> list.ptr, freep |-> list.freep]
    /\ FreeRing(U!Started)
    /\ HeapTiled(U!Started, DOMAIN given, own)
    /\ list.freep = U!NIL => own = {}

(* The headers visited in k steps from freep.                              *)
FreeWalk(g, l, k) == g = [i \in 0 .. k |-> IF i = 0 THEN l.freep ELSE l.ptr[g[i - 1]]]

(* There is such a walk: the recursion of At is well founded.              *)
LEMMA WalkExists ==
    ASSUME NEW l, NEW k \in Nat
    PROVE  \E g : FreeWalk(g, l, k) /\ U!At(l, k) = g[k]
<1> DEFINE S == {c \in 0 .. k : \E g : FreeWalk(g, l, c)}
<1>1. 0 \in S
  <2>1. PICK g : g = [i \in 0 .. 0 |-> l.freep]
      OBVIOUS
  <2>2. FreeWalk(g, l, 0)
      BY <2>1 DEF FreeWalk
  <2> QED BY <2>2
<1>2. ASSUME NEW c \in 0 .. k - 1, c \in S PROVE c + 1 \in S
  <2>1. PICK g : FreeWalk(g, l, c)
      BY <1>2
  <2>2. PICK h : h = [i \in 0 .. c + 1 |-> IF i = c + 1 THEN l.ptr[g[c]] ELSE g[i]]
      OBVIOUS
  <2>3. ASSUME NEW i \in 0 .. c + 1
        PROVE  h[i] = IF i = 0 THEN l.freep ELSE l.ptr[h[i - 1]]
    <3>1. CASE i = c + 1
      <4>1. c \in 0 .. c + 1 /\ c # c + 1 /\ i - 1 = c /\ i # 0
          BY <3>1
      <4>2. h[c] = g[c] /\ h[i] = l.ptr[g[c]]
          BY <2>2, <3>1, <4>1
      <4> QED BY <4>1, <4>2
    <3>2. CASE i # c + 1
      <4>1. i \in 0 .. c /\ h[i] = g[i]
          BY <2>2, <3>2
      <4>2. g[i] = IF i = 0 THEN l.freep ELSE l.ptr[g[i - 1]]
          BY <2>1, <4>1 DEF FreeWalk
      <4>3. CASE i = 0
          BY <4>1, <4>2, <4>3
      <4>4. CASE i # 0
        <5>1. i - 1 \in 0 .. c + 1 /\ i - 1 # c + 1
            BY <4>1, <4>4
        <5>2. h[i - 1] = g[i - 1]
            BY <2>2, <5>1
        <5> QED BY <4>1, <4>2, <4>4, <5>2
      <4> QED BY <4>3, <4>4
    <3> QED BY <3>1, <3>2
  <2>4. FreeWalk(h, l, c + 1)
      BY <2>2, <2>3 DEF FreeWalk
  <2> QED BY <2>4
<1>3. k \in S
  <2> HIDE DEF S
  <2>1. 0 .. k \subseteq S
      BY <1>1, <1>2, Upward
  <2> QED BY <2>1
<1>4. \E g : FreeWalk(g, l, k)
    BY <1>3
<1> QED BY <1>4 DEF FreeWalk, U!At

(* At follows one pointer more each time.                                  *)
LEMMA AtStep ==
    ASSUME NEW l
    PROVE  U!At(l, 0) = l.freep /\ \A k \in Nat : U!At(l, k + 1) = l.ptr[U!At(l, k)]
<1>1. U!At(l, 0) = l.freep
  <2>1. PICK g : FreeWalk(g, l, 0) /\ U!At(l, 0) = g[0]
      BY WalkExists
  <2> QED BY <2>1 DEF FreeWalk
<1>2. ASSUME NEW k \in Nat PROVE U!At(l, k + 1) = l.ptr[U!At(l, k)]
  <2>1. PICK g : FreeWalk(g, l, k) /\ U!At(l, k) = g[k]
      BY WalkExists
  <2>2. PICK h : FreeWalk(h, l, k + 1) /\ U!At(l, k + 1) = h[k + 1]
    <3>1. k + 1 \in Nat
        OBVIOUS
    <3> QED BY <3>1, WalkExists
  <2> DEFINE S == {i \in 0 .. k : g[i] = h[i]}
  <2>3. 0 \in S
      BY <2>1, <2>2 DEF FreeWalk
  <2>4. ASSUME NEW i \in 0 .. k - 1, i \in S PROVE i + 1 \in S
    <3>1. i + 1 \in 0 .. k /\ i + 1 \in 0 .. k + 1 /\ i + 1 # 0 /\ i + 1 - 1 = i
        OBVIOUS
    <3>2. g[i + 1] = l.ptr[g[i]] /\ h[i + 1] = l.ptr[h[i]]
        BY <2>1, <2>2, <3>1 DEF FreeWalk
    <3> QED BY <2>4, <3>1, <3>2
  <2>5. k \in S
    <3> HIDE DEF S
    <3>1. 0 .. k \subseteq S
        BY <2>3, <2>4, Upward
    <3> QED BY <3>1
  <2>6. k + 1 \in 0 .. k + 1 /\ k + 1 # 0 /\ k + 1 - 1 = k
      OBVIOUS
  <2>7. h[k + 1] = l.ptr[h[k]]
    <3>1. h[k + 1] = l.ptr[h[k + 1 - 1]]
        BY ONLY <2>2, <2>6, SMTT(60) DEF FreeWalk
    <3> QED BY <2>6, <3>1
  <2> QED BY <2>1, <2>2, <2>5, <2>7
<1> QED BY <1>1, <1>2

(* A set of numbers up to b has a greatest element.                        *)
LEMMA GreatestOf ==
    ASSUME NEW b \in Nat, NEW S, S \subseteq 0 .. b, S # {}
    PROVE  \E m \in S : \A x \in S : x <= m
<1> DEFINE T == {c \in 0 .. b : \A x \in S : x <= c}
<1>1. T \subseteq Int /\ b \in T
    OBVIOUS
<1>2. IsFiniteSet(T)
  <2>1. IsFiniteSet(0 .. b) /\ T \subseteq 0 .. b
      BY FS_Interval
  <2> HIDE DEF T
  <2> QED BY <2>1, FS_Subset
<1>3. PICK m \in T : \A c \in T : m <= c
  <2> HIDE DEF T
  <2> QED BY <1>1, <1>2, LeastOf
<1>4. m \in S
  <2> SUFFICES ASSUME m \notin S PROVE FALSE
      OBVIOUS
  <2>1. \A x \in S : x \in Int /\ 0 <= x /\ x <= m /\ x # m
      OBVIOUS
  <2>2. m - 1 \in 0 .. b
    <3>1. PICK x \in S : TRUE
        OBVIOUS
    <3>2. m \in 0 .. b /\ x \in Int /\ 0 <= x /\ x <= m /\ x # m
        BY <2>1
    <3> QED BY <3>2
  <2>3. \A x \in S : x <= m - 1
      BY <2>1
  <2>4. m - 1 \in T
      BY <2>2, <2>3
  <2> QED BY <1>3, <2>4
<1> QED BY <1>4

(* A walk meets nodes, and every node within one round.                    *)
LEMMA WalkMeets ==
    ASSUME NEW l, FreeRing(l)
    PROVE  /\ \A k \in Nat : U!At(l, k) \in FreeNodes(l)
           /\ \A x \in FreeNodes(l) : \E k \in 1 .. HeapLimit : U!At(l, k) = x
<1> DEFINE N == FreeNodes(l)
<1>1. /\ N \subseteq 0 .. HeapLimit - 1 /\ 0 \in N /\ l.freep \in N
      /\ \A p \in N : l.ptr[p] \in N /\ Follows(N, p, l.ptr[p])
    BY DEF FreeRing, OrderedRing
<1>2. HeapLimit \in Nat /\ HeapLimit > 0
    BY HeapAssumption
<1>3. U!At(l, 0) = l.freep /\ \A k \in Nat : U!At(l, k + 1) = l.ptr[U!At(l, k)]
    BY AtStep
<1> HIDE DEF N
<1>0. \A x \in N : x \in Nat /\ x <= HeapLimit - 1
  <2>1. \A x \in 0 .. HeapLimit - 1 : x \in Nat /\ x <= HeapLimit - 1
      BY <1>2
  <2> QED BY <1>1, <2>1
<1>4. ASSUME NEW k \in Nat PROVE U!At(l, k) \in N
  <2> DEFINE S == {i \in 0 .. k : U!At(l, i) \in N}
  <2>1. 0 \in S
      BY <1>1, <1>3
  <2>2. ASSUME NEW i \in 0 .. k - 1, i \in S PROVE i + 1 \in S
    <3>1. i \in Nat /\ i + 1 \in 0 .. k /\ U!At(l, i) \in N
        BY <2>2
    <3>2. U!At(l, i + 1) = l.ptr[U!At(l, i)]
        BY <1>3, <3>1
    <3> QED BY <1>1, <3>1, <3>2
  <2>3. 0 .. k \subseteq S
    <3> HIDE DEF S
    <3> QED BY <2>1, <2>2, Upward
  <2> QED BY <2>3
<1>5. \* up from a node met after j steps
      ASSUME NEW a \in N, NEW j \in Nat, U!At(l, j) = a, NEW x \in N, a <= x
      PROVE  \E k \in j .. j + (x - a) : U!At(l, k) = x
  <2> DEFINE met(y) == \E k \in j .. j + (y - a) : U!At(l, k) = y
             S == {z \in a .. x : \A y \in N : a <= y /\ y <= z => met(y)}
  <2>1. a \in Int /\ x \in Int
      BY <1>1
  <2>2. a \in S
    <3>1. \A y \in N : a <= y /\ y <= a => y = a
        BY <1>1
    <3>2. j \in j .. j + (a - a)
        BY <2>1
    <3>3. met(a)
        BY <1>5, <3>2
    <3> QED BY <1>5, <2>1, <3>1, <3>3
  <2>3. ASSUME NEW z \in a .. x - 1, z \in S PROVE z + 1 \in S
    <3> SUFFICES ASSUME NEW y \in N, a <= y, y <= z + 1 PROVE met(y)
        BY <2>1
    <3>1. CASE y <= z
        BY <2>3, <3>1
    <3>2. CASE y = z + 1
      <4> DEFINE B == {u \in N : a <= u /\ u <= z}
      <4>1. a \in B
          BY <2>1
      <4>2. PICK p \in B : \A u \in B : u <= p
        <5>1. B \subseteq 0 .. HeapLimit - 1 /\ B # {}
            BY <1>1, <4>1
        <5>2. HeapLimit - 1 \in Nat
            BY <1>2
        <5> HIDE DEF B
        <5> QED BY <5>1, <5>2, GreatestOf
      <4>3. p \in N /\ a <= p /\ p <= z /\ p \in Int
          BY <1>1
      <4>4. PICK k \in j .. j + (p - a) : U!At(l, k) = p
          BY <2>3, <4>3
      <4>5. l.ptr[p] = y
        <5>1. \A u \in N : u <= p \/ y <= u
            BY <1>1, <2>1, <3>2, <4>2, <4>3
        <5>2. p < y /\ y \in Nat /\ 0 <= p
            BY <1>1, <3>2, <4>3
        <5>3. l.ptr[p] \in N /\ Follows(N, p, l.ptr[p]) /\ l.ptr[p] \in Int
          <6>1. l.ptr[p] \in N /\ Follows(N, p, l.ptr[p])
              BY <1>1, <4>3
          <6> QED BY <1>0, <6>1
        <5> QED BY <5>1, <5>2, <5>3, <4>3 DEF Follows
      <4>6. k + 1 \in j .. j + (y - a) /\ k \in Nat
          BY <2>1, <3>2, <4>3
      <4> QED BY <1>3, <4>4, <4>5, <4>6
    <3> QED BY <1>1, <2>1, <3>1, <3>2
  <2>4. x \in S
    <3> HIDE DEF S
    <3>1. a .. x \subseteq S
        BY <2>1, <2>2, <2>3, Upward
    <3> QED BY <1>5, <2>1, <3>1
  <2> QED BY <1>5, <2>1, <2>4
<1>6. PICK m \in N : \A u \in N : u <= m
  <2>1. HeapLimit - 1 \in Nat /\ N # {}
      BY <1>1, <1>2
  <2> QED BY <1>1, <2>1, GreatestOf
<1>7. m \in Nat /\ m <= HeapLimit - 1 /\ l.freep \in Nat /\ l.freep <= m
    BY <1>0, <1>1, <1>6
<1>8. PICK k \in 0 .. 0 + (m - l.freep) : U!At(l, k) = m
    BY <1>1, <1>3, <1>5, <1>7
<1>9. U!At(l, k + 1) = 0 /\ k + 1 \in Nat /\ k + 1 >= 1
  <2>1. l.ptr[m] \in N /\ Follows(N, m, l.ptr[m])
      BY <1>1
  <2>2. l.ptr[m] = 0
    <3>1. l.ptr[m] <= m /\ l.ptr[m] \in Int
        BY <1>0, <1>6, <2>1
    <3> QED BY <1>7, <2>1, <3>1 DEF Follows
  <2> QED BY <1>3, <1>7, <1>8, <2>2
<1>10. ASSUME NEW x \in N PROVE \E i \in 1 .. HeapLimit : U!At(l, i) = x
  <2>1. x \in Nat /\ x <= m
      BY <1>1, <1>6
  <2>2. CASE x <= l.freep
    <3>1. PICK i \in (k + 1) .. (k + 1) + (x - 0) : U!At(l, i) = x
        BY <1>1, <1>5, <1>9, <2>1
    <3>2. i \in 1 .. HeapLimit
        BY <1>2, <1>7, <1>8, <2>1, <2>2
    <3> QED BY <3>1, <3>2
  <2>3. CASE x > l.freep
    <3>1. PICK i \in 0 .. 0 + (x - l.freep) : U!At(l, i) = x
        BY <1>1, <1>3, <1>5, <1>7, <2>1, <2>3
    <3>2. i # 0
        BY <1>3, <1>7, <2>1, <2>3, <3>1
    <3>3. i \in 1 .. HeapLimit
        BY <1>2, <1>7, <2>1, <3>2
    <3> QED BY <3>1, <3>3
  <2> QED BY <1>7, <2>1, <2>2, <2>3
<1> QED BY <1>4, <1>10 DEF N

(* free walks to the last node below the block.                            *)
LEMMA PlaceIs ==
    ASSUME NEW l, FreeRing(l), NEW bp \in 1 .. HeapLimit - 1, bp \notin FreeNodes(l),
           NEW p, p = U!Place(l, bp)
    PROVE  p \in FreeNodes(l) /\ p < bp /\ \A y \in FreeNodes(l) : y <= p \/ bp < y
<1> DEFINE N == FreeNodes(l)
           stop(x) == (bp > x /\ bp < l.ptr[x]) \/ (x >= l.ptr[x] /\ (bp > x \/ bp < l.ptr[x]))
           K == {k \in U!Addrs : stop(U!At(l, k))}
<1>1. /\ N \subseteq 0 .. HeapLimit - 1 /\ 0 \in N /\ l.freep \in N
      /\ \A x \in N : l.ptr[x] \in N /\ Follows(N, x, l.ptr[x])
    BY DEF FreeRing, OrderedRing
<1>2. HeapLimit \in Nat /\ HeapLimit > 0 /\ bp \in Nat /\ bp > 0 /\ bp \notin N
    BY HeapAssumption
<1>3. /\ \A k \in Nat : U!At(l, k) \in N
      /\ \A x \in N : \E k \in 1 .. HeapLimit : U!At(l, k) = x
    BY WalkMeets
<1> HIDE DEF N
<1>4. \A x \in N : x \in Nat /\ x <= HeapLimit - 1
  <2>1. \A x \in 0 .. HeapLimit - 1 : x \in Nat /\ x <= HeapLimit - 1
      BY <1>2
  <2> QED BY <1>1, <2>1
<1>5. PICK m \in N : m < bp /\ \A y \in N : y < bp => y <= m
  <2> DEFINE B == {y \in N : y < bp}
  <2>1. B \subseteq 0 .. HeapLimit - 1 /\ 0 \in B
      BY <1>1, <1>2
  <2>2. HeapLimit - 1 \in Nat
      BY <1>2
  <2>3. PICK m \in B : \A y \in B : y <= m
    <3> HIDE DEF B
    <3> QED BY <2>1, <2>2, GreatestOf
  <2> QED BY <2>3
<1>6. stop(m)
  <2>1. l.ptr[m] \in N /\ Follows(N, m, l.ptr[m])
      BY <1>1
  <2>2. l.ptr[m] \in Nat /\ m \in Nat /\ l.ptr[m] # bp
      BY <1>2, <1>4, <2>1
  <2>3. CASE m < l.ptr[m]
    <3>1. bp < l.ptr[m]
        BY <1>2, <1>5, <2>1, <2>2, <2>3
    <3> QED BY <1>5, <3>1
  <2>4. CASE l.ptr[m] <= m
      BY <1>5, <2>2, <2>4
  <2> QED BY <2>2, <2>3, <2>4
<1>7. K \subseteq Int /\ K # {} /\ IsFiniteSet(K)
  <2>1. PICK k \in 1 .. HeapLimit : U!At(l, k) = m
      BY <1>3
  <2>2. k \in U!Addrs
      BY <1>2 DEF U!Addrs, U!base
  <2>3. IsFiniteSet(U!Addrs) /\ U!Addrs \subseteq Int /\ K \subseteq U!Addrs
    <3>1. U!Addrs = 0 .. HeapLimit /\ 0 .. HeapLimit \subseteq Int
        BY <1>2 DEF U!Addrs, U!base
    <3>2. IsFiniteSet(0 .. HeapLimit)
        BY <1>2, FS_Interval
    <3>3. K \subseteq U!Addrs
        OBVIOUS
    <3> QED BY <3>1, <3>2, <3>3
  <2>4. IsFiniteSet(K)
    <3> HIDE DEF K
    <3> QED BY <2>3, FS_Subset
  <2>5. k \in K
      BY <1>6, <2>1, <2>2
  <2> QED BY <2>3, <2>4, <2>5
<1>8. PICK k \in K : k = U!Min(K)
  <2>1. \E x \in K : \A y \in K : x <= y
    <3> HIDE DEF K
    <3> QED BY <1>7, LeastOf
  <2>2. U!Min(K) \in K
    <3> HIDE DEF K
    <3> QED BY <2>1 DEF U!Min
  <2> QED BY <2>2
<1>9. p = U!At(l, k)
    BY <1>8 DEF U!Place
<1>10. p \in N /\ stop(p)
  <2>1. k \in Nat
      BY <1>2 DEF U!Addrs, U!base
  <2>2. U!At(l, k) \in N
      BY <1>3, <2>1
  <2> QED BY <1>9, <2>2
<1>11. l.ptr[p] \in N /\ Follows(N, p, l.ptr[p])
    BY <1>1, <1>10
<1>12. p \in Nat /\ l.ptr[p] \in Nat
    BY <1>4, <1>10, <1>11
<1>13. p < bp
    BY <1>2, <1>10, <1>11, <1>12 DEF Follows
<1>14. ASSUME NEW y \in N PROVE y <= p \/ bp < y
    BY <1>2, <1>4, <1>10, <1>11, <1>12, <1>13 DEF Follows
<1> QED BY <1>10, <1>13, <1>14 DEF N

(* Whether a freed block touches the free block above it, or the one below; *)
(* the block it becomes, and the headers that are none any more.           *)
JoinsUp(l, bp, q) == bp + l.size[bp] = q
JoinsDown(l, bp, p) == p + l.size[p] = bp
JoinedHead(l, bp, p) == IF JoinsDown(l, bp, p) THEN p ELSE bp
JoinedSize(l, bp, p, q) == (IF JoinsDown(l, bp, p) THEN l.size[p] ELSE 0) + l.size[bp] + IF JoinsUp(l, bp, q) THEN l.size[q] ELSE 0
JoinedNext(l, bp, q) == IF JoinsUp(l, bp, q) THEN l.ptr[q] ELSE q
GoneHeaders(l, bp, p, q) == (IF JoinsUp(l, bp, q) THEN {q} ELSE {}) \cup (IF JoinsDown(l, bp, p) THEN {bp} ELSE {})

(* What free leaves, field by field.                                       *)
LEMMA FreedIs ==
    ASSUME NEW l, NEW bp, NEW p, p = U!Place(l, bp), NEW q, q = l.ptr[p], NEW r, r = U!Freed(l, bp),
           NEW head, head = JoinedHead(l, bp, p), NEW gone, gone = GoneHeaders(l, bp, p, q),
           head \notin gone, p \notin gone, p # bp
    PROVE  /\ r = [size |-> r.size, ptr |-> r.ptr, freep |-> p]
           /\ r.size = [x \in U!Addrs |-> IF x = head THEN JoinedSize(l, bp, p, q)
                                          ELSE IF x \in gone THEN 0 ELSE l.size[x]]
           /\ r.ptr = [x \in U!Addrs |-> IF x = head THEN JoinedNext(l, bp, q)
                                         ELSE IF x \in gone THEN U!NIL ELSE IF x = p THEN bp ELSE l.ptr[x]]
<1> DEFINE tot == JoinedSize(l, bp, p, q)
           next == JoinedNext(l, bp, q)
           down == JoinsDown(l, bp, p)
<1>1. r = [size |-> [x \in U!Addrs |-> CASE x = head -> tot [] x \in gone -> 0 [] OTHER -> l.size[x]],
           ptr |-> [x \in U!Addrs |-> CASE x = head -> next [] x = p /\ ~down -> bp [] x \in gone -> U!NIL [] OTHER -> l.ptr[x]],
           freep |-> p]
    BY DEF U!Freed, JoinsUp, JoinsDown, JoinedHead, JoinedSize, JoinedNext, GoneHeaders
<1>2. ASSUME NEW x \in U!Addrs
      PROVE  (CASE x = head -> tot [] x \in gone -> 0 [] OTHER -> l.size[x])
             = IF x = head THEN tot ELSE IF x \in gone THEN 0 ELSE l.size[x]
    OBVIOUS
<1>3. ASSUME NEW x \in U!Addrs
      PROVE  (CASE x = head -> next [] x = p /\ ~down -> bp [] x \in gone -> U!NIL [] OTHER -> l.ptr[x])
             = IF x = head THEN next ELSE IF x \in gone THEN U!NIL ELSE IF x = p THEN bp ELSE l.ptr[x]
    BY DEF JoinedHead
<1> QED BY <1>1, <1>2, <1>3

(* The pointers g are f but for p, which is followed by t.                 *)
Repointed(S, f, g, p, t) == \A x \in S : g[x] = IF x = p THEN t ELSE f[x]

(* Cutting a node out of a ring in address order.                          *)
LEMMA RingWithout ==
    ASSUME NEW S, NEW f, OrderedRing(S, f), NEW p \in S, NEW q \in S, q = f[p], q > 0, p # q,
           NEW g, Repointed(S \ {q}, f, g, p, f[q])
    PROVE  OrderedRing(S \ {q}, g)
<1>0. /\ S \subseteq Nat /\ 0 \in S /\ \A x \in S : f[x] \in S /\ Follows(S, x, f[x])
      /\ \A x \in S \ {q} : g[x] = IF x = p THEN f[q] ELSE f[x]
    BY DEF OrderedRing, Repointed
<1> USE <1>0
<1>1. p \in Nat /\ q \in Nat /\ p < q /\ \A y \in S : y <= p \/ q <= y
    BY DEF Follows
<1>2. f[q] \in S /\ Follows(S, q, f[q])
    OBVIOUS
<1>3. f[q] \in Nat /\ f[q] # q
  <2>1. f[q] \in Nat
      BY <1>2
  <2> QED BY <1>1, <1>2, <2>1 DEF Follows
<1>4. ASSUME NEW x \in S \ {q} PROVE g[x] \in S \ {q} /\ Follows(S \ {q}, x, g[x])
  <2>1. CASE x = p
    <3>1. g[x] = f[q]
        BY <2>1
    <3>2. CASE q < f[q] /\ \A y \in S : y <= q \/ f[q] <= y
      <4>1. \A y \in S \ {q} : y <= p \/ f[q] <= y
          BY <1>1, <1>3, <3>2
      <4>2. p < f[q]
          BY <1>1, <1>3, <3>2
      <4> QED BY <1>2, <1>3, <2>1, <3>1, <4>1, <4>2 DEF Follows
    <3>3. CASE f[q] = 0 /\ \A y \in S : y <= q
      <4>1. \A y \in S \ {q} : y <= p
          BY <1>1, <3>3
      <4> QED BY <1>2, <1>3, <2>1, <3>1, <3>3, <4>1 DEF Follows
    <3> QED BY <1>2, <3>2, <3>3 DEF Follows
  <2>2. CASE x # p
    <3>1. g[x] = f[x] /\ f[x] \in S /\ Follows(S, x, f[x]) /\ x \in Nat /\ f[x] \in Nat
        BY <2>2
    <3>2. f[x] # q
        BY <1>1, <2>2, <3>1 DEF Follows
    <3> QED BY <3>1, <3>2 DEF Follows
  <2> QED BY <2>1, <2>2
<1>5. S \ {q} \subseteq Nat /\ 0 \in S \ {q}
  <2>1. q # 0
      BY <1>1
  <2> QED BY <2>1
<1> QED BY <1>4, <1>5 DEF OrderedRing

(* Putting one in after the last node below it.                            *)
LEMMA RingWith ==
    ASSUME NEW S, NEW f, OrderedRing(S, f), NEW p \in S, NEW b \in Nat, p < b, b \notin S,
           \A y \in S : y <= p \/ b < y, NEW g, Repointed(S, f, g, p, b), g[b] = f[p]
    PROVE  OrderedRing(S \cup {b}, g)
<1>0. /\ S \subseteq Nat /\ 0 \in S /\ \A x \in S : f[x] \in S /\ Follows(S, x, f[x])
      /\ \A x \in S : g[x] = IF x = p THEN b ELSE f[x]
    BY DEF OrderedRing, Repointed
<1> USE <1>0
<1>1. f[p] \in S /\ Follows(S, p, f[p]) /\ p \in Nat /\ f[p] \in Nat
    OBVIOUS
<1>2. Follows(S \cup {b}, p, b)
    BY <1>1 DEF Follows
<1>3. Follows(S \cup {b}, b, f[p])
  <2>1. CASE p < f[p] /\ \A y \in S : y <= p \/ f[p] <= y
    <3>1. b < f[p]
        BY <1>1, <2>1
    <3>2. \A y \in S \cup {b} : y <= b \/ f[p] <= y
        BY <1>1, <2>1, <3>1
    <3> QED BY <3>1, <3>2 DEF Follows
  <2>2. CASE f[p] = 0 /\ \A y \in S : y <= p
    <3>1. \A y \in S \cup {b} : y <= b
        BY <1>1, <2>2
    <3> QED BY <2>2, <3>1 DEF Follows
  <2> QED BY <1>1, <2>1, <2>2 DEF Follows
<1>4. ASSUME NEW x \in S, x # p PROVE g[x] = f[x] /\ Follows(S \cup {b}, x, f[x])
  <2>1. g[x] = f[x] /\ f[x] \in S /\ Follows(S, x, f[x]) /\ x \in Nat /\ f[x] \in Nat
      BY <1>4
  <2>2. CASE x < f[x] /\ \A y \in S : y <= x \/ f[x] <= y
    <3>1. b <= x \/ f[x] <= b
        BY <1>1, <1>4, <2>1, <2>2
    <3> QED BY <2>1, <2>2, <3>1 DEF Follows
  <2>3. CASE f[x] = 0 /\ \A y \in S : y <= x
    <3>1. p <= x /\ b <= x
        BY <1>1, <1>4, <2>1, <2>3
    <3> QED BY <2>1, <2>3, <3>1 DEF Follows
  <2> QED BY <2>1, <2>2, <2>3 DEF Follows
<1> QED BY <1>1, <1>2, <1>3, <1>4 DEF OrderedRing

(* Numbers and nodes of a ring.                                            *)
LEMMA RingFacts ==
    ASSUME NEW l, FreeRing(l)
    PROVE  /\ U!Addrs = 0 .. HeapLimit /\ U!NIL \notin U!Addrs /\ HeapLimit \in Nat \ {0}
           /\ FreeNodes(l) \subseteq Nat /\ FreeNodes(l) \subseteq U!Addrs /\ 0 \in FreeNodes(l)
           /\ l.freep \in FreeNodes(l)
           /\ \A x \in FreeNodes(l) : l.ptr[x] \in FreeNodes(l) /\ Follows(FreeNodes(l), x, l.ptr[x])
           /\ \A x \in FreeNodes(l) : x < HeapLimit
           /\ \A x \in U!Addrs : l.size[x] \in Nat
<1>1. HeapLimit \in Nat /\ HeapLimit > 0
    BY HeapAssumption
<1>2. U!Addrs = 0 .. HeapLimit /\ U!NIL \notin U!Addrs
    BY <1>1 DEF U!Addrs, U!base, U!NIL
<1>3. \A x \in 0 .. HeapLimit - 1 : x \in Nat /\ x < HeapLimit
    BY <1>1
<1>4. /\ FreeNodes(l) \subseteq 0 .. HeapLimit - 1 /\ 0 \in FreeNodes(l) /\ l.freep \in FreeNodes(l)
      /\ \A p \in FreeNodes(l) : l.ptr[p] \in FreeNodes(l) /\ Follows(FreeNodes(l), p, l.ptr[p])
    BY DEF FreeRing, OrderedRing
<1>5. l \in [size : [U!Addrs -> Nat], ptr : [U!Addrs -> U!Addrs \cup {U!NIL}], freep : U!Addrs]
    BY DEF FreeRing
<1>6. \A x \in U!Addrs : l.size[x] \in Nat
    BY <1>5
<1>7. FreeNodes(l) \subseteq U!Addrs
    BY DEF FreeNodes
<1> QED BY <1>1, <1>2, <1>3, <1>4, <1>6, <1>7

(* free: the block it gets, its neighbours and what becomes of the list.   *)
Freeing(l, G, O, bp, p, q, head, gone, r) ==
    /\ FreeRing(l) /\ HeapTiled(l, G, O) /\ bp \in G
    /\ p = U!Place(l, bp) /\ q = l.ptr[p] /\ r = U!Freed(l, bp)
    /\ head = JoinedHead(l, bp, p) /\ gone = GoneHeaders(l, bp, p, q)

LEMMA FreeingFacts ==
    ASSUME NEW l, NEW G, NEW O, NEW bp, NEW p, NEW q, NEW head, NEW gone, NEW r,
           Freeing(l, G, O, bp, p, q, head, gone, r)
    PROVE  /\ bp \in Nat /\ bp > 0 /\ bp < HeapLimit /\ bp \in U!Addrs /\ bp \notin FreeNodes(l)
           /\ p \in FreeNodes(l) /\ p < bp /\ \A y \in FreeNodes(l) : y <= p \/ bp < y
           /\ q \in FreeNodes(l) /\ q # bp /\ l.size[bp] \in Nat /\ l.size[bp] >= 1
           /\ JoinsUp(l, bp, q) => q > bp
           /\ JoinsDown(l, bp, p) => p > 0
           /\ head \notin gone /\ p \notin gone
<1> USE DEF Freeing
<1>1. G \subseteq 1 .. HeapLimit - 1 /\ G \cap FreeNodes(l) = {} /\ l.size[0] = 0 /\ l.size[bp] >= 1
    BY DEF HeapTiled
<1>2. /\ U!Addrs = 0 .. HeapLimit /\ HeapLimit \in Nat \ {0}
      /\ FreeNodes(l) \subseteq Nat /\ 0 \in FreeNodes(l)
      /\ \A x \in FreeNodes(l) : l.ptr[x] \in FreeNodes(l)
      /\ \A x \in U!Addrs : l.size[x] \in Nat
    BY RingFacts
<1>3. bp \in 1 .. HeapLimit - 1 /\ bp \notin FreeNodes(l)
    BY <1>1
<1>4. bp \in Nat /\ bp > 0 /\ bp < HeapLimit /\ bp \in U!Addrs
    BY <1>2, <1>3
<1>5. p \in FreeNodes(l) /\ p < bp /\ \A y \in FreeNodes(l) : y <= p \/ bp < y
    BY <1>3, PlaceIs
<1>6. q \in FreeNodes(l) /\ q # bp /\ l.size[bp] \in Nat
    BY <1>2, <1>3, <1>4, <1>5
<1>7. p \in Nat /\ q \in Nat
    BY <1>2, <1>5, <1>6
<1>8. JoinsUp(l, bp, q) => q > bp
    BY <1>1, <1>4, <1>6, <1>7 DEF JoinsUp
<1>9. JoinsDown(l, bp, p) => p > 0
    BY <1>1, <1>4, <1>7 DEF JoinsDown
<1>10. p # bp /\ (JoinsUp(l, bp, q) => q # p)
    BY <1>4, <1>5, <1>7, <1>8
<1>11. head \notin gone /\ p \notin gone
    BY <1>6, <1>10 DEF JoinedHead, GoneHeaders
<1> QED BY <1>1, <1>3, <1>4, <1>5, <1>6, <1>8, <1>9, <1>11

LEMMA FreeingFields ==
    ASSUME NEW l, NEW G, NEW O, NEW bp, NEW p, NEW q, NEW head, NEW gone, NEW r,
           Freeing(l, G, O, bp, p, q, head, gone, r)
    PROVE  /\ r = [size |-> r.size, ptr |-> r.ptr, freep |-> p]
           /\ r.size = [x \in U!Addrs |-> IF x = head THEN JoinedSize(l, bp, p, q)
                                          ELSE IF x \in gone THEN 0 ELSE l.size[x]]
           /\ r.ptr = [x \in U!Addrs |-> IF x = head THEN JoinedNext(l, bp, q)
                  ELSE IF x \in gone THEN U!NIL ELSE IF x = p THEN bp ELSE l.ptr[x]]
<1>1. bp \in Nat /\ p \in FreeNodes(l) /\ p < bp /\ head \notin gone /\ p \notin gone
    BY FreeingFacts
<1>2. p \in Nat /\ p # bp
  <2>1. FreeNodes(l) \subseteq Nat
      BY RingFacts DEF Freeing
  <2> QED BY <1>1, <2>1
<1> QED BY <1>1, <1>2, FreedIs DEF Freeing

(* The list it leaves is a ring again.                                     *)
LEMMA FreedRing ==
    ASSUME NEW l, NEW G, NEW O, NEW bp, NEW p, NEW q, NEW head, NEW gone, NEW r,
           Freeing(l, G, O, bp, p, q, head, gone, r)
    PROVE  FreeRing(r) /\ FreeNodes(r) = (FreeNodes(l) \cup {bp}) \ gone
<1> DEFINE N == FreeNodes(l)
           up == JoinsUp(l, bp, q)
           down == JoinsDown(l, bp, p)
           S1 == N \cup {bp}
           S2 == IF up THEN S1 \ {q} ELSE S1
           S3 == IF down THEN S2 \ {bp} ELSE S2
           g1 == [x \in U!Addrs |-> IF x = bp THEN q ELSE IF x = p THEN bp ELSE l.ptr[x]]
           g2 == [x \in U!Addrs |-> IF up /\ x = bp THEN l.ptr[q] ELSE g1[x]]
<1>1. /\ U!Addrs = 0 .. HeapLimit /\ U!NIL \notin U!Addrs /\ HeapLimit \in Nat \ {0}
      /\ N \subseteq Nat /\ N \subseteq U!Addrs /\ 0 \in N
      /\ \A x \in N : l.ptr[x] \in N /\ Follows(N, x, l.ptr[x])
      /\ \A x \in N : x < HeapLimit
      /\ \A x \in U!Addrs : l.size[x] \in Nat
    BY RingFacts DEF Freeing
<1>2. /\ bp \in Nat /\ bp > 0 /\ bp < HeapLimit /\ bp \in U!Addrs /\ bp \notin N
      /\ p \in N /\ p < bp /\ \A y \in N : y <= p \/ bp < y
      /\ q \in N /\ q # bp
      /\ up => q > bp
      /\ down => p > 0
      /\ head \notin gone /\ p \notin gone
    BY FreeingFacts
<1>3. /\ q = l.ptr[p]
      /\ head = (IF down THEN p ELSE bp)
      /\ gone = (IF up THEN {q} ELSE {}) \cup (IF down THEN {bp} ELSE {})
    BY DEF Freeing, JoinedHead, GoneHeaders
<1>4. /\ r = [size |-> r.size, ptr |-> r.ptr, freep |-> p]
      /\ r.size = [x \in U!Addrs |-> IF x = head THEN JoinedSize(l, bp, p, q)
                                          ELSE IF x \in gone THEN 0 ELSE l.size[x]]
      /\ r.ptr = [x \in U!Addrs |-> IF x = head THEN JoinedNext(l, bp, q)
                  ELSE IF x \in gone THEN U!NIL ELSE IF x = p THEN bp ELSE l.ptr[x]]
    BY FreeingFields
<1>0. JoinedNext(l, bp, q) = IF up THEN l.ptr[q] ELSE q
    BY DEF JoinedNext
<1> HIDE DEF N, up, down
<1>5. p \in Nat /\ q \in Nat /\ p # bp /\ p \in U!Addrs /\ q \in U!Addrs
    BY <1>1, <1>2
<1>6. S3 = (N \cup {bp}) \ gone
    BY <1>3
<1>7. OrderedRing(S1, g1)
  <2>1. \A x \in N : g1[x] = IF x = p THEN bp ELSE l.ptr[x]
      BY <1>1, <1>2
  <2>2. g1[bp] = l.ptr[p]
      BY <1>2, <1>3
  <2>3. OrderedRing(N, l.ptr)
      BY DEF Freeing, FreeRing, N
  <2> HIDE DEF g1
  <2>4. Repointed(N, l.ptr, g1, p, bp)
      BY <2>1 DEF Repointed
  <2> QED BY <1>2, <2>2, <2>3, <2>4, RingWith
<1>8. S1 \subseteq Nat /\ S1 \subseteq U!Addrs /\ 0 \in S1 /\ bp \in S1 /\ p \in S1 /\ q \in S1 /\ \A x \in S1 : x < HeapLimit
    BY <1>1, <1>2
<1>9. OrderedRing(S2, g2)
  <2>1. CASE up
    <3>1. S2 = S1 \ {q} /\ q > 0 /\ q # p
        BY <1>2, <1>5, <2>1
    <3>2. \A x \in S1 \ {q} : g2[x] = IF x = bp THEN g1[q] ELSE g1[x]
      <4>1. g1[q] = l.ptr[q]
          BY <1>2, <1>5, <3>1
      <4> HIDE DEF g1
      <4> QED BY <1>8, <2>1, <4>1
    <3>3. q = g1[bp]
        BY <1>2
    <3> HIDE DEF g1, g2, S1, S2
    <3>4. Repointed(S1 \ {q}, g1, g2, bp, g1[q])
        BY <3>2 DEF Repointed
    <3> QED BY <1>2, <1>7, <1>8, <3>1, <3>3, <3>4, RingWithout
  <2>2. CASE ~up
    <3>1. S2 = S1 /\ \A x \in S1 : g2[x] = g1[x]
      <4> HIDE DEF g1
      <4> QED BY <1>8, <2>2
    <3> HIDE DEF g1, g2, S1, S2
    <3> QED BY <1>7, <3>1 DEF OrderedRing
  <2> QED BY <2>1, <2>2
<1>10. S2 \subseteq Nat /\ S2 \subseteq U!Addrs /\ 0 \in S2 /\ bp \in S2 /\ p \in S2 /\ \A x \in S2 : x < HeapLimit
    BY <1>2, <1>5, <1>8
<1>11. g2[p] = bp /\ g2[bp] = IF up THEN l.ptr[q] ELSE q
    BY <1>2, <1>5
<1>12. OrderedRing(S3, r.ptr)
  <2>1. CASE down
    <3>1. S3 = S2 \ {bp}
        BY <2>1
    <3>2. \A x \in S2 \ {bp} : r.ptr[x] = IF x = p THEN g2[bp] ELSE g2[x]
      <4> SUFFICES ASSUME NEW x \in S2 \ {bp} PROVE r.ptr[x] = IF x = p THEN g2[bp] ELSE g2[x]
          OBVIOUS
      <4>1. x \in U!Addrs /\ (up => x # q)
          BY <1>10
      <4>2. x # p => g2[x] = l.ptr[x]
          BY <4>1
      <4> HIDE DEF g2, S2
      <4> QED BY <1>0, <1>3, <1>4, <1>11, <2>1, <4>1, <4>2
    <3> HIDE DEF g2, S2, S3
    <3>3. Repointed(S2 \ {bp}, g2, r.ptr, p, g2[bp])
        BY <3>2 DEF Repointed
    <3> QED BY <1>2, <1>5, <1>9, <1>10, <1>11, <3>1, <3>3, RingWithout
  <2>2. CASE ~down
    <3>1. S3 = S2
        BY <2>2
    <3>2. \A x \in S2 : r.ptr[x] = g2[x]
      <4> SUFFICES ASSUME NEW x \in S2 PROVE r.ptr[x] = g2[x]
          OBVIOUS
      <4>1. x \in U!Addrs /\ (up => x # q)
          BY <1>10
      <4>2. x # p /\ x # bp => g2[x] = l.ptr[x]
          BY <4>1
      <4>3. head = bp /\ gone = IF up THEN {q} ELSE {}
          BY <1>3, <2>2
      <4> HIDE DEF g2, S2
      <4> QED BY <1>0, <1>4, <1>5, <1>11, <4>1, <4>2, <4>3
    <3> HIDE DEF g2, S2, S3
    <3> QED BY <1>9, <3>1, <3>2 DEF OrderedRing
  <2> QED BY <2>1, <2>2
<1>13. S3 \subseteq U!Addrs /\ 0 \in S3 /\ p \in S3 /\ \A x \in S3 : x < HeapLimit
    BY <1>2, <1>5, <1>10
<1>14. S3 \subseteq 0 .. HeapLimit - 1
    BY <1>1, <1>13
<1>15. FreeNodes(r) = S3
  <2>1. ASSUME NEW x \in S3 PROVE r.ptr[x] # U!NIL
      BY <1>1, <1>12, <1>13 DEF OrderedRing
  <2>2. ASSUME NEW x \in U!Addrs, x \notin S3 PROVE r.ptr[x] = U!NIL
    <3>1. x \notin N => l.ptr[x] = U!NIL
        BY DEF N, FreeNodes
    <3>2. x \notin N \cup {bp} \/ x \in gone
        BY <1>6, <2>2
    <3>3. CASE x \in gone
        BY <1>2, <1>4, <3>3
    <3>4. CASE x \notin N /\ x # bp /\ x \notin gone
      <4>1. x # p /\ x # head
          BY <1>2, <1>3, <3>4
      <4> QED BY <1>4, <3>1, <3>4, <4>1
    <3> QED BY <3>2, <3>3, <3>4
  <2> HIDE DEF S3
  <2> QED BY <1>13, <2>1, <2>2 DEF FreeNodes
<1>16. r \in [size : [U!Addrs -> Nat], ptr : [U!Addrs -> U!Addrs \cup {U!NIL}], freep : U!Addrs]
  <2>1. \A x \in U!Addrs : r.ptr[x] \in U!Addrs \cup {U!NIL}
    <3> HIDE DEF S3
    <3>1. \A x \in U!Addrs : x \notin FreeNodes(r) => r.ptr[x] = U!NIL
        BY DEF FreeNodes
    <3> QED BY <1>12, <1>13, <1>15, <3>1 DEF OrderedRing
  <2>2. r.ptr \in [U!Addrs -> U!Addrs \cup {U!NIL}]
      BY <1>4, <2>1
  <2>3. r.size \in [U!Addrs -> Nat]
    <3>1. l.size[p] \in Nat /\ l.size[bp] \in Nat /\ l.size[q] \in Nat
        BY <1>1, <1>2, <1>5
    <3>2. JoinedSize(l, bp, p, q) \in Nat
        BY <3>1 DEF JoinedSize
    <3> QED BY <1>1, <1>4, <3>2
  <2>4. r.freep = p
      BY <1>4
  <2> QED BY <1>4, <1>5, <2>2, <2>3, <2>4
<1>17. r.freep \in S3
    BY <1>4, <1>13
<1> HIDE DEF S3
<1> QED BY <1>6, <1>12, <1>14, <1>15, <1>16, <1>17 DEF FreeRing, N

(* And its blocks tile what they did before.                               *)
LEMMA FreedTiled ==
    ASSUME NEW l, NEW G, NEW O, NEW bp, NEW p, NEW q, NEW head, NEW gone, NEW r,
           Freeing(l, G, O, bp, p, q, head, gone, r)
    PROVE  /\ HeapTiled(r, G \ {bp}, O)
           /\ \A x \in G \ {bp} : r.size[x] = l.size[x]
           /\ head \in FreeNodes(r) \ {0} /\ r.size[head] >= l.size[bp]
<1> DEFINE N == FreeNodes(l)
           up == JoinsUp(l, bp, q)
           down == JoinsDown(l, bp, p)
           B == (N \ {0}) \cup G
           Bs == (FreeNodes(r) \ {0}) \cup (G \ {bp})
           end(x) == x + l.size[x]
           tot == JoinedSize(l, bp, p, q)
<1>1. /\ U!Addrs = 0 .. HeapLimit /\ HeapLimit \in Nat \ {0}
      /\ N \subseteq Nat /\ N \subseteq U!Addrs /\ 0 \in N
      /\ \A x \in N : x < HeapLimit
      /\ \A x \in U!Addrs : l.size[x] \in Nat
    BY RingFacts DEF Freeing
<1>2. /\ bp \in Nat /\ bp > 0 /\ bp < HeapLimit /\ bp \in U!Addrs /\ bp \notin N
      /\ p \in N /\ p < bp /\ \A y \in N : y <= p \/ bp < y
      /\ q \in N /\ q # bp /\ l.size[bp] \in Nat /\ l.size[bp] >= 1
      /\ up => q > bp
      /\ down => p > 0
      /\ head \notin gone /\ p \notin gone
    BY FreeingFacts
<1>3. /\ bp \in G
      /\ head = (IF down THEN p ELSE bp)
      /\ gone = (IF up THEN {q} ELSE {}) \cup (IF down THEN {bp} ELSE {})
      /\ up <=> end(bp) = q
      /\ down <=> end(p) = bp
      /\ tot = (IF down THEN l.size[p] ELSE 0) + l.size[bp] + IF up THEN l.size[q] ELSE 0
    BY DEF Freeing, JoinedHead, GoneHeaders, JoinsUp, JoinsDown, JoinedSize
<1>4. \A x \in U!Addrs : r.size[x] = IF x = head THEN tot ELSE IF x \in gone THEN 0 ELSE l.size[x]
  <2>1. /\ r = [size |-> r.size, ptr |-> r.ptr, freep |-> p]
        /\ r.size = [x \in U!Addrs |-> IF x = head THEN JoinedSize(l, bp, p, q)
                                       ELSE IF x \in gone THEN 0 ELSE l.size[x]]
        /\ r.ptr = [x \in U!Addrs |-> IF x = head THEN JoinedNext(l, bp, q)
                                      ELSE IF x \in gone THEN U!NIL ELSE IF x = p THEN bp ELSE l.ptr[x]]
      BY FreeingFields
  <2>2. PICK t : t = JoinedSize(l, bp, p, q)
      OBVIOUS
  <2>3. \A x \in U!Addrs : r.size[x] = IF x = head THEN t ELSE IF x \in gone THEN 0 ELSE l.size[x]
      BY <2>1, <2>2
  <2> QED BY <2>2, <2>3
<1>5. /\ l.size[0] = 0
      /\ G \subseteq 1 .. HeapLimit - 1 /\ G \cap N = {}
      /\ \A x \in B : l.size[x] >= 1 /\ (\A a \in Int : InBlock(l, x, a) => a \in O)
      /\ \A x, y \in B : x < y => end(x) <= y
      /\ O \subseteq Int /\ \A a \in O : \E x \in B : InBlock(l, x, a)
      /\ \A x, y \in N \ {0} : end(x) # y
  <2>1. HeapTiled(l, G, O)
      BY DEF Freeing
  <2>2. /\ l.size[0] = 0
        /\ G \subseteq 1 .. HeapLimit - 1 /\ G \cap N = {}
        /\ O \subseteq Int /\ \A a \in O : \E x \in B : InBlock(l, x, a)
        /\ \A x, y \in N \ {0} : end(x) # y
      BY <2>1, Zenon DEF HeapTiled
  <2>3. \A x \in B : l.size[x] >= 1 /\ (\A a \in Int : InBlock(l, x, a) => a \in O)
      BY <2>1, Zenon DEF HeapTiled
  <2>4. \A x, y \in B : x < y => end(x) <= y
      BY <2>1, Zenon DEF HeapTiled
  <2> QED BY <2>2, <2>3, <2>4
<1>6. FreeNodes(r) = (N \cup {bp}) \ gone
    BY FreedRing
<1>7. Follows(N, p, q)
  <2>1. OrderedRing(N, l.ptr) /\ q = l.ptr[p]
      BY DEF Freeing, FreeRing
  <2> QED BY <1>2, <2>1 DEF OrderedRing
<1> HIDE DEF N, up, down, tot
<1>8. Bs = B \ gone /\ head \in Bs /\ head \in FreeNodes(r) \ {0}
  <2>1. gone \cap G \subseteq {bp}
      BY <1>2, <1>3, <1>5
  <2>2. head \in FreeNodes(r) \ {0}
      BY <1>1, <1>2, <1>3, <1>6
  <2>3. Bs = B \ gone
    <3>1. ASSUME NEW x PROVE x \in Bs <=> x \in B \ gone
        BY <1>2, <1>3, <1>5, <1>6, <2>1
    <3> HIDE DEF B, Bs
    <3> QED BY <3>1
  <2> QED BY <2>2, <2>3
<1>9. B \subseteq U!Addrs /\ B \subseteq Nat /\ bp \in B /\ (up => q \in B) /\ (down => p \in B)
  <2>1. G \subseteq U!Addrs /\ G \subseteq Nat
      BY <1>1, <1>5
  <2>2. B \subseteq U!Addrs /\ B \subseteq Nat
      BY <1>1, <2>1
  <2>3. bp \in B
      BY <1>3
  <2>4. up => q \in B
    <3>1. q > bp => q # 0
        BY <1>2
    <3> QED BY <1>2, <3>1
  <2>5. down => p \in B
    <3>1. p > 0 => p # 0
        BY <1>1, <1>2
    <3> QED BY <1>2, <3>1
  <2> QED BY <2>2, <2>3, <2>4, <2>5
<1>10. \A x \in B : x \in Nat /\ l.size[x] \in Nat /\ end(x) \in Nat /\ end(x) > x
    BY <1>1, <1>5, <1>9
<1>11. \A x \in Bs : r.size[x] = IF x = head THEN tot ELSE l.size[x]
  <2> HIDE DEF B, Bs
  <2> QED BY <1>4, <1>8, <1>9
<1>12. tot \in Nat /\ tot >= l.size[bp] /\ head + tot = (IF up THEN end(q) ELSE end(bp)) /\ head \in B /\ head \in Nat
  <2>1. head \in B
    <3> HIDE DEF B, Bs
    <3> QED BY <1>8
  <2>2. l.size[bp] \in Nat /\ (up => l.size[q] \in Nat) /\ (down => l.size[p] \in Nat)
      BY <1>9, <1>10
  <2>3. head \in Nat /\ bp \in Nat /\ (up => q \in Nat) /\ (down => p \in Nat)
      BY <1>9, <1>10, <2>1
  <2> HIDE DEF B, Bs
  <2> QED BY <1>3, <2>1, <2>2, <2>3
<1>13. \* where the joined block ends
       \A y \in Bs : y > head => head + tot <= y
  <2> SUFFICES ASSUME NEW y \in Bs, y > head PROVE head + tot <= y
      OBVIOUS
  <2>1. y \in B /\ y \notin gone /\ y \in Nat
    <3> HIDE DEF B, Bs
    <3> QED BY <1>8, <1>9
  <2>2. y > bp
    <3>1. CASE down
      <4>1. p < y => end(p) <= y
          BY <1>5, <1>9, <2>1, <3>1
      <4> QED BY <1>2, <1>3, <2>1, <3>1, <4>1
    <3>2. CASE ~down
        BY <1>3, <3>2
    <3> QED BY <3>1, <3>2
  <2>3. end(bp) <= y
      BY <1>5, <1>9, <2>1, <2>2
  <2>4. CASE up
    <3>1. y # q /\ q <= y
        BY <1>3, <2>1, <2>3, <2>4
    <3>2. q \in B /\ q \in Nat /\ q < y
        BY <1>9, <1>10, <2>1, <2>4, <3>1
    <3>3. end(q) <= y
        BY <1>5, <2>1, <3>2
    <3> QED BY <1>12, <2>4, <3>3
  <2>5. CASE ~up
      BY <1>12, <2>3, <2>5
  <2> QED BY <2>4, <2>5
<1>14. ASSUME NEW x \in Bs, NEW y \in Bs, x < y PROVE x + r.size[x] <= y
  <2>1. x \in B /\ y \in B
    <3> HIDE DEF B, Bs
    <3> QED BY <1>8
  <2>2. CASE x = head
      BY <1>11, <1>13, <1>14, <2>2
  <2>3. CASE x # head
    <3>1. r.size[x] = l.size[x]
        BY <1>11, <2>3
    <3> QED BY <1>5, <1>14, <2>1, <3>1
  <2> QED BY <2>2, <2>3
<1>15. \* what the joined block covers
       ASSUME NEW a \in Int PROVE head <= a /\ a < head + tot <=>
                 \/ InBlock(l, bp, a)
                 \/ up /\ InBlock(l, q, a)
                 \/ down /\ InBlock(l, p, a)
  <2>0. /\ InBlock(l, bp, a) <=> bp <= a /\ a < end(bp)
        /\ InBlock(l, q, a) <=> q <= a /\ a < end(q)
        /\ InBlock(l, p, a) <=> p <= a /\ a < end(p)
      BY DEF InBlock
  <2>1. bp \in Nat /\ end(bp) \in Nat /\ end(bp) > bp
      BY <1>9, <1>10
  <2>2. up => q \in Nat /\ end(q) \in Nat /\ end(q) > q /\ end(bp) = q
      BY <1>3, <1>9, <1>10
  <2>3. down => p \in Nat /\ end(p) = bp /\ p < bp
      BY <1>2, <1>3, <1>9, <1>10
  <2>4. PICK eb \in Nat : eb = end(bp)
      BY <2>1
  <2>5. PICK eq : eq = end(q)
      OBVIOUS
  <2>6. PICK ep : ep = end(p)
      OBVIOUS
  <2>7. PICK t \in Nat : t = tot
      BY <1>12
  <2> HIDE DEF B, Bs, end
  <2>8. CASE up /\ down
    <3>1. head = p /\ head + t = eq
        BY <1>3, <1>12, <2>5, <2>7, <2>8
    <3> QED BY <2>0, <2>1, <2>2, <2>3, <2>4, <2>5, <2>6, <2>7, <2>8, <3>1
  <2>9. CASE up /\ ~down
    <3>1. head = bp /\ head + t = eq
        BY <1>3, <1>12, <2>5, <2>7, <2>9
    <3> QED BY <2>0, <2>1, <2>2, <2>3, <2>4, <2>5, <2>6, <2>7, <2>9, <3>1
  <2>10. CASE ~up /\ down
    <3>1. head = p /\ head + t = eb
        BY <1>3, <1>12, <2>4, <2>7, <2>10
    <3> QED BY <2>0, <2>1, <2>2, <2>3, <2>4, <2>5, <2>6, <2>7, <2>10, <3>1
  <2>11. CASE ~up /\ ~down
    <3>1. head = bp /\ head + t = eb
        BY <1>3, <1>12, <2>4, <2>7, <2>11
    <3> QED BY <2>0, <2>1, <2>2, <2>3, <2>4, <2>5, <2>6, <2>7, <2>11, <3>1
  <2> QED BY <2>8, <2>9, <2>10, <2>11
<1>16. ASSUME NEW x \in Bs PROVE r.size[x] >= 1 /\ \A a \in Int : InBlock(r, x, a) => a \in O
  <2>1. x \in B
    <3> HIDE DEF B, Bs
    <3> QED BY <1>8
  <2>2. CASE x = head
    <3>1. r.size[x] = tot /\ tot >= 1
        BY <1>2, <1>11, <1>12, <2>2
    <3>2. ASSUME NEW a \in Int, InBlock(r, x, a) PROVE a \in O
      <4>1. head <= a /\ a < head + tot
          BY <2>2, <3>1, <3>2 DEF InBlock
      <4>2. InBlock(l, bp, a) => a \in O
          BY <1>5, <1>9
      <4>3. up /\ InBlock(l, q, a) => a \in O
          BY <1>5, <1>9
      <4>4. down /\ InBlock(l, p, a) => a \in O
          BY <1>5, <1>9
      <4> QED BY <1>15, <4>1, <4>2, <4>3, <4>4
    <3> QED BY <2>2, <3>1, <3>2
  <2>3. CASE x # head
    <3>1. r.size[x] = l.size[x]
        BY <1>11, <2>3
    <3>2. l.size[x] >= 1 /\ (\A a \in Int : InBlock(l, x, a) => a \in O)
        BY <1>5, <2>1
    <3> QED BY <3>1, <3>2 DEF InBlock
  <2> QED BY <2>2, <2>3
<1>17. ASSUME NEW a \in O PROVE \E x \in Bs : InBlock(r, x, a)
  <2>1. PICK x \in B : InBlock(l, x, a)
      BY <1>5
  <2>2. CASE x \in gone \/ x = head
    <3>1. \/ x = bp
          \/ up /\ x = q
          \/ down /\ x = p
        BY <1>3, <2>2
    <3>2. a \in Int
        BY <1>5
    <3>3. head <= a /\ a < head + tot
      <4> HIDE DEF B, Bs, end
      <4> QED BY <1>15, <2>1, <3>1, <3>2
    <3> HIDE DEF B, Bs
    <3> QED BY <1>8, <1>11, <3>3 DEF InBlock
  <2>3. CASE x \notin gone /\ x # head
    <3>1. x \in Bs
      <4> HIDE DEF Bs, B
      <4> QED BY <1>8, <2>3
    <3>2. r.size[x] = l.size[x]
        BY <1>11, <2>3, <3>1
    <3> QED BY <2>1, <3>1, <3>2 DEF InBlock
  <2> QED BY <2>2, <2>3
<1>18. ASSUME NEW x \in FreeNodes(r) \ {0}, NEW y \in FreeNodes(r) \ {0} PROVE x + r.size[x] # y
  <2>1. x \in Bs /\ y \in Bs
      OBVIOUS
  <2>2. x \in B /\ y \in B /\ x \in Nat /\ y \in Nat /\ end(x) \in Nat /\ end(x) > x
    <3>1. x \in B /\ y \in B
      <4> HIDE DEF B, Bs
      <4> QED BY <1>8, <2>1
    <3> QED BY <1>10, <3>1
  <2>3. (x \in N \/ x = bp) /\ (y \in N \/ y = bp) /\ x \notin gone /\ y \notin gone /\ x # 0 /\ y # 0
      BY <1>6
  <2>4. r.size[x] = IF x = head THEN tot ELSE l.size[x]
      BY <1>11, <2>1
  <2>5. CASE x = head
    <3>1. x + r.size[x] = IF up THEN end(q) ELSE end(bp)
        BY <1>12, <2>4, <2>5
    <3> SUFFICES ASSUME x + r.size[x] = y PROVE FALSE
        OBVIOUS
    <3>2. CASE up
      <4>1. q \in N \ {0} /\ y = end(q) /\ q \in B /\ end(q) > q
          BY <1>2, <1>9, <1>10, <3>1, <3>2
      <4>2. y # bp
          BY <1>2, <1>10, <3>2, <4>1
      <4> QED BY <1>5, <2>3, <4>1, <4>2
    <3>3. CASE ~up
      <4>1. y = end(bp) /\ y > bp /\ y # bp
          BY <1>9, <1>10, <3>1, <3>3
      <4>2. y \in N /\ y # q
          BY <1>3, <2>3, <3>3, <4>1
      <4>3. p \in Nat /\ q \in Nat
          BY <1>1, <1>2
      <4>4. p < q /\ q < y
          BY <1>2, <1>7, <2>2, <4>1, <4>2, <4>3 DEF Follows
      <4>5. bp < q /\ q \in B
          BY <1>2, <4>3, <4>4
      <4>6. end(bp) <= q
          BY <1>5, <1>9, <4>5
      <4> QED BY <2>2, <4>1, <4>3, <4>4, <4>6
    <3> QED BY <3>2, <3>3
  <2>6. CASE x # head
    <3> SUFFICES ASSUME end(x) = y PROVE FALSE
        BY <2>4, <2>6
    <3>1. x \in N \ {0}
        BY <1>3, <2>3, <2>6
    <3>2. y = bp /\ ~down
        BY <1>3, <1>5, <2>3, <3>1
    <3>3. x < bp /\ x <= p /\ p \in Nat
      <4>1. x < bp
          BY <2>2, <3>2
      <4>2. x <= p \/ bp < x
          BY <1>2, <3>1
      <4>3. p \in Nat
          BY <1>1, <1>2
      <4> QED BY <1>2, <2>2, <4>1, <4>2, <4>3
    <3>4. CASE x = p
        BY <1>3, <3>2, <3>4
    <3>5. CASE x < p
      <4>1. p \in B
          BY <1>2, <2>2, <3>5
      <4>2. end(x) <= p
          BY <1>5, <2>2, <3>5, <4>1
      <4> QED BY <1>2, <2>2, <3>2, <3>3, <4>2
    <3> QED BY <2>2, <3>3, <3>4, <3>5
  <2> QED BY <2>5, <2>6
<1>19. r.size[0] = 0
  <2>1. head # 0 /\ 0 \in U!Addrs
      BY <1>1, <1>8
  <2> QED BY <1>4, <1>5, <2>1
<1>20. G \ {bp} \subseteq 1 .. HeapLimit - 1 /\ (G \ {bp}) \cap FreeNodes(r) = {}
    BY <1>5, <1>6
<1>21. ASSUME NEW x \in G \ {bp} PROVE r.size[x] = l.size[x]
  <2>1. x # head
      BY <1>2, <1>3, <1>5
  <2> QED BY <1>11, <2>1
<1>22. HeapTiled(r, G \ {bp}, O)
  <2>1. O \subseteq Int
      BY <1>5
  <2> QED BY <1>14, <1>16, <1>17, <1>18, <1>19, <1>20, <2>1 DEF HeapTiled
<1>23. r.size[head] >= l.size[bp]
  <2> HIDE DEF Bs
  <2> QED BY <1>8, <1>11, <1>12
<1> QED BY <1>8, <1>21, <1>22, <1>23

(* A large enough block of the list is found.                              *)
LEMMA FitsSomewhere ==
    ASSUME NEW l, FreeRing(l), NEW m, NEW x \in FreeNodes(l), l.size[x] >= m
    PROVE  U!Fitting(l, m) # {}
<1>1. PICK k \in 1 .. HeapLimit : U!At(l, k) = x
    BY WalkMeets
<1>2. k \in U!Addrs \ {0}
  <2>1. U!Addrs = 0 .. HeapLimit /\ HeapLimit \in Nat
      BY RingFacts
  <2> QED BY <2>1
<1> QED BY <1>1, <1>2 DEF U!Fitting

(* malloc takes all of the block at p, or its tail.                        *)
TakesFrom(l, m, t, p, prevp) ==
    /\ p = l.ptr[prevp] /\ p > 0 /\ prevp # p /\ l.size[p] >= m
    /\ l.size[p] = m => t = [block |-> p,
           list |-> [l EXCEPT !.ptr = [l.ptr EXCEPT ![prevp] = l.ptr[p], ![p] = U!NIL], !.freep = prevp]]
    /\ l.size[p] # m => t = [block |-> p + (l.size[p] - m),
           list |-> [l EXCEPT !.size = [l.size EXCEPT ![p] = l.size[p] - m, ![p + (l.size[p] - m)] = m], !.freep = prevp]]

LEMMA TakeIs ==
    ASSUME NEW l, FreeRing(l), l.size[0] = 0, NEW m \in Nat, m > 0, U!Fitting(l, m) # {},
           NEW t, t = U!Take(l, m)
    PROVE  \E p, prevp \in FreeNodes(l) : TakesFrom(l, m, t, p, prevp)
<1> DEFINE K == U!Fitting(l, m)
<1>1. /\ U!Addrs = 0 .. HeapLimit /\ HeapLimit \in Nat \ {0}
      /\ FreeNodes(l) \subseteq Nat /\ FreeNodes(l) \subseteq U!Addrs /\ 0 \in FreeNodes(l)
      /\ \A x \in FreeNodes(l) : l.ptr[x] \in FreeNodes(l) /\ Follows(FreeNodes(l), x, l.ptr[x])
      /\ \A x \in U!Addrs : l.size[x] \in Nat
    BY RingFacts
<1>2. K \subseteq 1 .. HeapLimit
    BY <1>1 DEF U!Fitting
<1>3. PICK k \in K : k = U!Min(K)
  <2>1. K \subseteq Int /\ IsFiniteSet(K)
    <3>1. IsFiniteSet(1 .. HeapLimit) /\ 1 .. HeapLimit \subseteq Int
        BY <1>1, FS_Interval
    <3> HIDE DEF K
    <3> QED BY <1>2, <3>1, FS_Subset
  <2> HIDE DEF K
  <2>2. K # {}
      BY DEF K
  <2>3. \E x \in K : \A y \in K : x <= y
      BY <2>1, <2>2, LeastOf
  <2>4. U!Min(K) \in K
      BY <2>3 DEF U!Min
  <2> QED BY <2>4
<1>4. k \in Nat /\ k > 0 /\ k - 1 \in Nat /\ k - 1 + 1 = k
    BY <1>1, <1>2
<1>5. PICK p : p = U!At(l, k)
    OBVIOUS
<1>6. PICK prevp : prevp = U!At(l, k - 1)
    OBVIOUS
<1>7. p \in FreeNodes(l) /\ prevp \in FreeNodes(l)
    BY <1>4, <1>5, <1>6, WalkMeets
<1>8. p = l.ptr[prevp]
    BY <1>4, <1>5, <1>6, AtStep
<1>9. l.size[p] >= m
    BY <1>5 DEF U!Fitting
<1>10. p \in Nat /\ prevp \in Nat /\ p # 0 /\ p > 0 /\ l.size[p] \in Nat
    BY <1>1, <1>7, <1>9
<1>11. prevp # p
    BY <1>1, <1>7, <1>8, <1>10 DEF Follows
<1>12. t = IF l.size[p] - m = 0
           THEN [block |-> p, list |-> [l EXCEPT !.ptr = [l.ptr EXCEPT ![prevp] = l.ptr[p], ![p] = U!NIL], !.freep = prevp]]
           ELSE [block |-> p + (l.size[p] - m),
                 list |-> [l EXCEPT !.size = [l.size EXCEPT ![p] = l.size[p] - m, ![p + (l.size[p] - m)] = m], !.freep = prevp]]
  <2> HIDE DEF K
  <2> QED BY <1>3, <1>5, <1>6 DEF U!Take, K
<1>13. l.size[p] - m = 0 <=> l.size[p] = m
    BY <1>10
<1>14. l.size[p] = m => t = [block |-> p,
                    list |-> [l EXCEPT !.ptr = [l.ptr EXCEPT ![prevp] = l.ptr[p], ![p] = U!NIL], !.freep = prevp]]
    BY <1>12, <1>13
<1>15. l.size[p] # m => t = [block |-> p + (l.size[p] - m),
                    list |-> [l EXCEPT !.size = [l.size EXCEPT ![p] = l.size[p] - m, ![p + (l.size[p] - m)] = m], !.freep = prevp]]
    BY <1>12, <1>13
<1> QED BY <1>7, <1>8, <1>9, <1>10, <1>11, <1>14, <1>15 DEF TakesFrom

(* What is left after it is a ring, and with the block given out it tiles  *)
(* what it did.                                                            *)
Taken(l, G, O, m, t) ==
    /\ FreeRing(t.list) /\ HeapTiled(t.list, G \cup {t.block}, O)
    /\ t.block \notin G /\ t.list.size[t.block] = m
    /\ \A x \in G : t.list.size[x] = l.size[x]

LEMMA TakeAll ==
    ASSUME NEW l, NEW G, NEW O, FreeRing(l), HeapTiled(l, G, O),
           NEW p \in FreeNodes(l), NEW prevp \in FreeNodes(l), p = l.ptr[prevp], p > 0, prevp # p,
           NEW t, t = [block |-> p,
               list |-> [l EXCEPT !.ptr = [l.ptr EXCEPT ![prevp] = l.ptr[p], ![p] = U!NIL], !.freep = prevp]]
    PROVE  Taken(l, G, O, l.size[p], t)
<1> DEFINE N == FreeNodes(l)
<1>1. /\ U!Addrs = 0 .. HeapLimit /\ U!NIL \notin U!Addrs /\ HeapLimit \in Nat \ {0}
      /\ N \subseteq Nat /\ N \subseteq U!Addrs /\ 0 \in N
      /\ \A x \in N : l.ptr[x] \in N /\ Follows(N, x, l.ptr[x])
      /\ \A x \in N : x < HeapLimit
    BY RingFacts
<1>2. l \in [size : [U!Addrs -> Nat], ptr : [U!Addrs -> U!Addrs \cup {U!NIL}], freep : U!Addrs]
    BY DEF FreeRing
<1>3. PICK r : r = t.list
    OBVIOUS
<1>4. r.size = l.size /\ r.freep = prevp /\ r.ptr = [l.ptr EXCEPT ![prevp] = l.ptr[p], ![p] = U!NIL]
    BY <1>2, <1>3
<1>5. r \in [size : [U!Addrs -> Nat], ptr : [U!Addrs -> U!Addrs \cup {U!NIL}], freep : U!Addrs]
  <2>1. l.ptr[p] \in U!Addrs /\ p \in U!Addrs /\ prevp \in U!Addrs
      BY <1>1
  <2> QED BY <1>2, <1>3, <2>1
<1>6. \A x \in U!Addrs : r.ptr[x] = IF x = p THEN U!NIL ELSE IF x = prevp THEN l.ptr[p] ELSE l.ptr[x]
    BY <1>2, <1>4
<1>7. FreeNodes(r) = N \ {p}
  <2>1. ASSUME NEW x \in U!Addrs PROVE r.ptr[x] # U!NIL <=> l.ptr[x] # U!NIL /\ x # p
    <3>1. l.ptr[prevp] # U!NIL /\ l.ptr[p] # U!NIL
        BY <1>1
    <3> QED BY <1>6, <3>1
  <2> QED BY <2>1 DEF FreeNodes
<1>8. OrderedRing(N \ {p}, r.ptr)
  <2>1. OrderedRing(N, l.ptr)
      BY DEF FreeRing
  <2>2. Repointed(N \ {p}, l.ptr, r.ptr, prevp, l.ptr[p])
      BY <1>1, <1>6 DEF Repointed
  <2> HIDE DEF N
  <2>3. p \in N /\ prevp \in N
      BY DEF N
  <2> QED BY <2>1, <2>2, <2>3, RingWithout
<1>9. FreeRing(r)
  <2>1. N \ {p} \subseteq 0 .. HeapLimit - 1
      BY <1>1
  <2>2. r.freep \in N \ {p}
      BY <1>4
  <2> HIDE DEF N
  <2> QED BY <1>5, <1>7, <1>8, <2>1, <2>2 DEF FreeRing
<1>10. (FreeNodes(r) \ {0}) \cup (G \cup {p}) = (N \ {0}) \cup G
  <2>1. p # 0
      BY <1>1
  <2> QED BY <1>7, <2>1
<1>11. p \notin G /\ p \in 1 .. HeapLimit - 1 /\ (G \cup {p}) \cap FreeNodes(r) = {}
  <2>1. G \cap N = {}
      BY DEF HeapTiled
  <2> QED BY <1>1, <1>7, <2>1
<1>12. \A x, a : InBlock(r, x, a) <=> InBlock(l, x, a)
    BY <1>4 DEF InBlock
<1>13. HeapTiled(r, G \cup {p}, O)
  <2>1. PICK B : B = (N \ {0}) \cup G
      OBVIOUS
  <2>2. /\ l.size[0] = 0 /\ G \subseteq 1 .. HeapLimit - 1 /\ O \subseteq Int
        /\ \A x \in B : l.size[x] >= 1 /\ (\A a \in Int : InBlock(l, x, a) => a \in O)
        /\ \A x, y \in B : x < y => x + l.size[x] <= y
        /\ \A a \in O : \E x \in B : InBlock(l, x, a)
        /\ \A x, y \in N \ {0} : x + l.size[x] # y
      BY <2>1, Zenon DEF HeapTiled
  <2>3. /\ r.size[0] = 0 /\ G \cup {p} \subseteq 1 .. HeapLimit - 1
      BY <1>4, <1>11, <2>2
  <2>4. \A x \in B : r.size[x] >= 1 /\ (\A a \in Int : InBlock(r, x, a) => a \in O)
      BY <1>4, <1>12, <2>2
  <2>5. \A x, y \in B : x < y => x + r.size[x] <= y
      BY <1>4, <2>2
  <2>6. \A a \in O : \E x \in B : InBlock(r, x, a)
      BY <1>12, <2>2
  <2>7. \A x, y \in FreeNodes(r) \ {0} : x + r.size[x] # y
      BY <1>4, <1>7, <2>2
  <2> HIDE DEF N
  <2>8. B = (FreeNodes(r) \ {0}) \cup (G \cup {p})
      BY <1>10, <2>1
  <2> QED BY <1>11, <2>2, <2>3, <2>4, <2>5, <2>6, <2>7, <2>8, Zenon DEF HeapTiled
<1>14. t.block = p
    OBVIOUS
<1> QED BY <1>3, <1>4, <1>9, <1>11, <1>13, <1>14 DEF Taken

LEMMA TakeTail ==
    ASSUME NEW l, NEW G, NEW O, FreeRing(l), HeapTiled(l, G, O), O \subseteq 1 .. HeapLimit - 1,
           NEW m \in Nat, m > 0, NEW p \in FreeNodes(l), NEW prevp \in FreeNodes(l), p > 0, l.size[p] > m,
           NEW b, b = p + (l.size[p] - m),
           NEW t, t = [block |-> b,
               list |-> [l EXCEPT !.size = [l.size EXCEPT ![p] = l.size[p] - m, ![b] = m], !.freep = prevp]]
    PROVE  Taken(l, G, O, m, t)
<1> DEFINE N == FreeNodes(l)
           B == (N \ {0}) \cup G
           Bs == (N \ {0}) \cup (G \cup {b})
<1>1. /\ U!Addrs = 0 .. HeapLimit /\ HeapLimit \in Nat \ {0}
      /\ N \subseteq Nat /\ N \subseteq U!Addrs /\ 0 \in N
      /\ \A x \in U!Addrs : l.size[x] \in Nat
    BY RingFacts
<1>2. l \in [size : [U!Addrs -> Nat], ptr : [U!Addrs -> U!Addrs \cup {U!NIL}], freep : U!Addrs]
    BY DEF FreeRing
<1>3. PICK r : r = t.list
    OBVIOUS
<1>4. /\ l.size[0] = 0 /\ G \subseteq 1 .. HeapLimit - 1 /\ G \cap N = {} /\ O \subseteq Int
      /\ \A x \in B : l.size[x] >= 1 /\ (\A a \in Int : InBlock(l, x, a) => a \in O)
      /\ \A x, y \in B : x < y => x + l.size[x] <= y
      /\ \A a \in O : \E x \in B : InBlock(l, x, a)
      /\ \A x, y \in N \ {0} : x + l.size[x] # y
    BY Zenon DEF HeapTiled
<1>5. p \in Nat /\ l.size[p] \in Nat /\ b \in Nat /\ p < b /\ b < p + l.size[p] /\ b + m = p + l.size[p] /\ p # 0 /\ p \in B
    BY <1>1
<1>6. b \in 1 .. HeapLimit - 1 /\ b \in U!Addrs
  <2>1. InBlock(l, p, b)
      BY <1>5 DEF InBlock
  <2>2. b \in O
      BY <1>4, <1>5, <2>1
  <2>3. b \in 1 .. HeapLimit - 1
      BY <2>2
  <2> QED BY <1>1, <2>3
<1>7. B \subseteq Nat /\ B \subseteq U!Addrs /\ 0 \notin B
    BY <1>1, <1>4
<1>8. b \notin B
  <2> SUFFICES ASSUME b \in B PROVE FALSE
      OBVIOUS
  <2>1. p + l.size[p] <= b
      BY <1>4, <1>5
  <2> QED BY <1>5, <2>1
<1>9. r.ptr = l.ptr /\ r.freep = prevp /\ r.size = [l.size EXCEPT ![p] = l.size[p] - m, ![b] = m]
    BY <1>2, <1>3
<1>10. \A x \in U!Addrs : r.size[x] = IF x = b THEN m ELSE IF x = p THEN l.size[p] - m ELSE l.size[x]
    BY <1>2, <1>9
<1>11. r \in [size : [U!Addrs -> Nat], ptr : [U!Addrs -> U!Addrs \cup {U!NIL}], freep : U!Addrs]
  <2>1. prevp \in U!Addrs /\ l.size[p] - m \in Nat
      BY <1>1, <1>5
  <2> QED BY <1>2, <1>3, <2>1
<1>12. FreeNodes(r) = N
    BY <1>9 DEF FreeNodes
<1>13. FreeRing(r)
  <2>1. N \subseteq 0 .. HeapLimit - 1 /\ OrderedRing(N, l.ptr)
      BY DEF FreeRing
  <2> HIDE DEF N
  <2>2. prevp \in N
      BY DEF N
  <2> QED BY <1>9, <1>11, <1>12, <2>1, <2>2 DEF FreeRing
<1>14. /\ r.size[b] = m /\ r.size[p] = l.size[p] - m
       /\ \A x \in B : x # p => r.size[x] = l.size[x]
    BY <1>1, <1>5, <1>6, <1>7, <1>8, <1>10
<1>15. \A x \in Bs : x = b \/ x \in B
    OBVIOUS
<1>16. \A x \in B : x \in Nat /\ l.size[x] \in Nat
    BY <1>1, <1>7
<1> HIDE DEF B, Bs
<1>17. ASSUME NEW x \in Bs PROVE r.size[x] >= 1 /\ \A a \in Int : InBlock(r, x, a) => a \in O
  <2>1. CASE x = b
    <3>1. ASSUME NEW a \in Int, InBlock(r, x, a) PROVE InBlock(l, p, a)
        BY <1>5, <1>14, <2>1, <3>1 DEF InBlock
    <3> QED BY <1>4, <1>5, <1>14, <2>1, <3>1
  <2>2. CASE x = p
    <3>1. ASSUME NEW a \in Int, InBlock(r, x, a) PROVE InBlock(l, p, a)
        BY <1>5, <1>14, <2>2, <3>1 DEF InBlock
    <3>2. r.size[x] >= 1
        BY <1>5, <1>14, <2>2
    <3> QED BY <1>4, <1>5, <3>1, <3>2
  <2>3. CASE x # b /\ x # p
    <3>1. x \in B /\ r.size[x] = l.size[x]
        BY <1>14, <1>15, <2>3
    <3>2. \A a \in Int : InBlock(r, x, a) => InBlock(l, x, a)
        BY <3>1 DEF InBlock
    <3> QED BY <1>4, <3>1, <3>2
  <2> QED BY <2>1, <2>2, <2>3
<1>18. ASSUME NEW x \in Bs, NEW y \in Bs, x < y PROVE x + r.size[x] <= y
  <2>1. CASE x = b
    <3>1. y \in B /\ y \in Nat /\ p < y
        BY <1>5, <1>15, <1>16, <1>18, <2>1
    <3>2. p + l.size[p] <= y
        BY <1>4, <1>5, <3>1
    <3> QED BY <1>5, <1>14, <2>1, <3>2
  <2>2. CASE x = p
    <3>1. x + r.size[x] = b
        BY <1>5, <1>14, <2>2
    <3>2. CASE y = b
        BY <1>5, <3>1, <3>2
    <3>3. CASE y # b
      <4>1. y \in B /\ y \in Nat
          BY <1>15, <1>16, <3>3
      <4>2. p + l.size[p] <= y
          BY <1>4, <1>5, <1>18, <2>2, <4>1
      <4> QED BY <1>5, <3>1, <4>1, <4>2
    <3> QED BY <3>2, <3>3
  <2>3. CASE x # b /\ x # p
    <3>1. x \in B /\ r.size[x] = l.size[x] /\ x \in Nat /\ l.size[x] \in Nat
        BY <1>14, <1>15, <1>16, <2>3
    <3>2. CASE y = b
      <4>1. x < p \/ p < x
          BY <1>5, <2>3, <3>1
      <4>2. p < x => p + l.size[p] <= x
          BY <1>4, <1>5, <3>1
      <4>3. x < p
          BY <1>5, <1>18, <3>1, <3>2, <4>1, <4>2
      <4>4. x + l.size[x] <= p
          BY <1>4, <1>5, <3>1, <4>3
      <4> QED BY <1>5, <3>1, <3>2, <4>4
    <3>3. CASE y # b
      <4>1. y \in B
          BY <1>15, <3>3
      <4> QED BY <1>4, <1>18, <3>1, <4>1
    <3> QED BY <3>2, <3>3
  <2> QED BY <2>1, <2>2, <2>3
<1>19. B \subseteq Bs /\ b \in Bs
    BY DEF B, Bs
<1>20. ASSUME NEW a \in O PROVE \E x \in Bs : InBlock(r, x, a)
  <2>1. PICK x \in B : InBlock(l, x, a)
      BY <1>4
  <2>2. a \in Int
      BY <1>4
  <2>3. CASE x = p
    <3>1. InBlock(r, p, a) \/ InBlock(r, b, a)
        BY <1>5, <1>14, <2>1, <2>2, <2>3 DEF InBlock
    <3> QED BY <1>5, <1>19, <3>1
  <2>4. CASE x # p
    <3>1. InBlock(r, x, a)
        BY <1>14, <2>1, <2>4 DEF InBlock
    <3> QED BY <1>19, <3>1
  <2> QED BY <2>3, <2>4
<1>21. ASSUME NEW x \in N \ {0}, NEW y \in N \ {0} PROVE x + r.size[x] # y
  <2>1. x \in B /\ y \in B
      BY DEF B
  <2>2. CASE x = p
    <3>1. x + r.size[x] = b
        BY <1>5, <1>14, <2>2
    <3> QED BY <1>8, <2>1, <3>1
  <2>3. CASE x # p
      BY <1>4, <1>14, <2>1, <2>3
  <2> QED BY <2>2, <2>3
<1>22. r.size[0] = 0
    BY <1>1, <1>4, <1>5, <1>6, <1>10
<1>23. b \notin N /\ b \notin G
    BY <1>5, <1>8 DEF B
<1>24. G \cup {b} \subseteq 1 .. HeapLimit - 1 /\ (G \cup {b}) \cap N = {}
    BY <1>4, <1>6, <1>23
<1>25. HeapTiled(r, G \cup {b}, O)
    BY <1>4, <1>12, <1>17, <1>18, <1>20, <1>21, <1>22, <1>24 DEF HeapTiled, Bs
<1>26. \A x \in G : r.size[x] = l.size[x]
  <2>1. \A x \in G : x \in B /\ x # p
      BY <1>4 DEF B
  <2> QED BY <1>14, <2>1
<1>27. t.block = b
    OBVIOUS
<1> QED BY <1>3, <1>13, <1>14, <1>23, <1>25, <1>26, <1>27 DEF Taken

LEMMA TakeTiled ==
    ASSUME NEW l, NEW G, NEW O, FreeRing(l), HeapTiled(l, G, O), O \subseteq 1 .. HeapLimit - 1,
           NEW m \in Nat, m > 0, U!Fitting(l, m) # {}, NEW t, t = U!Take(l, m)
    PROVE  Taken(l, G, O, m, t)
<1>1. l.size[0] = 0
    BY DEF HeapTiled
<1>2. PICK p, prevp \in FreeNodes(l) : TakesFrom(l, m, t, p, prevp)
    BY <1>1, TakeIs
<1> USE DEF TakesFrom
<1>3. CASE l.size[p] = m
    BY <1>2, <1>3, TakeAll
<1>4. CASE l.size[p] # m
  <2>1. l.size[p] > m
    <3>1. FreeNodes(l) \subseteq U!Addrs /\ \A x \in U!Addrs : l.size[x] \in Nat
        BY RingFacts
    <3> QED BY <1>2, <1>4, <3>1
  <2>2. PICK b : b = p + (l.size[p] - m)
      OBVIOUS
  <2>3. t = [block |-> b, list |-> [l EXCEPT !.size = [l.size EXCEPT ![p] = l.size[p] - m, ![b] = m], !.freep = prevp]]
      BY <1>2, <1>4, <2>2
  <2> QED BY <1>2, <2>1, <2>2, <2>3, TakeTail
<1> QED BY <1>3, <1>4

----------------------------------------------------------------------------
(* Before the first malloc.                                                *)
LEMMA HeapInit == U!Init => HeapIInv
<1> SUFFICES ASSUME U!Init PROVE HeapIInv
    OBVIOUS
<1>1. /\ list = [size |-> [x \in U!Addrs |-> 0], ptr |-> [x \in U!Addrs |-> U!NIL], freep |-> U!NIL]
      /\ brk = 1 /\ given = [x \in {} |-> 0] /\ own = {}
    BY DEF U!Init
<1>2. HeapLimit \in Nat /\ HeapLimit > 0 /\ U!Addrs = 0 .. HeapLimit /\ U!NIL = -1
    BY HeapAssumption DEF U!Addrs, U!base, U!NIL
<1>3. PICK l : l = U!Started
    OBVIOUS
<1>4. l = [size |-> [x \in U!Addrs |-> 0], ptr |-> [x \in U!Addrs |-> IF x = 0 THEN 0 ELSE U!NIL], freep |-> 0]
    BY <1>1, <1>2, <1>3 DEF U!Started, U!base
<1>5. FreeNodes(l) = {0}
    BY <1>2, <1>4 DEF FreeNodes
<1>6. FreeRing(l)
  <2>1. l \in [size : [U!Addrs -> Nat], ptr : [U!Addrs -> U!Addrs \cup {U!NIL}], freep : U!Addrs]
      BY <1>2, <1>4
  <2>2. OrderedRing({0}, l.ptr)
      BY <1>2, <1>4 DEF OrderedRing, Follows
  <2>3. {0} \subseteq 0 .. HeapLimit - 1 /\ l.freep = 0
      BY <1>2, <1>4
  <2> QED BY <1>5, <2>1, <2>2, <2>3 DEF FreeRing
<1>7. DOMAIN given = {}
    BY <1>1
<1>8. HeapTiled(l, {}, {})
  <2>1. (FreeNodes(l) \ {0}) \cup {} = {} /\ FreeNodes(l) \ {0} = {} /\ l.size[0] = 0
      BY <1>2, <1>4, <1>5
  <2> QED BY <2>1 DEF HeapTiled
<1>9. own \subseteq 1 .. brk - 1 /\ brk \in 1 .. HeapLimit
    BY <1>1, <1>2
<1>10. given = [x \in DOMAIN given |-> given[x]] /\ list = [size |-> list.size, ptr |-> list.ptr, freep |-> list.freep]
    BY <1>1
<1> QED BY <1>1, <1>3, <1>6, <1>7, <1>8, <1>9, <1>10 DEF HeapIInv

(* What is not given out or taken in changes nothing of the lists.         *)
LEMMA HeapFacts ==
    ASSUME HeapIInv
    PROVE  /\ HeapLimit \in Nat \ {0} /\ brk \in Nat /\ brk >= 1 /\ brk <= HeapLimit
           /\ own \subseteq 1 .. HeapLimit - 1 /\ own \subseteq 1 .. brk - 1
           /\ U!Started.size = list.size
           /\ DOMAIN given # {} => list.freep # U!NIL
<1>1. HeapLimit \in Nat \ {0}
    BY HeapAssumption
<1>2. brk \in 1 .. HeapLimit /\ own \subseteq 1 .. brk - 1
    BY DEF HeapIInv
<1>3. U!Started.size = list.size
  <2>1. list = [size |-> list.size, ptr |-> list.ptr, freep |-> list.freep]
      BY DEF HeapIInv
  <2> QED BY <2>1 DEF U!Started, U!base
<1>4. ASSUME NEW x \in DOMAIN given PROVE list.freep # U!NIL
  <2>1. HeapTiled(U!Started, DOMAIN given, own)
      BY DEF HeapIInv
  <2>2. U!Started.size[x] >= 1 /\ x \in 1 .. HeapLimit - 1 /\ \A a \in Int : InBlock(U!Started, x, a) => a \in own
      BY <2>1 DEF HeapTiled
  <2>3. FreeRing(U!Started)
      BY DEF HeapIInv
  <2>4. U!Started.size[x] \in Nat
    <3>1. U!Addrs = 0 .. HeapLimit /\ \A y \in U!Addrs : U!Started.size[y] \in Nat
        BY <2>3, RingFacts
    <3> QED BY <1>1, <2>2, <3>1
  <2>5. InBlock(U!Started, x, x)
      BY <1>1, <2>2, <2>4 DEF InBlock
  <2>6. x \in own
      BY <1>1, <2>2, <2>5
  <2> QED BY <2>6 DEF HeapIInv
<1>5. own \subseteq 1 .. HeapLimit - 1
    BY <1>1, <1>2
<1> QED BY <1>1, <1>2, <1>3, <1>4, <1>5

(* A block is given out of a list l that has room for it.                  *)
LEMMA HeapGives ==
    ASSUME NEW l, FreeRing(l), HeapTiled(l, DOMAIN given, own'), NEW m \in Nat, m > 0, U!Fitting(l, m) # {},
           U!Give(l, m), given = [x \in DOMAIN given |-> given[x]], \A x \in DOMAIN given : given[x] = l.size[x],
           brk' \in 1 .. HeapLimit, own' \subseteq 1 .. brk' - 1
    PROVE  HeapIInv'
<1>1. PICK t : t = U!Take(l, m)
    OBVIOUS
<1>2. /\ list' = t.list
      /\ given' = [x \in DOMAIN given \cup {t.block} |-> IF x = t.block THEN m ELSE given[x]]
    BY <1>1 DEF U!Give
<1>3. own' \subseteq 1 .. HeapLimit - 1
    BY HeapAssumption
<1>4. Taken(l, DOMAIN given, own', m, t)
    BY <1>1, <1>3, TakeTiled
<1>5. /\ FreeRing(list') /\ HeapTiled(list', DOMAIN given \cup {t.block}, own')
      /\ t.block \notin DOMAIN given /\ list'.size[t.block] = m
      /\ \A x \in DOMAIN given : list'.size[x] = l.size[x]
    BY <1>2, <1>4 DEF Taken
<1>6. DOMAIN given' = DOMAIN given \cup {t.block}
    BY <1>2
<1>7. /\ given' = [x \in DOMAIN given' |-> given'[x]]
      /\ \A x \in DOMAIN given' : given'[x] = list'.size[x]
    BY <1>2, <1>5, <1>6
<1>8. list'.freep # U!NIL /\ list' = [size |-> list'.size, ptr |-> list'.ptr, freep |-> list'.freep]
  <2>1. list' \in [size : [U!Addrs -> Nat], ptr : [U!Addrs -> U!Addrs \cup {U!NIL}], freep : U!Addrs]
      BY <1>5 DEF FreeRing
  <2>2. U!NIL \notin U!Addrs
      BY <1>5, RingFacts
  <2> QED BY <2>1, <2>2
<1>9. U!Started' = list'
    BY <1>8 DEF U!Started
<1> QED BY <1>5, <1>6, <1>7, <1>8, <1>9 DEF HeapIInv

(* The list when the block at b has got its size.                          *)
WithRegion(s, b, c) == [s EXCEPT !.size[b] = c]

(* c units at b are above O and in the heap.                               *)
RegionAbove(O, b, c) == c > 0 /\ b > 0 /\ b + c <= HeapLimit /\ O \subseteq 1 .. b - 1
RegionAdded(O, b, c) == O \cup b .. b + c - 1

(* l is s with that region as a block that is not yet free.                *)
RegionTaken(l, s, G, O, b, c) ==
    /\ FreeRing(l) /\ HeapTiled(l, G \cup {b}, RegionAdded(O, b, c)) /\ b \notin G
    /\ l.size[b] = c /\ \A x \in G : l.size[x] = s.size[x]

(* What morecore gets is a block above all others, about to be freed.      *)
LEMMA HeapRegion ==
    ASSUME NEW s, NEW G, NEW O, NEW b \in Nat, NEW c \in Nat, RegionAbove(O, b, c),
           FreeRing(s), HeapTiled(s, G, O), NEW l, l = WithRegion(s, b, c)
    PROVE  RegionTaken(l, s, G, O, b, c)
<1> DEFINE N == FreeNodes(s)
           B == (N \ {0}) \cup G
           Bs == (N \ {0}) \cup (G \cup {b})
           P == O \cup b .. b + c - 1
<1>0. l = [s EXCEPT !.size[b] = c]
    BY DEF WithRegion
<1> USE DEF RegionAbove
<1>1. /\ U!Addrs = 0 .. HeapLimit /\ HeapLimit \in Nat \ {0}
      /\ N \subseteq Nat /\ N \subseteq U!Addrs /\ 0 \in N
      /\ \A x \in U!Addrs : s.size[x] \in Nat
    BY RingFacts
<1>2. s \in [size : [U!Addrs -> Nat], ptr : [U!Addrs -> U!Addrs \cup {U!NIL}], freep : U!Addrs]
    BY DEF FreeRing
<1>3. b \in U!Addrs /\ b < HeapLimit
    BY <1>1
<1>4. l.ptr = s.ptr /\ l.freep = s.freep /\ l.size = [s.size EXCEPT ![b] = c]
    BY <1>0, <1>2
<1>5. l \in [size : [U!Addrs -> Nat], ptr : [U!Addrs -> U!Addrs \cup {U!NIL}], freep : U!Addrs]
    BY <1>0, <1>2, <1>3
<1>6. \A x \in U!Addrs : l.size[x] = IF x = b THEN c ELSE s.size[x]
    BY <1>2, <1>4
<1>7. FreeNodes(l) = N
    BY <1>4 DEF FreeNodes
<1>8. FreeRing(l)
  <2>1. N \subseteq 0 .. HeapLimit - 1 /\ OrderedRing(N, s.ptr) /\ s.freep \in N
      BY DEF FreeRing
  <2> HIDE DEF N
  <2> QED BY <1>4, <1>5, <1>7, <2>1 DEF FreeRing
<1>9. /\ s.size[0] = 0 /\ G \subseteq 1 .. HeapLimit - 1 /\ G \cap N = {} /\ O \subseteq Int
      /\ \A x \in B : s.size[x] >= 1 /\ (\A a \in Int : InBlock(s, x, a) => a \in O)
      /\ \A x, y \in B : x < y => x + s.size[x] <= y
      /\ \A a \in O : \E x \in B : InBlock(s, x, a)
      /\ \A x, y \in N \ {0} : x + s.size[x] # y
    BY Zenon DEF HeapTiled
<1>10. B \subseteq Nat /\ B \subseteq U!Addrs /\ 0 \notin B
    BY <1>1, <1>9
<1>11. \A x \in Bs : x = b \/ x \in B
    OBVIOUS
<1>12. B \subseteq Bs /\ b \in Bs
    OBVIOUS
<1>13. ASSUME NEW x \in N \ {0} PROVE x \in B
    OBVIOUS
<1>14. ASSUME NEW x \in G PROVE x \in B
    OBVIOUS
<1> HIDE DEF B, Bs
<1>15. ASSUME NEW x \in B PROVE x \in Nat /\ s.size[x] \in Nat /\ s.size[x] >= 1 /\ x + s.size[x] <= b
  <2>1. x \in Nat /\ s.size[x] \in Nat /\ s.size[x] >= 1
      BY <1>1, <1>9, <1>10
  <2>2. PICK a \in Int : a = x + s.size[x] - 1
      BY <2>1
  <2>3. InBlock(s, x, a)
      BY <2>1, <2>2 DEF InBlock
  <2>4. a \in O
      BY <1>9, <2>3
  <2>5. a \in 1 .. b - 1
      BY <2>4
  <2> QED BY <2>1, <2>2, <2>5
<1>16. b \notin B
  <2> SUFFICES ASSUME b \in B PROVE FALSE
      OBVIOUS
  <2> QED BY <1>15
<1>17. l.size[b] = c /\ \A x \in B : l.size[x] = s.size[x]
    BY <1>3, <1>6, <1>10, <1>16
<1>18. ASSUME NEW x \in Bs PROVE l.size[x] >= 1 /\ \A a \in Int : InBlock(l, x, a) => a \in P
  <2>1. CASE x = b
      BY <1>17, <2>1 DEF InBlock
  <2>2. CASE x # b
    <3>1. x \in B /\ l.size[x] = s.size[x]
        BY <1>11, <1>17, <2>2
    <3>2. \A a \in Int : InBlock(l, x, a) => InBlock(s, x, a)
        BY <3>1 DEF InBlock
    <3> QED BY <1>9, <3>1, <3>2
  <2> QED BY <2>1, <2>2
<1>19. ASSUME NEW x \in Bs, NEW y \in Bs, x < y PROVE x + l.size[x] <= y
  <2>1. x # b
    <3> SUFFICES ASSUME x = b PROVE FALSE
        OBVIOUS
    <3>1. y \in B
        BY <1>11, <1>19
    <3> QED BY <1>15, <1>19, <3>1
  <2>2. x \in B /\ l.size[x] = s.size[x]
      BY <1>11, <1>17, <2>1
  <2>3. CASE y = b
      BY <1>15, <2>2, <2>3
  <2>4. CASE y \in B
      BY <1>9, <1>19, <2>2, <2>4
  <2> QED BY <1>11, <2>3, <2>4
<1>20. ASSUME NEW a \in P PROVE \E x \in Bs : InBlock(l, x, a)
  <2>1. CASE a \in O
    <3>1. PICK x \in B : InBlock(s, x, a)
        BY <1>9, <2>1
    <3>2. InBlock(l, x, a)
        BY <1>17, <3>1 DEF InBlock
    <3> QED BY <1>12, <3>2
  <2>2. CASE a \in b .. b + c - 1
    <3>1. InBlock(l, b, a)
        BY <1>17, <2>2 DEF InBlock
    <3> QED BY <1>12, <3>1
  <2> QED BY <2>1, <2>2
<1>21. ASSUME NEW x \in N \ {0}, NEW y \in N \ {0} PROVE x + l.size[x] # y
    BY <1>9, <1>13, <1>17
<1>22. l.size[0] = 0 /\ P \subseteq Int
    BY <1>1, <1>6, <1>9
<1>23. b \notin N /\ b \notin G
    BY <1>13, <1>14, <1>16
<1>24. G \cup {b} \subseteq 1 .. HeapLimit - 1 /\ (G \cup {b}) \cap N = {}
  <2>1. b \in 1 .. HeapLimit - 1
      BY <1>1, <1>3
  <2> QED BY <1>9, <1>23, <2>1
<1> HIDE DEF P
<1>25. HeapTiled(l, G \cup {b}, P)
    BY <1>7, <1>18, <1>19, <1>20, <1>21, <1>22, <1>24 DEF HeapTiled, Bs
<1> QED BY <1>8, <1>14, <1>17, <1>23, <1>25 DEF P, RegionAdded, RegionTaken

(* r is l after free of the block at bp.                                   *)
FreedKeeps(l, r, G, O, bp) ==
    /\ FreeRing(r) /\ HeapTiled(r, G \ {bp}, O) /\ \A x \in G \ {bp} : r.size[x] = l.size[x]
    /\ \E x \in FreeNodes(r) : r.size[x] >= l.size[bp]

(* free, in one piece.                                                     *)
LEMMA FreedWhole ==
    ASSUME NEW l, NEW G, NEW O, FreeRing(l), HeapTiled(l, G, O), NEW bp \in G, NEW r, r = U!Freed(l, bp)
    PROVE  FreedKeeps(l, r, G, O, bp)
<1>1. PICK p : p = U!Place(l, bp)
    OBVIOUS
<1>2. PICK q : q = l.ptr[p]
    OBVIOUS
<1>3. PICK head : head = JoinedHead(l, bp, p)
    OBVIOUS
<1>4. PICK gone : gone = GoneHeaders(l, bp, p, q)
    OBVIOUS
<1>5. Freeing(l, G, O, bp, p, q, head, gone, r)
    BY <1>1, <1>2, <1>3, <1>4 DEF Freeing
<1>6. FreeRing(r)
    BY <1>5, FreedRing
<1>7. /\ HeapTiled(r, G \ {bp}, O)
      /\ \A x \in G \ {bp} : r.size[x] = l.size[x]
      /\ head \in FreeNodes(r) \ {0} /\ r.size[head] >= l.size[bp]
    BY <1>5, FreedTiled
<1> QED BY <1>6, <1>7 DEF FreedKeeps

(* Every step of malloc, free and the program's own sbrk.                  *)
LEMMA HeapStep == HeapIInv /\ [U!Next]_U!uvars => HeapIInv'
<1> SUFFICES ASSUME HeapIInv, [U!Next]_U!uvars PROVE HeapIInv'
    OBVIOUS
<1>1. /\ HeapLimit \in Nat \ {0} /\ brk \in Nat /\ brk >= 1 /\ brk <= HeapLimit
      /\ own \subseteq 1 .. HeapLimit - 1 /\ own \subseteq 1 .. brk - 1
      /\ U!Started.size = list.size
      /\ DOMAIN given # {} => list.freep # U!NIL
    BY HeapFacts
<1>2. /\ FreeRing(U!Started) /\ HeapTiled(U!Started, DOMAIN given, own)
      /\ given = [x \in DOMAIN given |-> given[x]]
      /\ \A x \in DOMAIN given : given[x] = U!Started.size[x]
      /\ list = [size |-> list.size, ptr |-> list.ptr, freep |-> list.freep]
      /\ brk \in 1 .. HeapLimit
    BY <1>1 DEF HeapIInv
<1>3. ASSUME NEW k \in HeapRequests PROVE k + 1 \in Nat /\ k + 1 > 0
    BY HeapAssumption
<1>4. ASSUME NEW k \in HeapRequests, U!malloc(k + 1) PROVE HeapIInv'
  <2>1. own' = own /\ brk' = brk /\ U!Fitting(U!Started, k + 1) # {} /\ U!Give(U!Started, k + 1)
      BY <1>4 DEF U!malloc
  <2> QED BY <1>1, <1>2, <1>3, <2>1, HeapGives
<1>5. ASSUME NEW k \in HeapRequests, U!malloc_morecore(k + 1) PROVE HeapIInv'
  <2>1. PICK m \in Nat : m = k + 1 /\ m > 0
      BY <1>3
  <2>2. PICK c \in Nat : c = U!Core(m) /\ c >= m
    <3>1. HeapCore \in Nat
        BY HeapAssumption
    <3>2. \E x \in {m, HeapCore} : \A y \in {m, HeapCore} : x >= y
        BY <3>1
    <3>3. U!Max({m, HeapCore}) \in {m, HeapCore} /\ \A y \in {m, HeapCore} : U!Max({m, HeapCore}) >= y
        BY <3>2 DEF U!Max
    <3> QED BY <3>1, <3>3 DEF U!Core
  <2>3. PICK l : l = [U!Started EXCEPT !.size[brk] = c]
      OBVIOUS
  <2>4. PICK r : r = U!Freed(l, brk)
      OBVIOUS
  <2>5. /\ brk + c <= HeapLimit /\ U!Give(r, m)
        /\ own' = own \cup brk .. brk + c - 1 /\ brk' = brk + c
      BY <1>5, <2>1, <2>2, <2>3, <2>4 DEF U!malloc_morecore
  <2>6. /\ FreeRing(l) /\ HeapTiled(l, DOMAIN given \cup {brk}, own \cup brk .. brk + c - 1) /\ brk \notin DOMAIN given
        /\ l.size[brk] = c /\ \A x \in DOMAIN given : l.size[x] = U!Started.size[x]
    <3>1. brk > 0 /\ c > 0
        BY <1>1, <2>1, <2>2
    <3>2. brk \in Nat /\ own \subseteq 1 .. brk - 1 /\ brk + c <= HeapLimit
        BY <1>1, <2>5
    <3>3. FreeRing(U!Started) /\ HeapTiled(U!Started, DOMAIN given, own)
        BY <1>2
    <3>4. PICK s, G, O : s = U!Started /\ G = DOMAIN given /\ O = own
        OBVIOUS
    <3>5. PICK b \in Nat : b = brk
        BY <3>2
    <3>6. FreeRing(s) /\ HeapTiled(s, G, O) /\ RegionAbove(O, b, c) /\ l = WithRegion(s, b, c)
        BY <2>3, <3>1, <3>2, <3>3, <3>4, <3>5 DEF WithRegion, RegionAbove
    <3>7. RegionTaken(l, s, G, O, b, c)
        BY <3>6, HeapRegion
    <3> QED BY <3>4, <3>5, <3>7 DEF RegionAdded, RegionTaken
  <2>7. /\ FreeRing(r) /\ HeapTiled(r, (DOMAIN given \cup {brk}) \ {brk}, own \cup brk .. brk + c - 1)
        /\ \A x \in (DOMAIN given \cup {brk}) \ {brk} : r.size[x] = l.size[x]
        /\ \E x \in FreeNodes(r) : r.size[x] >= l.size[brk]
    <3>1. brk \in DOMAIN given \cup {brk}
        OBVIOUS
    <3>2. FreeRing(l) /\ HeapTiled(l, DOMAIN given \cup {brk}, own \cup brk .. brk + c - 1)
        BY <2>6
    <3>3. PICK G, O, b : G = DOMAIN given \cup {brk} /\ O = own \cup brk .. brk + c - 1 /\ b = brk
        OBVIOUS
    <3>4. FreeRing(l) /\ HeapTiled(l, G, O) /\ b \in G /\ r = U!Freed(l, b)
        BY <2>4, <3>2, <3>3
    <3>5. FreedKeeps(l, r, G, O, b)
        BY <3>4, FreedWhole
    <3> QED BY <3>3, <3>5 DEF FreedKeeps
  <2>8. (DOMAIN given \cup {brk}) \ {brk} = DOMAIN given
      BY <2>6
  <2>9. U!Fitting(r, m) # {}
    <3>1. PICK x \in FreeNodes(r) : r.size[x] >= c
        BY <2>6, <2>7
    <3>2. r.size[x] \in Nat
      <4>1. FreeNodes(r) \subseteq U!Addrs /\ \A y \in U!Addrs : r.size[y] \in Nat
          BY <2>7, RingFacts
      <4> QED BY <4>1
    <3>3. r.size[x] >= m
        BY <2>2, <3>1, <3>2
    <3> QED BY <2>7, <3>3, FitsSomewhere
  <2>10. HeapTiled(r, DOMAIN given, own') /\ \A x \in DOMAIN given : given[x] = r.size[x]
      BY <1>2, <2>5, <2>6, <2>7, <2>8
  <2>11. brk' \in 1 .. HeapLimit /\ own' \subseteq 1 .. brk' - 1
      BY <1>1, <2>2, <2>5
  <2> QED BY <1>2, <2>1, <2>5, <2>7, <2>9, <2>10, <2>11, HeapGives
<1>6. ASSUME NEW k \in HeapRequests, U!malloc_fails(k + 1) PROVE HeapIInv'
  <2>1. list' = U!Started /\ brk' = brk /\ given' = given /\ own' = own
      BY <1>6 DEF U!malloc_fails
  <2>2. U!Started.freep # U!NIL /\ U!Started = [size |-> U!Started.size, ptr |-> U!Started.ptr, freep |-> U!Started.freep]
    <3>1. U!Started \in [size : [U!Addrs -> Nat], ptr : [U!Addrs -> U!Addrs \cup {U!NIL}], freep : U!Addrs]
        BY <1>2 DEF FreeRing
    <3>2. U!NIL \notin U!Addrs
        BY <1>2, RingFacts
    <3> QED BY <3>1, <3>2
  <2>3. PICK s : s = U!Started
      OBVIOUS
  <2>4. list' = s /\ s.freep # U!NIL
      BY <2>1, <2>2, <2>3
  <2>5. U!Started' = s
      BY <2>4 DEF U!Started
  <2>6. s = [size |-> s.size, ptr |-> s.ptr, freep |-> s.freep]
      BY <2>2, <2>3
  <2> QED BY <1>1, <1>2, <2>1, <2>3, <2>4, <2>5, <2>6 DEF HeapIInv
<1>7. ASSUME NEW x \in DOMAIN given, U!free(x) PROVE HeapIInv'
  <2>1. list.freep # U!NIL
      BY <1>1
  <2>2. U!Started = list
      BY <2>1 DEF U!Started
  <2>3. PICK r : r = U!Freed(list, x)
      OBVIOUS
  <2>4. list' = r /\ given' = [y \in DOMAIN given \ {x} |-> given[y]] /\ brk' = brk /\ own' = own
      BY <1>7, <2>3 DEF U!free
  <2>5. /\ FreeRing(r) /\ HeapTiled(r, DOMAIN given \ {x}, own) /\ \A y \in DOMAIN given \ {x} : r.size[y] = list.size[y]
    <3>1. FreeRing(list) /\ HeapTiled(list, DOMAIN given, own)
        BY <1>2, <2>2
    <3>2. FreedKeeps(list, r, DOMAIN given, own, x)
        BY <2>3, <3>1, FreedWhole
    <3> QED BY <3>2 DEF FreedKeeps
  <2>6. DOMAIN given' = DOMAIN given \ {x} /\ given' = [y \in DOMAIN given' |-> given'[y]]
      BY <2>4
  <2>7. \A y \in DOMAIN given' : given'[y] = list'.size[y]
      BY <1>2, <2>2, <2>4, <2>5, <2>6
  <2>8. r.freep # U!NIL /\ r = [size |-> r.size, ptr |-> r.ptr, freep |-> r.freep]
    <3>1. r \in [size : [U!Addrs -> Nat], ptr : [U!Addrs -> U!Addrs \cup {U!NIL}], freep : U!Addrs]
        BY <2>5 DEF FreeRing
    <3>2. U!NIL \notin U!Addrs
        BY <2>5, RingFacts
    <3> QED BY <3>1, <3>2
  <2>9. U!Started' = list'
      BY <2>4, <2>8 DEF U!Started
  <2> QED BY <1>1, <1>2, <2>4, <2>5, <2>6, <2>7, <2>8, <2>9 DEF HeapIInv
<1>8. ASSUME NEW k \in 1 .. HeapSbrk, U!sbrk(k) PROVE HeapIInv'
  <2>1. /\ brk + k <= HeapLimit /\ brk' = brk + k
        /\ list' = list /\ given' = given /\ own' = own
      BY <1>8 DEF U!sbrk
  <2>2. U!Started' = U!Started
      BY <2>1 DEF U!Started
  <2>3. k \in Nat /\ k >= 1
      BY HeapAssumption
  <2>4. brk' \in 1 .. HeapLimit /\ own' \subseteq 1 .. brk' - 1
      BY <1>1, <2>1, <2>3
  <2> QED BY <2>1, <2>2, <2>4 DEF HeapIInv
<1>9. CASE UNCHANGED U!uvars
  <2>1. list' = list /\ given' = given /\ own' = own /\ brk' = brk
      BY <1>9 DEF U!uvars
  <2>2. U!Started' = U!Started
      BY <2>1 DEF U!Started
  <2> QED BY <2>1, <2>2 DEF HeapIInv
<1> QED BY <1>4, <1>5, <1>6, <1>7, <1>8, <1>9 DEF U!Next

(* The walk finds the free blocks that the invariant speaks of.            *)
LEMMA FreeBlocksAre ==
    ASSUME HeapIInv
    PROVE  U!FreeBlocks = FreeNodes(U!Started) \ {0}
<1>1. FreeRing(U!Started) /\ HeapTiled(U!Started, DOMAIN given, own) /\ (list.freep = U!NIL => own = {})
    BY DEF HeapIInv
<1>2. CASE list.freep = U!NIL
  <2>1. PICK s : s = U!Started
      OBVIOUS
  <2>2. ASSUME NEW x \in FreeNodes(s) \ {0} PROVE FALSE
    <3>1. s.size[x] >= 1 /\ \A a \in Int : InBlock(s, x, a) => a \in own
        BY <1>1, <2>1 DEF HeapTiled
    <3>2. x \in Nat /\ s.size[x] \in Nat
      <4>1. FreeNodes(s) \subseteq Nat /\ FreeNodes(s) \subseteq U!Addrs /\ \A y \in U!Addrs : s.size[y] \in Nat
          BY <1>1, <2>1, RingFacts
      <4> QED BY <4>1
    <3>3. InBlock(s, x, x)
        BY <3>1, <3>2 DEF InBlock
    <3> QED BY <1>1, <1>2, <3>1, <3>2, <3>3
  <2>3. FreeNodes(s) \ {0} = {}
      BY <2>2
  <2> QED BY <1>2, <2>1, <2>3 DEF U!FreeBlocks
<1>3. CASE list.freep # U!NIL
  <2>1. U!Started = list
      BY <1>3 DEF U!Started
  <2>2. FreeRing(list)
      BY <1>1, <2>1
  <2>3. /\ \A k \in Nat : U!At(list, k) \in FreeNodes(list)
        /\ \A x \in FreeNodes(list) : \E k \in 1 .. HeapLimit : U!At(list, k) = x
      BY <2>2, WalkMeets
  <2>4. U!Addrs \subseteq Nat /\ 1 .. HeapLimit \subseteq U!Addrs
    <3>1. U!Addrs = 0 .. HeapLimit /\ HeapLimit \in Nat
        BY <2>2, RingFacts
    <3> QED BY <3>1
  <2>5. {U!At(list, k) : k \in U!Addrs} = FreeNodes(list)
      BY <2>3, <2>4
  <2> QED BY <1>3, <2>1, <2>5 DEF U!FreeBlocks, U!base
<1> QED BY <1>2, <1>3

LEMMA HeapCounts == \A S : U!Cardinality(S) = Cardinality(S)
BY Zenon DEF U!Cardinality, Cardinality

(* The invariant says that the blocks tile the heap.                       *)
LEMMA HeapIsTiled == HeapIInv => UmallocBlocksTileHeap
<1> SUFFICES ASSUME HeapIInv PROVE U!BlocksTileHeap
    BY DEF UmallocBlocksTileHeap
<1> DEFINE N == FreeNodes(U!Started)
           D == DOMAIN given
           B == (N \ {0}) \cup D
<1>1. U!FreeBlocks = N \ {0}
    BY FreeBlocksAre
<1>2. U!Started.size = list.size
    BY HeapFacts
<1>3. FreeRing(U!Started) /\ HeapTiled(U!Started, D, own) /\ \A x \in D : given[x] = list.size[x]
    BY DEF HeapIInv
<1>4. /\ U!Addrs = 0 .. HeapLimit /\ HeapLimit \in Nat \ {0}
      /\ N \subseteq Nat /\ N \subseteq U!Addrs /\ 0 \in N
      /\ \A x \in N : U!Started.ptr[x] \in N /\ Follows(N, x, U!Started.ptr[x])
      /\ \A x \in U!Addrs : U!Started.size[x] \in Nat
    BY <1>3, RingFacts
<1>5. \A x, a : InBlock(U!Started, x, a) <=> x <= a /\ a < x + list.size[x]
    BY <1>2 DEF InBlock
<1>6. /\ D \subseteq 1 .. HeapLimit - 1 /\ own \subseteq Int
      /\ \A x \in B : U!Started.size[x] >= 1 /\ (\A a \in Int : InBlock(U!Started, x, a) => a \in own)
      /\ \A x, y \in B : x < y => x + U!Started.size[x] <= y
      /\ \A a \in own : \E x \in B : InBlock(U!Started, x, a)
      /\ \A x, y \in N \ {0} : x + U!Started.size[x] # y
    BY <1>3, Zenon DEF HeapTiled
<1>7. \A x \in B : x \in Nat /\ list.size[x] \in Nat /\ list.size[x] >= 1
  <2>1. B \subseteq Nat /\ B \subseteq U!Addrs
      BY <1>4, <1>6
  <2> QED BY <1>2, <1>4, <1>6, <2>1
<1>8. U!FreeBlocks \cup D = B
    BY <1>1
<1>9. ASSUME NEW x \in B, NEW a PROVE a \in U!Extent(x) <=> a \in Int /\ InBlock(U!Started, x, a)
    BY <1>5, <1>7 DEF U!Extent
<1>10. ASSUME NEW x \in B, NEW y \in B, x # y PROVE U!Extent(x) \cap U!Extent(y) = {}
  <2> SUFFICES ASSUME NEW a, a \in U!Extent(x), a \in U!Extent(y) PROVE FALSE
      OBVIOUS
  <2>1. a \in Int /\ x <= a /\ a < x + list.size[x] /\ y <= a /\ a < y + list.size[y]
      BY <1>5, <1>9
  <2>2. x < y => x + list.size[x] <= y
      BY <1>2, <1>6
  <2>3. y < x => y + list.size[y] <= x
      BY <1>2, <1>6
  <2>4. x \in Nat /\ y \in Nat /\ list.size[x] \in Nat /\ list.size[y] \in Nat
      BY <1>7
  <2> HIDE DEF B
  <2> QED BY <1>10, <2>1, <2>2, <2>3, <2>4
<1>11. UNION {U!Extent(x) : x \in B} = own
  <2>1. ASSUME NEW x \in B, NEW a \in U!Extent(x) PROVE a \in own
      BY <1>6, <1>9
  <2>2. ASSUME NEW a \in own PROVE \E x \in B : a \in U!Extent(x)
      BY <1>6, <1>9
  <2> HIDE DEF B
  <2> QED BY <2>1, <2>2
<1>12. \A x, y \in U!FreeBlocks : x + list.size[x] # y
    BY <1>1, <1>2, <1>6
<1>13. \* one step back at most
       U!Cardinality({x \in U!FreeBlocks \cup {U!base} : list.freep # U!NIL /\ list.ptr[x] <= x}) <= 1
  <2> DEFINE T == {x \in U!FreeBlocks \cup {U!base} : list.freep # U!NIL /\ list.ptr[x] <= x}
  <2>1. ASSUME NEW x \in T PROVE x \in N /\ \A y \in N : y <= x
    <3>1. x \in N /\ list.freep # U!NIL /\ list.ptr[x] <= x
        BY <1>1, <1>4 DEF U!base
    <3>2. U!Started = list
        BY <3>1 DEF U!Started
    <3>3. list.ptr[x] \in N /\ Follows(N, x, list.ptr[x])
        BY <1>4, <3>1, <3>2
    <3>4. x \in Nat /\ list.ptr[x] \in Nat
        BY <1>4, <3>1, <3>3
    <3> HIDE DEF N
    <3> QED BY <3>1, <3>3, <3>4 DEF Follows
  <2>2. ASSUME NEW x \in T, NEW y \in T PROVE x = y
    <3>1. x \in N /\ y \in N /\ x <= y /\ y <= x
        BY <2>1
    <3>2. x \in Nat /\ y \in Nat
        BY <1>4, <3>1
    <3> QED BY <3>1, <3>2
  <2> HIDE DEF T
  <2>3. CASE T = {}
    <3>1. Cardinality(T) = 0
        BY <2>3, FS_EmptySet
    <3>2. U!Cardinality(T) <= 1
        BY <3>1, HeapCounts
    <3> QED BY <3>2 DEF T
  <2>4. CASE T # {}
    <3>1. PICK x \in T : TRUE
        BY <2>4
    <3>2. T = {x}
        BY <2>2
    <3>3. Cardinality(T) = 1
        BY <3>2, FS_Singleton
    <3>4. U!Cardinality(T) <= 1
        BY <3>3, HeapCounts
    <3> QED BY <3>4 DEF T
  <2> QED BY <2>3, <2>4
<1> HIDE DEF B, N
<1>14. \A x, y \in U!FreeBlocks \cup DOMAIN given : x # y => U!Extent(x) \cap U!Extent(y) = {}
    BY <1>8, <1>10
<1>15. UNION {U!Extent(x) : x \in U!FreeBlocks \cup DOMAIN given} = own
    BY <1>8, <1>11
<1>16. \A x \in DOMAIN given : list.size[x] = given[x]
    BY <1>3
<1> QED BY <1>12, <1>13, <1>14, <1>15, <1>16, Zenon DEF U!BlocksTileHeap

(* malloc and free keep their blocks: free and used blocks tile what sbrk  *)
(* returned, nothing is given out twice or lost, no used block changes its  *)
(* size, and the list stays in address order without blocks that touch, for *)
(* heaps of any size and any sequence of calls.                            *)
THEOREM BlocksTile == U!Spec => []UmallocBlocksTileHeap
<1>1. U!Init => HeapIInv
    BY HeapInit
<1>2. HeapIInv /\ [U!Next]_U!uvars => HeapIInv'
    BY HeapStep
<1>3. HeapIInv => UmallocBlocksTileHeap
    BY HeapIsTiled
<1> QED BY <1>1, <1>2, <1>3, PTL DEF U!Spec
=============================================================================
