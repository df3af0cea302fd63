--------------------------- MODULE BufCacheProofs ---------------------------
(***************************************************************************)
(* Theorems about the buffer cache (BufCache), for any number of processes,*)
(* buffers and blocks.                                                     *)
(*                                                                         *)
(* BufInv is not inductive.  That a buffer is left to recycle is counted   *)
(* from what each process has (Cursor) and what the log has pinned (Pins); *)
(* that nobody works on a buffer that another process has, from the sleep  *)
(* locks (Locks); that a sleeper's request is answered with its own block, *)
(* from the queue (Queue); and that nothing is lost when a buffer is       *)
(* recycled, from which buffers agree with the disk (Clean).               *)
(***************************************************************************)
EXTENDS BufCache, TLAPS, FunctionTheorems, FiniteSetTheorems, SequenceTheorems

InIde(p) == pc[p] \in {"iderw", "iderw_sleep"}

Queued(b) == \E i \in 1 .. Len(idequeue) : idequeue[i] = b

Done(b) == valid[b] /\ ~dirty[b]

(* The buffers process p has a reference to.                               *)
Mine(p) == {b \in Bufs : b \in held[p] \/ cur[p] = b}

(* What each process has, and the buffer it is at work on.                 *)
Cursor == \A p \in Procs :
    /\ pc[p] = "run" <=> cur[p] = NONE
    /\ pc[p] \in {"lock", "lock_sleep", "bread", "brelse"} => cur[p] \notin held[p]
    /\ Cardinality(Mine(p)) <= MaxHeld[p]
    /\ \A b \in Mine(p) : blockno[b] \in Blocks

(* Who has a buffer from bread has its sleep lock, and its content is      *)
(* there.                                                                  *)
Locks == \A p \in Procs :
    /\ \A b \in held[p] : owner[b] = p /\ valid[b]
    /\ pc[p] = "bread" \/ InIde(p) => owner[cur[p]] = p

(* The queue has every request that somebody waits for, once, and the disk *)
(* works on the first.                                                     *)
Queue ==
    /\ \A i, j \in 1 .. Len(idequeue) : idequeue[i] = idequeue[j] => i = j
    /\ \A i \in 1 .. Len(idequeue) :
          /\ ~Done(idequeue[i])
          /\ \E p \in Procs : InIde(p) /\ cur[p] = idequeue[i]
    /\ \A p \in Procs : InIde(p) /\ ~Done(cur[p]) => Queued(cur[p])
    /\ \A p \in Procs : pc[p] = "iderw_sleep" => ~Done(cur[p])
    /\ idequeue # <<>> => req = [block |-> blockno[idequeue[1]], write |-> dirty[idequeue[1]],
                                 data |-> data[idequeue[1]]]

(* The dirty buffers that nobody is writing.                               *)
Pinned == {b \in Bufs : dirty[b] /\ \A p \in Procs : InIde(p) => cur[p] # b}

Pins == Cardinality(Pinned) <= MaxPinned

(* Only dirty buffers differ from the disk.                                *)
Clean == \A b \in Bufs :
    /\ dirty[b] => valid[b]
    /\ valid[b] => blockno[b] \in Blocks
    /\ Done(b) => data[b] = disk[blockno[b]]

BufIInv ==
    /\ TypeOK /\ RefcountExact /\ OneBufferPerBlock /\ NoPanic
    /\ Cursor /\ Locks /\ Queue /\ Pins /\ Clean
    /\ \A p \in Procs : pc[p] = "lock_sleep" => owner[cur[p]] # NONE

----------------------------------------------------------------------------
(* Pairs of a process and a buffer it has.                                 *)
Uses(A) == {t \in Procs \X Bufs : t[2] \in A[t[1]]}

(* The buffers are finite in number.                                       *)
LEMMA BufsFinite ==
    /\ IsFiniteSet(Bufs) /\ Cardinality(Bufs) = NBUF
    /\ \A S \in SUBSET Bufs : IsFiniteSet(S) /\ Cardinality(S) \in Nat
<1>1. IsFiniteSet(Bufs) /\ Cardinality(Bufs) = NBUF
    BY BufAssumption, FS_Interval DEF Bufs
<1> QED BY <1>1, FS_Subset, FS_CardinalityType

(* The claims of finitely many processes are finite in number.             *)
LEMMA ClaimsFinite ==
    ASSUME NEW n \in [Procs -> Nat]
    PROVE  IsFiniteSet(Claims(n)) /\ Cardinality(Claims(n)) \in Nat
<1> DEFINE T == {{p} \X (1 .. n[p]) : p \in Procs}
           f == [p \in Procs |-> {p} \X (1 .. n[p])]
<1>1. f \in Surjection(Procs, T)
    <2>1. f \in [Procs -> T] /\ \A t \in T : \E p \in Procs : f[p] = t
        OBVIOUS
    <2> HIDE DEF f, T
    <2> QED BY <2>1, Fun_IsSurj
<1>2. IsFiniteSet(T)
    <2> HIDE DEF f, T
    <2> QED BY <1>1, BufAssumption, FS_Surjection
<1>3. \A t \in T : IsFiniteSet(t)
    <2> SUFFICES ASSUME NEW p \in Procs PROVE IsFiniteSet({p} \X (1 .. n[p]))
        OBVIOUS
    <2>1. IsFiniteSet({p})
        BY FS_Singleton
    <2>2. 1 \in Int /\ n[p] \in Int
        OBVIOUS
    <2>3. IsFiniteSet(1 .. n[p])
        BY <2>2, FS_Interval
    <2> QED BY <2>1, <2>3, FS_Product
<1>4. IsFiniteSet(UNION T)
    <2> HIDE DEF T
    <2> QED BY <1>2, <1>3, FS_UNION
<1> QED BY <1>4, FS_CardinalityType DEF Claims

(* A finite set of at most n elements has an injection into 1 .. n.        *)
LEMMA Numbering ==
    ASSUME NEW S, IsFiniteSet(S), NEW n \in Nat, Cardinality(S) <= n
    PROVE  \E f \in [S -> 1 .. n] : \A x, y \in S : f[x] = f[y] => x = y
<1> DEFINE k == Cardinality(S)
<1>1. k \in Nat /\ ExistsBijection(1 .. k, S)
    BY FS_CardinalityType
<1>2. ExistsBijection(S, 1 .. k)
    BY <1>1, Fun_ExistsBijSymmetric
<1>3. PICK f : f \in Bijection(S, 1 .. k)
    BY <1>2, Fun_ExistsBij
<1>4. f \in [S -> 1 .. k] /\ \A x, y \in S : f[x] = f[y] => x = y
    <2> HIDE DEF k
    <2> QED BY <1>3, Fun_BijectionProperties
<1>5. f \in [S -> 1 .. n]
    BY <1>1, <1>4
<1> QED BY <1>4, <1>5

(* If no process has more buffers than its claim, there are not more uses  *)
(* than claims.                                                            *)
LEMMA UsesBounded ==
    ASSUME NEW n \in [Procs -> Nat], NEW A \in [Procs -> SUBSET Bufs],
           \A p \in Procs : Cardinality(A[p]) <= n[p]
    PROVE  IsFiniteSet(Uses(A)) /\ Cardinality(Uses(A)) <= Cardinality(Claims(n))
<1> DEFINE Number(p) == {f \in [A[p] -> 1 .. n[p]] : \A x, y \in A[p] : f[x] = f[y] => x = y}
           h == [p \in Procs |-> CHOOSE f : f \in Number(p)]
           G == [t \in Uses(A) |-> <<t[1], h[t[1]][t[2]]>>]
<1>1. ASSUME NEW p \in Procs PROVE h[p] \in Number(p)
    <2>1. IsFiniteSet(A[p])
        BY BufsFinite
    <2>2. \E f : f \in Number(p)
        BY <2>1, Numbering
    <2> HIDE DEF Number
    <2> QED BY <2>2
<1>2. ASSUME NEW p \in Procs, NEW b \in A[p]
      PROVE  h[p][b] \in 1 .. n[p] /\ \A c \in A[p] : h[p][b] = h[p][c] => b = c
    <2>1. h[p] \in Number(p)
        BY <1>1
    <2> HIDE DEF h
    <2> QED BY <2>1
<1> HIDE DEF h
<1>3. ASSUME NEW t \in Uses(A)
      PROVE  /\ G[t] = <<t[1], h[t[1]][t[2]]>> /\ G[t] \in Claims(n)
             /\ t[1] \in Procs /\ t[2] \in A[t[1]] /\ t = <<t[1], t[2]>>
    <2>1. t[1] \in Procs /\ t[2] \in A[t[1]] /\ t = <<t[1], t[2]>>
        BY DEF Uses
    <2>2. <<t[1], h[t[1]][t[2]]>> \in {t[1]} \X (1 .. n[t[1]])
        BY <2>1, <1>2
    <2> QED BY <2>1, <2>2 DEF Claims
<1>4. G \in [Uses(A) -> Claims(n)]
    BY <1>3
<1>5. ASSUME NEW t \in Uses(A), NEW u \in Uses(A), G[t] = G[u]
      PROVE  t = u
    <2>1. t[1] = u[1] /\ h[t[1]][t[2]] = h[u[1]][u[2]]
        BY <1>3, <1>5
    <2>2. t[1] \in Procs /\ t[2] \in A[t[1]] /\ u[2] \in A[t[1]] /\ h[t[1]][t[2]] = h[t[1]][u[2]]
        BY <2>1, <1>3
    <2>3. t[2] = u[2]
        BY <2>2, <1>2
    <2> QED BY <2>1, <2>3, <1>3
<1> HIDE DEF G
<1>6. G \in Injection(Uses(A), Claims(n))
    BY <1>4, <1>5, Fun_IsInj
<1> QED BY <1>6, ClaimsFinite, FS_Injection

(* The buffers in use are not more than the uses.                          *)
LEMMA InUseBounded ==
    ASSUME NEW A \in [Procs -> SUBSET Bufs], IsFiniteSet(Uses(A))
    PROVE  Cardinality({b \in Bufs : \E p \in Procs : b \in A[p]}) <= Cardinality(Uses(A))
<1> DEFINE U == {b \in Bufs : \E p \in Procs : b \in A[p]}
           f == [t \in Uses(A) |-> t[2]]
<1>1. f \in [Uses(A) -> U]
    BY DEF Uses
<1>2. ASSUME NEW b \in U PROVE \E t \in Uses(A) : f[t] = b
    <2>1. PICK p \in Procs : b \in A[p]
        OBVIOUS
    <2>2. <<p, b>> \in Uses(A) /\ f[<<p, b>>] = b
        BY <2>1 DEF Uses
    <2> QED BY <2>2
<1> HIDE DEF f, U
<1>3. f \in Surjection(Uses(A), U)
    BY <1>1, <1>2, Fun_IsSurj
<1>4. Cardinality(U) <= Cardinality(Uses(A))
    BY <1>3, FS_Surjection
<1> QED BY <1>4 DEF U

(* A process that may ask for another buffer finds one: bget does not      *)
(* panic.                                                                  *)
LEMMA SomeRecyclable ==
    ASSUME BufIInv, NEW p \in Procs, pc[p] = "run", Cardinality(held[p]) < MaxHeld[p]
    PROVE  Recyclable # {}
<1> USE DEF BufIInv
<1> DEFINE A == [q \in Procs |-> Mine(q)]
           n == [q \in Procs |-> IF q = p THEN MaxHeld[p] - 1 ELSE MaxHeld[q]]
           U == {b \in Bufs : \E q \in Procs : b \in A[q]}
           t == <<p, MaxHeld[p]>>
<1>1. A \in [Procs -> SUBSET Bufs]
    BY DEF Mine
<1>2. \A q \in Procs : MaxHeld[q] \in Nat
    BY BufAssumption
<1>3. Mine(p) = held[p]
    <2>1. cur[p] = NONE /\ held[p] \subseteq Bufs
        BY DEF Cursor, TypeOK
    <2> QED BY <2>1, BufAssumption DEF Mine
<1>4. Cardinality(held[p]) \in Nat
    BY BufsFinite DEF TypeOK
<1>5. n \in [Procs -> Nat]
    BY <1>2, <1>4
<1>6. \A q \in Procs : Cardinality(A[q]) <= n[q]
    BY <1>2, <1>3, <1>4 DEF Cursor
<1>7. Claims(n) = Claims(MaxHeld) \ {t}
    <2>1. ASSUME NEW u PROVE u \in Claims(n) <=> u \in Claims(MaxHeld) /\ u # t
        <3>1. u \in Claims(n) <=> \E q \in Procs : u \in {q} \X (1 .. n[q])
            BY DEF Claims
        <3>2. u \in Claims(MaxHeld) <=> \E q \in Procs : u \in {q} \X (1 .. MaxHeld[q])
            BY DEF Claims
        <3>3. ASSUME NEW q \in Procs
              PROVE  u \in {q} \X (1 .. n[q]) <=> u \in {q} \X (1 .. MaxHeld[q]) /\ u # t
            BY <1>2, <1>4
        <3> HIDE DEF t, n
        <3> QED BY <3>1, <3>2, <3>3
    <2> HIDE DEF t, n
    <2> QED BY <2>1
<1>8. t \in Claims(MaxHeld)
    <2>1. t \in {p} \X (1 .. MaxHeld[p])
        BY <1>2, <1>4
    <2> QED BY <2>1 DEF Claims
<1>9. Cardinality(Claims(n)) = Cardinality(Claims(MaxHeld)) - 1
    <2> HIDE DEF t, n
    <2>1. IsFiniteSet(Claims(MaxHeld))
        BY BufAssumption, ClaimsFinite
    <2>2. Cardinality(Claims(MaxHeld) \ {t}) = Cardinality(Claims(MaxHeld)) - 1
        BY <2>1, <1>8, FS_RemoveElement
    <2> QED BY <2>2, <1>7
<1>10. Cardinality(U) <= Cardinality(Claims(n))
    <2> HIDE DEF A, n
    <2>1. IsFiniteSet(Uses(A)) /\ Cardinality(Uses(A)) <= Cardinality(Claims(n))
        BY <1>1, <1>5, <1>6, UsesBounded
    <2>2. Cardinality(U) <= Cardinality(Uses(A))
        BY <1>1, <2>1, InUseBounded
    <2>3. Cardinality(Uses(A)) \in Nat /\ Cardinality(Claims(n)) \in Nat /\ Cardinality(U) \in Nat
        BY <2>1, <1>5, ClaimsFinite, BufsFinite, FS_CardinalityType
    <2> QED BY <2>1, <2>2, <2>3
<1> SUFFICES ASSUME Recyclable = {} PROVE FALSE
    OBVIOUS
<1>11. ASSUME NEW b \in Bufs PROVE b \in U \cup Pinned
    <2>1. PICK i \in Bufs : lru[i] = b
        <3>1. lru \in [Bufs -> Bufs] /\ Range(lru) = Bufs
            BY DEF TypeOK
        <3> QED BY <3>1 DEF Range
    <2>2. ~(refcnt[b] = 0 /\ ~dirty[b])
        BY <2>1 DEF Recyclable, TypeOK
    <2>3. CASE refcnt[b] # 0
        <3>1. Users(b) # {}
            BY <2>3, FS_EmptySet DEF RefcountExact
        <3>2. PICK q \in Procs : b \in held[q] \/ cur[q] = b
            BY <3>1 DEF Users
        <3>3. b \in A[q]
            BY <3>2 DEF Mine
        <3> QED BY <3>3
    <2>4. CASE refcnt[b] = 0
        <3>1. dirty[b]
            BY <2>2, <2>4
        <3>2. Cardinality(Users(b)) = 0
            BY <2>4 DEF RefcountExact
        <3>3. IsFiniteSet(Users(b))
            BY BufAssumption, FS_Subset DEF Users
        <3>4. Users(b) = {}
            BY <3>2, <3>3, FS_EmptySet
        <3>5. \A q \in Procs : cur[q] # b
            BY <3>4 DEF Users
        <3> QED BY <3>1, <3>5 DEF Pinned
    <2> QED BY <2>3, <2>4
<1> HIDE DEF U, A, n, t
<1>12. U \in SUBSET Bufs /\ Pinned \in SUBSET Bufs
    BY DEF U, Pinned
<1>13. U \cup Pinned = Bufs
    BY <1>11, <1>12
<1>14. /\ IsFiniteSet(U) /\ IsFiniteSet(Pinned) /\ IsFiniteSet(U \cap Pinned)
       /\ Cardinality(U) \in Nat /\ Cardinality(Pinned) \in Nat /\ Cardinality(U \cap Pinned) \in Nat
    BY <1>12, BufsFinite
<1>15. NBUF = Cardinality(U) + Cardinality(Pinned) - Cardinality(U \cap Pinned)
    BY <1>13, <1>14, BufsFinite, FS_Union
<1>16. Cardinality(Pinned) <= MaxPinned
    BY DEF Pins
<1>17. Cardinality(Claims(MaxHeld)) \in Nat
    BY BufAssumption, ClaimsFinite
<1> QED BY <1>9, <1>10, <1>14, <1>15, <1>16, <1>17, BufAssumption, SizeAssumption

----------------------------------------------------------------------------
(* Where Step leads.                                                       *)
LEMMA StepFacts ==
    ASSUME TypeOK, NEW p \in Procs, NEW l \in Places, Step(p, l)
    PROVE  /\ pc'[p] = l /\ \A q \in Procs : q # p => pc'[q] = pc[q]
           /\ pc' \in [Procs -> Places]
<1>1. pc \in [Procs -> Places]
    BY DEF TypeOK
<1>2. \A q \in Procs : pc[q] # "none"
    BY <1>1 DEF Places
<1>3. pc' = [q \in Procs |-> IF q = p THEN l ELSE pc[q]]
    BY <1>2 DEF Step, Goto
<1> QED BY <1>1, <1>3

(* Where a step leads that wakes sleepers.                                 *)
LEMMA GotoFacts ==
    ASSUME TypeOK, NEW p, NEW l \in Places, NEW w \in {"lock_sleep", "iderw_sleep"}, NEW b, Goto(p, l, w, b)
    PROVE  /\ p \in Procs => pc'[p] = l
           /\ \A q \in Procs : q # p => pc'[q] =
                 IF pc[q] = w /\ cur[q] = b THEN (IF w = "lock_sleep" THEN "lock" ELSE "iderw") ELSE pc[q]
           /\ pc' \in [Procs -> Places]
<1>1. pc \in [Procs -> Places]
    BY DEF TypeOK
<1>2. Awake(w) = IF w = "lock_sleep" THEN "lock" ELSE "iderw"
    BY DEF Awake
<1>3. pc' = [q \in Procs |-> IF q = p THEN l ELSE IF pc[q] = w /\ cur[q] = b THEN Awake(w) ELSE pc[q]]
    BY DEF Goto
<1>4. Awake(w) \in Places
    BY <1>2 DEF Places
<1> QED BY <1>1, <1>2, <1>3, <1>4

(* A process at work on a buffer.                                          *)
LEMMA AtWork ==
    ASSUME TypeOK, Cursor, NEW p \in Procs, pc[p] # "run"
    PROVE  cur[p] \in Bufs /\ cur[p] \in Mine(p)
BY DEF TypeOK, Cursor, Mine

(* Users and Mine are two sides of the same relation.                      *)
LEMMA UsersMine ==
    ASSUME NEW b \in Bufs
    PROVE  /\ Users(b) = {p \in Procs : b \in Mine(p)}
           /\ IsFiniteSet(Users(b)) /\ Cardinality(Users(b)) \in Nat
<1>1. Users(b) = {p \in Procs : b \in Mine(p)}
    BY DEF Users, Mine
<1>2. IsFiniteSet(Users(b))
    BY BufAssumption, FS_Subset DEF Users
<1> QED BY <1>1, <1>2, FS_CardinalityType

(* The initial state satisfies the invariant.                              *)
LEMMA InitBufIInv == Init => BufIInv
<1> SUFFICES ASSUME Init PROVE BufIInv
    OBVIOUS
<1>1. TypeOK
    <2>1. lru \in [Bufs -> Bufs] /\ Range(lru) = Bufs
        <3>1. lru \in [Bufs -> Bufs] /\ \A i \in Bufs : lru[i] = NBUF + 1 - i
            BY BufAssumption DEF Init, Bufs
        <3>2. \A b \in Bufs : NBUF + 1 - b \in Bufs /\ lru[NBUF + 1 - b] = b
            BY <3>1, BufAssumption DEF Bufs
        <3> QED BY <3>1, <3>2 DEF Range
    <2>2. valid \in [Bufs -> BOOLEAN] /\ dirty \in [Bufs -> BOOLEAN] /\ panic \in BOOLEAN
        BY Zenon DEF Init
    <2>3. /\ blockno \in [Bufs -> Blocks \cup {NONE}]
          /\ refcnt \in [Bufs -> Nat] /\ data \in [Bufs -> Values]
          /\ owner \in [Bufs -> Procs \cup {NONE}]
        BY BufAssumption DEF Init
    <2>4. disk \in [Blocks -> Values]
        BY BufAssumption DEF Init
    <2>5. idequeue \in Seq(Bufs) /\ req \in Requests \cup {NONE}
        BY DEF Init
    <2>6. pc \in [Procs -> Places] /\ cur \in [Procs -> Bufs \cup {NONE}] /\ held \in [Procs -> SUBSET Bufs]
        BY DEF Init, Places
    <2> QED BY <2>1, <2>2, <2>3, <2>4, <2>5, <2>6 DEF TypeOK
<1>2. \A p \in Procs : Mine(p) = {} /\ pc[p] = "run" /\ cur[p] = NONE /\ held[p] = {}
    BY BufAssumption DEF Init, Mine
<1>3. RefcountExact
    <2> SUFFICES ASSUME NEW b \in Bufs PROVE refcnt[b] = Cardinality(Users(b))
        BY DEF RefcountExact
    <2>1. Users(b) = {}
        BY <1>2, UsersMine
    <2> QED BY <2>1, FS_EmptySet DEF Init
<1>4. OneBufferPerBlock /\ NoPanic
    BY DEF Init, OneBufferPerBlock, NoPanic
<1>5. Cursor
    BY <1>2, FS_EmptySet, BufAssumption DEF Cursor
<1>6. Locks
    BY <1>2 DEF Locks, InIde
<1>7. Queue
    <2>1. idequeue = <<>>
        BY DEF Init
    <2> QED BY <1>2, <2>1 DEF Queue, InIde
<1>8. Pins
    <2>1. Pinned = {}
        BY DEF Init, Pinned
    <2> QED BY <2>1, FS_EmptySet, BufAssumption DEF Pins
<1>9. Clean
    BY DEF Init, Clean, Done
<1> QED BY <1>1, <1>2, <1>3, <1>4, <1>5, <1>6, <1>7, <1>8, <1>9 DEF BufIInv

(* A step that changes no buffer and no request, and nobody's buffers.     *)
LEMMA Quiet ==
    ASSUME BufIInv,
           blockno' = blockno, valid' = valid, dirty' = dirty, refcnt' = refcnt, data' = data,
           disk' = disk, panic' = panic,
           \A q \in Procs : Mine(q)' = Mine(q)
    PROVE  /\ RefcountExact' /\ OneBufferPerBlock' /\ NoPanic' /\ Clean'
           /\ \A q \in Procs : Cardinality(Mine(q)') <= MaxHeld[q] /\ \A b \in Mine(q)' : blockno'[b] \in Blocks
<1> USE DEF BufIInv
<1>1. RefcountExact'
    <2> SUFFICES ASSUME NEW b \in Bufs PROVE refcnt'[b] = Cardinality(Users(b)')
        BY DEF RefcountExact
    <2>1. Users(b)' = {p \in Procs : b \in Mine(p)'}
        BY DEF Users, Mine
    <2>2. Users(b)' = Users(b)
        BY <2>1, UsersMine
    <2> QED BY <2>2 DEF RefcountExact
<1>2. OneBufferPerBlock' /\ NoPanic' /\ Clean'
    BY DEF OneBufferPerBlock, NoPanic, Clean, Done
<1> QED BY <1>1, <1>2 DEF Cursor

(* A step that starts no request and leaves only one that is done.         *)
LEMMA SameIde ==
    ASSUME BufIInv,
           blockno' = blockno, valid' = valid, dirty' = dirty, data' = data,
           idequeue' = idequeue, req' = req,
           \A q \in Procs : InIde(q)' => InIde(q) /\ cur'[q] = cur[q],
           \A q \in Procs : InIde(q) /\ ~InIde(q)' => Done(cur[q]),
           \A q \in Procs : pc'[q] = "iderw_sleep" => ~Done(cur[q])
    PROVE  Queue' /\ Pins'
<1> USE DEF BufIInv
<1>1. \A b : Done(b)' <=> Done(b)
    BY DEF Done
<1>2. \A b : Queued(b)' <=> Queued(b)
    BY DEF Queued
<1>3. ASSUME NEW i \in 1 .. Len(idequeue)
      PROVE  ~Done(idequeue[i]) /\ \E q \in Procs : InIde(q)' /\ cur'[q] = idequeue[i]
    <2>1. PICK q \in Procs : InIde(q) /\ cur[q] = idequeue[i]
        BY <1>3 DEF Queue
    <2>2. ~Done(idequeue[i])
        BY <1>3 DEF Queue
    <2>3. InIde(q)' /\ cur'[q] = idequeue[i]
        BY <2>1, <2>2
    <2> QED BY <2>2, <2>3
<1>4. ASSUME NEW q \in Procs, InIde(q)', ~Done(cur'[q])
      PROVE  Queued(cur'[q])
    BY <1>4 DEF Queue
<1>5. ASSUME NEW q \in Procs, pc'[q] = "iderw_sleep"
      PROVE  ~Done(cur'[q])
    <2>1. InIde(q)'
        BY <1>5 DEF InIde
    <2> QED BY <2>1, <1>5
<1>6. Queue'
    <2>1. \A i, j \in 1 .. Len(idequeue) : idequeue[i] = idequeue[j] => i = j
        BY DEF Queue
    <2>2. idequeue # <<>> => req = [block |-> blockno[idequeue[1]], write |-> dirty[idequeue[1]],
                                    data |-> data[idequeue[1]]]
        BY DEF Queue
    <2> QED BY <2>1, <2>2, <1>1, <1>2, <1>3, <1>4, <1>5 DEF Queue
<1>7. Pinned' = Pinned
    <2>1. \A b \in Bufs : dirty[b] => ~Done(b)
        BY DEF Done
    <2> QED BY <2>1 DEF Pinned
<1> QED BY <1>6, <1>7 DEF Pins

----------------------------------------------------------------------------
(* acquiresleep keeps the invariant.                                       *)
LEMMA AcquireKeeps ==
    ASSUME BufIInv, NEW p \in Procs, acquiresleep(p)
    PROVE  BufIInv'
<1> USE DEF BufIInv
<1>1. /\ pc[p] = "lock" /\ owner[cur[p]] = NONE
      /\ lru' = lru /\ blockno' = blockno /\ valid' = valid /\ dirty' = dirty
      /\ refcnt' = refcnt /\ data' = data /\ disk' = disk /\ idequeue' = idequeue /\ req' = req
      /\ cur' = cur /\ held' = held /\ panic' = panic
    BY DEF acquiresleep, At, buf, ide, local
<1>2. PICK c \in Bufs : c = cur[p]
    BY <1>1, AtWork
<1>3. /\ pc'[p] = "bread" /\ \A q \in Procs : q # p => pc'[q] = pc[q]
      /\ pc' \in [Procs -> Places]
    <2>1. "bread" \in Places
        BY DEF Places
    <2> QED BY <2>1, StepFacts DEF acquiresleep
<1>4. /\ owner' \in [Bufs -> Procs \cup {NONE}]
      /\ owner'[c] = p /\ \A b \in Bufs : b # c => owner'[b] = owner[b]
    <2>1. owner \in [Bufs -> Procs \cup {NONE}] /\ owner' = [owner EXCEPT ![c] = p]
        BY <1>2 DEF acquiresleep, TypeOK
    <2> QED BY <2>1
<1>5. TypeOK'
    BY <1>1, <1>3, <1>4 DEF TypeOK
<1>6. \A q \in Procs : Mine(q)' = Mine(q)
    BY <1>1 DEF Mine
<1>7. /\ RefcountExact' /\ OneBufferPerBlock' /\ NoPanic' /\ Clean'
      /\ \A q \in Procs : Cardinality(Mine(q)') <= MaxHeld[q] /\ \A b \in Mine(q)' : blockno'[b] \in Blocks
    BY <1>1, <1>6, Quiet
<1>8. \A q \in Procs : (InIde(q)' <=> InIde(q)) /\ (pc'[q] = "iderw_sleep" => pc[q] = "iderw_sleep")
    BY <1>1, <1>3 DEF InIde
<1>9. Queue' /\ Pins'
    <2>1. \A q \in Procs : pc'[q] = "iderw_sleep" => ~Done(cur[q])
        BY <1>8 DEF Queue
    <2> QED BY <1>1, <1>8, <2>1, SameIde
<1>10. Cursor'
    BY <1>1, <1>3, <1>7 DEF Cursor
<1>11. \A q \in Procs : held[q] \subseteq Bufs /\ (pc[q] # "run" => cur[q] \in Bufs) /\ q # NONE
    BY BufAssumption, AtWork DEF TypeOK
<1>12. Locks'
    <2>1. ASSUME NEW q \in Procs, NEW b \in held[q] PROVE owner'[b] = q /\ valid[b]
        BY <1>1, <1>2, <1>4, <1>11 DEF Locks
    <2>2. ASSUME NEW q \in Procs, pc'[q] = "bread" \/ InIde(q)' PROVE owner'[cur[q]] = q
        <3>1. CASE q = p
            BY <3>1, <1>2, <1>4
        <3>2. CASE q # p
            <4>1. owner[cur[q]] = q /\ cur[q] \in Bufs
                BY <2>2, <3>2, <1>3, <1>8, <1>11 DEF Locks, InIde
            <4> QED BY <4>1, <1>1, <1>2, <1>4, <1>11
        <3> QED BY <3>1, <3>2
    <2> QED BY <1>1, <2>1, <2>2 DEF Locks
<1>13. \A q \in Procs : pc'[q] = "lock_sleep" => owner'[cur'[q]] # NONE
    BY <1>1, <1>2, <1>3, <1>4, <1>11
<1> QED BY <1>5, <1>7, <1>9, <1>10, <1>12, <1>13

(* A process that goes to sleep, or wakes, on the same buffer keeps the    *)
(* invariant if it has a reason to sleep.                                  *)
LEMMA SleepWakeKeeps ==
    ASSUME BufIInv, NEW p \in Procs, NEW l \in Places, Step(p, l),
           \/ pc[p] \in {"lock", "lock_sleep"} /\ l \in {"lock", "lock_sleep"}
           \/ InIde(p) /\ l \in {"iderw", "iderw_sleep"},
           l = "lock_sleep" => owner[cur[p]] # NONE,
           l = "iderw_sleep" => ~Done(cur[p]),
           UNCHANGED <<lru, buf, owner, ide, local, panic>>
    PROVE  BufIInv'
<1> USE DEF BufIInv
<1>1. /\ lru' = lru /\ blockno' = blockno /\ valid' = valid /\ dirty' = dirty
      /\ refcnt' = refcnt /\ data' = data /\ disk' = disk /\ idequeue' = idequeue /\ req' = req
      /\ cur' = cur /\ held' = held /\ panic' = panic /\ owner' = owner
    BY DEF buf, ide, local
<1>2. /\ pc'[p] = l /\ \A q \in Procs : q # p => pc'[q] = pc[q]
      /\ pc' \in [Procs -> Places]
    BY StepFacts
<1>3. TypeOK'
    BY <1>1, <1>2 DEF TypeOK
<1>4. \A q \in Procs : Mine(q)' = Mine(q)
    BY <1>1 DEF Mine
<1>5. /\ RefcountExact' /\ OneBufferPerBlock' /\ NoPanic' /\ Clean'
      /\ \A q \in Procs : Cardinality(Mine(q)') <= MaxHeld[q] /\ \A b \in Mine(q)' : blockno'[b] \in Blocks
    BY <1>1, <1>4, Quiet
<1>6. \A q \in Procs : InIde(q)' <=> InIde(q)
    BY <1>2 DEF InIde
<1>7. Queue' /\ Pins'
    <2>1. \A q \in Procs : pc'[q] = "iderw_sleep" => ~Done(cur[q])
        BY <1>2 DEF Queue
    <2> QED BY <1>1, <1>6, <2>1, SameIde
<1>8. Cursor'
    <2>1. ASSUME NEW q \in Procs
          PROVE  /\ pc'[q] = "run" <=> cur[q] = NONE
                 /\ pc'[q] \in {"lock", "lock_sleep", "bread", "brelse"} => cur[q] \notin held[q]
        BY <1>2 DEF Cursor, InIde
    <2> QED BY <1>1, <1>5, <2>1 DEF Cursor
<1>9. Locks'
    <2>1. \A q \in Procs : pc'[q] = "bread" => pc[q] = "bread"
        BY <1>2
    <2> QED BY <1>1, <1>6, <2>1 DEF Locks
<1>10. \A q \in Procs : pc'[q] = "lock_sleep" => owner'[cur'[q]] # NONE
    BY <1>1, <1>2
<1> QED BY <1>3, <1>5, <1>7, <1>8, <1>9, <1>10

(* The steps that only put a process to sleep or wake it keep the          *)
(* invariant.                                                              *)
LEMMA SleepersKeep ==
    ASSUME BufIInv, NEW p \in Procs, acquiresleep_sleep(p) \/ iderw_again(p) \/ kill(p)
    PROVE  BufIInv'
<1>1. {"lock", "lock_sleep", "iderw", "iderw_sleep"} \subseteq Places
    BY DEF Places
<1>2. CASE acquiresleep_sleep(p)
    BY <1>1, <1>2, SleepWakeKeeps DEF acquiresleep_sleep, At
<1>3. CASE iderw_again(p)
    BY <1>1, <1>3, SleepWakeKeeps DEF iderw_again, At, InIde, Done
<1>4. CASE kill(p)
    <2>1. CASE pc[p] = "lock_sleep"
        <3>1. Awake(pc[p]) = "lock"
            BY <2>1 DEF Awake
        <3> QED BY <1>1, <1>4, <2>1, <3>1, SleepWakeKeeps DEF kill
    <2>2. CASE pc[p] = "iderw_sleep"
        <3>1. Awake(pc[p]) = "iderw"
            BY <2>2 DEF Awake
        <3> QED BY <1>1, <1>4, <2>2, <3>1, SleepWakeKeeps DEF kill, InIde
    <2> QED BY <1>4, <2>1, <2>2 DEF kill
<1> QED BY <1>2, <1>3, <1>4

(* bread hands a buffer out with its content there.                        *)
LEMMA ReturnKeeps ==
    ASSUME BufIInv, NEW p \in Procs, Return(p), pc[p] \in {"bread", "iderw"},
           valid[cur[p]], InIde(p) => Done(cur[p])
    PROVE  BufIInv'
<1> USE DEF BufIInv
<1>1. /\ lru' = lru /\ blockno' = blockno /\ valid' = valid /\ dirty' = dirty
      /\ refcnt' = refcnt /\ data' = data /\ disk' = disk /\ idequeue' = idequeue /\ req' = req
      /\ panic' = panic /\ owner' = owner
    BY DEF Return, buf, ide
<1>2. PICK c \in Bufs : c = cur[p]
    BY AtWork
<1>3. /\ pc'[p] = "run" /\ \A q \in Procs : q # p => pc'[q] = pc[q]
      /\ pc' \in [Procs -> Places]
    <2>1. "run" \in Places
        BY DEF Places
    <2> QED BY <2>1, StepFacts DEF Return
<1>4. /\ held'[p] = held[p] \cup {c} /\ cur'[p] = NONE
      /\ \A q \in Procs : q # p => held'[q] = held[q] /\ cur'[q] = cur[q]
      /\ held' \in [Procs -> SUBSET Bufs] /\ cur' \in [Procs -> Bufs \cup {NONE}]
    <2>1. held \in [Procs -> SUBSET Bufs] /\ cur \in [Procs -> Bufs \cup {NONE}]
        BY DEF TypeOK
    <2>2. held' = [held EXCEPT ![p] = held[p] \cup {c}] /\ cur' = [cur EXCEPT ![p] = NONE]
        BY <1>2 DEF Return
    <2> QED BY <2>1, <2>2
<1>5. TypeOK'
    BY <1>1, <1>3, <1>4 DEF TypeOK
<1>6. \A q \in Procs : Mine(q)' = Mine(q)
    <2>1. Mine(p)' = Mine(p)
        BY <1>2, <1>4, BufAssumption DEF Mine
    <2>2. ASSUME NEW q \in Procs, q # p PROVE Mine(q)' = Mine(q)
        BY <2>2, <1>4 DEF Mine
    <2> QED BY <2>1, <2>2
<1>7. /\ RefcountExact' /\ OneBufferPerBlock' /\ NoPanic' /\ Clean'
      /\ \A q \in Procs : Cardinality(Mine(q)') <= MaxHeld[q] /\ \A b \in Mine(q)' : blockno'[b] \in Blocks
    BY <1>1, <1>6, Quiet
<1>8. /\ ~InIde(p)' /\ \A q \in Procs : q # p => (InIde(q)' <=> InIde(q))
    BY <1>3 DEF InIde
<1>9. Queue' /\ Pins'
    <2>1. \A q \in Procs : pc'[q] = "iderw_sleep" => ~Done(cur[q])
        BY <1>3 DEF Queue
    <2>2. \A q \in Procs : InIde(q)' => InIde(q) /\ cur'[q] = cur[q]
        BY <1>4, <1>8
    <2>3. \A q \in Procs : InIde(q) /\ ~InIde(q)' => Done(cur[q])
        BY <1>8
    <2> QED BY <1>1, <2>1, <2>2, <2>3, SameIde
<1>10. Cursor'
    BY <1>1, <1>3, <1>4, <1>7 DEF Cursor
<1>11. owner[c] = p
    BY <1>2 DEF Locks, InIde
<1>12. Locks'
    <2>1. ASSUME NEW q \in Procs
          PROVE  /\ \A b \in held'[q] : owner[b] = q /\ valid[b]
                 /\ pc'[q] = "bread" \/ InIde(q)' => owner[cur'[q]] = q
        <3>1. CASE q = p
            BY <3>1, <1>2, <1>3, <1>4, <1>8, <1>11 DEF Locks
        <3>2. CASE q # p
            BY <3>2, <1>3, <1>4, <1>8 DEF Locks
        <3> QED BY <3>1, <3>2
    <2> QED BY <1>1, <2>1 DEF Locks
<1>13. \A q \in Procs : pc'[q] = "lock_sleep" => owner'[cur'[q]] # NONE
    BY <1>1, <1>3, <1>4
<1> QED BY <1>5, <1>7, <1>9, <1>10, <1>12, <1>13

(* The two ways out of bread and bwrite keep the invariant.                *)
LEMMA BreadReturnsKeep ==
    ASSUME BufIInv, NEW p \in Procs, iderw_done(p) \/ bread_valid(p)
    PROVE  BufIInv'
<1>1. CASE iderw_done(p)
    BY <1>1, ReturnKeeps DEF iderw_done, At, Done
<1>2. CASE bread_valid(p)
    BY <1>2, ReturnKeeps DEF bread_valid, At, InIde
<1> QED BY <1>1, <1>2

(* The first half of brelse keeps the invariant.                           *)
LEMMA ReleaseKeeps ==
    ASSUME BufIInv, NEW p \in Procs, NEW b \in held[p], releasesleep(p, b)
    PROVE  BufIInv'
<1> USE DEF BufIInv
<1>1. /\ lru' = lru /\ blockno' = blockno /\ valid' = valid /\ dirty' = dirty
      /\ refcnt' = refcnt /\ data' = data /\ disk' = disk /\ idequeue' = idequeue /\ req' = req
      /\ panic' = panic /\ pc[p] = "run"
    BY DEF releasesleep, buf, ide, At
<1>2. b \in Bufs /\ owner[b] = p /\ cur[p] = NONE
    BY <1>1 DEF TypeOK, Locks, Cursor
<1>3. /\ pc'[p] = "brelse"
      /\ \A q \in Procs : q # p => pc'[q] = IF pc[q] = "lock_sleep" /\ cur[q] = b THEN "lock" ELSE pc[q]
      /\ pc' \in [Procs -> Places]
    <2>1. "brelse" \in Places
        BY DEF Places
    <2> QED BY <2>1, GotoFacts DEF releasesleep
<1>4. /\ held'[p] = held[p] \ {b} /\ cur'[p] = b
      /\ \A q \in Procs : q # p => held'[q] = held[q] /\ cur'[q] = cur[q]
      /\ held' \in [Procs -> SUBSET Bufs] /\ cur' \in [Procs -> Bufs \cup {NONE}]
    <2>1. held \in [Procs -> SUBSET Bufs] /\ cur \in [Procs -> Bufs \cup {NONE}]
        BY DEF TypeOK
    <2>2. held' = [held EXCEPT ![p] = held[p] \ {b}] /\ cur' = [cur EXCEPT ![p] = b]
        BY DEF releasesleep
    <2> QED BY <1>2, <2>1, <2>2
<1>5. /\ owner' \in [Bufs -> Procs \cup {NONE}]
      /\ owner'[b] = NONE /\ \A c \in Bufs : c # b => owner'[c] = owner[c]
    <2>1. owner \in [Bufs -> Procs \cup {NONE}] /\ owner' = [owner EXCEPT ![b] = NONE]
        BY DEF releasesleep, TypeOK
    <2> QED BY <1>2, <2>1
<1>6. TypeOK'
    BY <1>1, <1>3, <1>4, <1>5 DEF TypeOK
<1>7. \A q \in Procs : Mine(q)' = Mine(q)
    <2>1. Mine(p)' = Mine(p)
        BY <1>2, <1>4, BufAssumption DEF Mine
    <2>2. ASSUME NEW q \in Procs, q # p PROVE Mine(q)' = Mine(q)
        BY <2>2, <1>4 DEF Mine
    <2> QED BY <2>1, <2>2
<1>8. /\ RefcountExact' /\ OneBufferPerBlock' /\ NoPanic' /\ Clean'
      /\ \A q \in Procs : Cardinality(Mine(q)') <= MaxHeld[q] /\ \A c \in Mine(q)' : blockno'[c] \in Blocks
    BY <1>1, <1>7, Quiet
<1>9. /\ ~InIde(p) /\ ~InIde(p)' /\ \A q \in Procs : q # p => (InIde(q)' <=> InIde(q))
    BY <1>1, <1>3 DEF InIde
<1>10. Queue' /\ Pins'
    <2>1. \A q \in Procs : pc'[q] = "iderw_sleep" => ~Done(cur[q])
        BY <1>3 DEF Queue
    <2>2. \A q \in Procs : InIde(q)' => InIde(q) /\ cur'[q] = cur[q]
        BY <1>4, <1>9
    <2>3. \A q \in Procs : InIde(q) /\ ~InIde(q)' => Done(cur[q])
        BY <1>9
    <2> QED BY <1>1, <2>1, <2>2, <2>3, SameIde
<1>11. Cursor'
    <2>1. ASSUME NEW q \in Procs
          PROVE  /\ pc'[q] = "run" <=> cur'[q] = NONE
                 /\ pc'[q] \in {"lock", "lock_sleep", "bread", "brelse"} => cur'[q] \notin held'[q]
        <3>1. CASE q = p
            BY <3>1, <1>2, <1>3, <1>4, BufAssumption
        <3>2. CASE q # p
            BY <3>2, <1>3, <1>4 DEF Cursor
        <3> QED BY <3>1, <3>2
    <2> QED BY <1>8, <2>1 DEF Cursor
<1>12. \A q \in Procs : held[q] \subseteq Bufs /\ (pc[q] # "run" => cur[q] \in Bufs)
    BY AtWork DEF TypeOK
<1>13. Locks'
    <2>1. ASSUME NEW q \in Procs
          PROVE  /\ \A c \in held'[q] : owner'[c] = q /\ valid[c]
                 /\ pc'[q] = "bread" \/ InIde(q)' => owner'[cur'[q]] = q
        <3>1. CASE q = p
            BY <3>1, <1>3, <1>4, <1>5, <1>9, <1>12 DEF Locks
        <3>2. CASE q # p
            <4>1. \A c \in held'[q] : c \in Bufs /\ owner[c] = q /\ valid[c]
                BY <3>2, <1>4, <1>12 DEF Locks
            <4>2. ASSUME pc'[q] = "bread" \/ InIde(q)'
                  PROVE  cur'[q] \in Bufs /\ owner[cur'[q]] = q
                BY <4>2, <3>2, <1>3, <1>4, <1>9, <1>12 DEF Locks, InIde
            <4> QED BY <3>2, <4>1, <4>2, <1>2, <1>5
        <3> QED BY <3>1, <3>2
    <2> QED BY <1>1, <2>1 DEF Locks
<1>14. \A q \in Procs : pc'[q] = "lock_sleep" => owner'[cur'[q]] # NONE
    BY <1>3, <1>4, <1>5, <1>12
<1> QED BY <1>6, <1>8, <1>10, <1>11, <1>13, <1>14

----------------------------------------------------------------------------
(* A process that gets, or gives up, one reference changes the users of    *)
(* that buffer only.                                                       *)
LEMMA UsersChange ==
    ASSUME NEW p \in Procs, NEW b \in Bufs,
           \A q \in Procs : q # p => Mine(q)' = Mine(q)
    PROVE  /\ b \notin Mine(p) /\ Mine(p)' = Mine(p) \cup {b} =>
                 /\ Cardinality(Users(b)') = Cardinality(Users(b)) + 1
                 /\ \A c \in Bufs : c # b => Users(c)' = Users(c)
           /\ b \in Mine(p) /\ Mine(p)' = Mine(p) \ {b} =>
                 /\ Cardinality(Users(b)') = Cardinality(Users(b)) - 1
                 /\ Cardinality(Users(b)) >= 1
                 /\ \A c \in Bufs : c # b => Users(c)' = Users(c)
<1>1. \A c \in Bufs : /\ Users(c) = {q \in Procs : c \in Mine(q)}
                      /\ Users(c)' = {q \in Procs : c \in Mine(q)'}
                      /\ IsFiniteSet(Users(c)) /\ Cardinality(Users(c)) \in Nat
    <2>1. \A c \in Bufs : Users(c)' = {q \in Procs : c \in Mine(q)'}
        BY DEF Users, Mine
    <2> QED BY <2>1, UsersMine
<1>2. ASSUME b \notin Mine(p), Mine(p)' = Mine(p) \cup {b}
      PROVE  /\ Cardinality(Users(b)') = Cardinality(Users(b)) + 1
             /\ \A c \in Bufs : c # b => Users(c)' = Users(c)
    <2>1. Users(b)' = Users(b) \cup {p} /\ p \notin Users(b)
        BY <1>1, <1>2
    <2>2. Cardinality(Users(b) \cup {p}) = Cardinality(Users(b)) + 1
        BY <1>1, <2>1, FS_AddElement
    <2>3. ASSUME NEW c \in Bufs, c # b PROVE Users(c)' = Users(c)
        <3>1. \A q \in Procs : c \in Mine(q)' <=> c \in Mine(q)
            BY <1>2, <2>3
        <3> QED BY <3>1, <1>1
    <2> QED BY <2>1, <2>2, <2>3
<1>3. ASSUME b \in Mine(p), Mine(p)' = Mine(p) \ {b}
      PROVE  /\ Cardinality(Users(b)') = Cardinality(Users(b)) - 1
             /\ Cardinality(Users(b)) >= 1
             /\ \A c \in Bufs : c # b => Users(c)' = Users(c)
    <2>1. Users(b)' = Users(b) \ {p} /\ p \in Users(b)
        BY <1>1, <1>3
    <2>2. Cardinality(Users(b) \ {p}) = Cardinality(Users(b)) - 1
        BY <1>1, <2>1, FS_RemoveElement
    <2>3. Cardinality(Users(b)) # 0
        BY <1>1, <2>1, FS_EmptySet
    <2>4. ASSUME NEW c \in Bufs, c # b PROVE Users(c)' = Users(c)
        <3>1. \A q \in Procs : c \in Mine(q)' <=> c \in Mine(q)
            BY <1>3, <2>4
        <3> QED BY <3>1, <1>1
    <2>5. Cardinality(Users(b)) \in Nat
        BY <1>1
    <2> QED BY <2>1, <2>2, <2>3, <2>4, <2>5
<1> QED BY <1>2, <1>3

(* What every bget that finds or makes a buffer does to the process.       *)
LEMMA FoundFacts ==
    ASSUME BufIInv, NEW p \in Procs, NEW b \in Bufs, pc[p] = "run", b \notin held[p],
           Cardinality(held[p]) < MaxHeld[p], Found(p, b)
    PROVE  /\ lru' = lru /\ owner' = owner /\ idequeue' = idequeue /\ req' = req /\ disk' = disk
           /\ held' = held /\ panic' = panic
           /\ cur'[p] = b /\ \A q \in Procs : q # p => cur'[q] = cur[q]
           /\ cur' \in [Procs -> Bufs \cup {NONE}]
           /\ pc'[p] = "lock" /\ \A q \in Procs : q # p => pc'[q] = pc[q]
           /\ pc' \in [Procs -> Places]
           /\ \A q \in Procs : InIde(q)' <=> InIde(q)
           /\ ~InIde(p) /\ b \notin Mine(p) /\ Mine(p)' = Mine(p) \cup {b}
           /\ \A q \in Procs : q # p => Mine(q)' = Mine(q)
           /\ Cardinality(Mine(p)') <= MaxHeld[p]
           /\ \A q \in Procs : /\ pc'[q] = "run" <=> cur'[q] = NONE
                               /\ pc'[q] \in {"lock", "lock_sleep", "bread", "brelse"} => cur'[q] \notin held'[q]
<1> USE DEF BufIInv
<1>1. /\ lru' = lru /\ owner' = owner /\ idequeue' = idequeue /\ req' = req /\ disk' = disk
      /\ held' = held /\ panic' = panic
    BY DEF Found, ide
<1>2. /\ cur'[p] = b /\ \A q \in Procs : q # p => cur'[q] = cur[q]
      /\ cur' \in [Procs -> Bufs \cup {NONE}]
    <2>1. cur \in [Procs -> Bufs \cup {NONE}] /\ cur' = [cur EXCEPT ![p] = b]
        BY DEF Found, TypeOK
    <2> QED BY <2>1
<1>3. /\ pc'[p] = "lock" /\ \A q \in Procs : q # p => pc'[q] = pc[q]
      /\ pc' \in [Procs -> Places]
    <2>1. "lock" \in Places
        BY DEF Places
    <2> QED BY <2>1, StepFacts DEF Found
<1>4. ~InIde(p) /\ \A q \in Procs : InIde(q)' <=> InIde(q)
    BY <1>3 DEF InIde
<1>5. cur[p] = NONE /\ held[p] \subseteq Bufs
    BY DEF Cursor, TypeOK
<1>6. Mine(p) = held[p]
    BY <1>5, BufAssumption DEF Mine
<1>7. b \notin Mine(p) /\ Mine(p)' = Mine(p) \cup {b}
    BY <1>1, <1>2, <1>5, <1>6 DEF Mine
<1>8. \A q \in Procs : q # p => Mine(q)' = Mine(q)
    BY <1>1, <1>2 DEF Mine
<1>9. Cardinality(Mine(p)') <= MaxHeld[p]
    <2>1. IsFiniteSet(Mine(p)) /\ Cardinality(Mine(p)) \in Nat
        BY BufsFinite DEF Mine
    <2>2. Cardinality(Mine(p) \cup {b}) = Cardinality(Mine(p)) + 1
        BY <1>7, <2>1, FS_AddElement
    <2> QED BY <2>1, <2>2, <1>6, <1>7, BufAssumption
<1>10. ASSUME NEW q \in Procs
       PROVE  /\ pc'[q] = "run" <=> cur'[q] = NONE
              /\ pc'[q] \in {"lock", "lock_sleep", "bread", "brelse"} => cur'[q] \notin held'[q]
    <2>1. CASE q = p
        BY <2>1, <1>1, <1>2, <1>3, BufAssumption
    <2>2. CASE q # p
        BY <2>2, <1>1, <1>2, <1>3 DEF Cursor
    <2> QED BY <2>1, <2>2
<1> QED BY <1>1, <1>2, <1>3, <1>4, <1>7, <1>8, <1>9, <1>10

(* bget of a cached block keeps the invariant.                             *)
LEMMA CachedKeeps ==
    ASSUME BufIInv, NEW p \in Procs, NEW k \in Blocks, bget_cached(p, k)
    PROVE  BufIInv'
<1> USE DEF BufIInv
<1>1. PICK b \in Bufs : blockno[b] = k /\ refcnt' = [refcnt EXCEPT ![b] = refcnt[b] + 1] /\ Found(p, b)
    BY DEF bget_cached, Cached
<1>2. /\ pc[p] = "run" /\ Cardinality(held[p]) < MaxHeld[p] /\ (\A c \in held[p] : blockno[c] < k)
      /\ blockno' = blockno /\ valid' = valid /\ dirty' = dirty /\ data' = data
    BY DEF bget_cached, MayAsk, At
<1>3. b \notin held[p]
    BY <1>1, <1>2, BufAssumption
<1>4. /\ lru' = lru /\ owner' = owner /\ idequeue' = idequeue /\ req' = req /\ disk' = disk
      /\ held' = held /\ panic' = panic
      /\ cur'[p] = b /\ (\A q \in Procs : q # p => cur'[q] = cur[q])
      /\ cur' \in [Procs -> Bufs \cup {NONE}]
      /\ pc'[p] = "lock" /\ (\A q \in Procs : q # p => pc'[q] = pc[q])
      /\ pc' \in [Procs -> Places]
    BY <1>1, <1>2, <1>3, FoundFacts
<1>5. /\ \A q \in Procs : InIde(q)' <=> InIde(q)
      /\ ~InIde(p) /\ b \notin Mine(p) /\ Mine(p)' = Mine(p) \cup {b}
      /\ \A q \in Procs : q # p => Mine(q)' = Mine(q)
      /\ Cardinality(Mine(p)') <= MaxHeld[p]
      /\ \A q \in Procs : /\ pc'[q] = "run" <=> cur'[q] = NONE
                          /\ pc'[q] \in {"lock", "lock_sleep", "bread", "brelse"} => cur'[q] \notin held'[q]
    BY <1>1, <1>2, <1>3, FoundFacts
<1>6. /\ refcnt' \in [Bufs -> Nat] /\ refcnt'[b] = refcnt[b] + 1
      /\ \A c \in Bufs : c # b => refcnt'[c] = refcnt[c]
    <2>1. refcnt \in [Bufs -> Nat]
        BY DEF TypeOK
    <2> QED BY <2>1, <1>1
<1>7. TypeOK'
    BY <1>2, <1>4, <1>6 DEF TypeOK
<1>8. RefcountExact'
    <2>1. /\ Cardinality(Users(b)') = Cardinality(Users(b)) + 1
          /\ \A c \in Bufs : c # b => Users(c)' = Users(c)
        BY <1>5, UsersChange
    <2> QED BY <2>1, <1>6 DEF RefcountExact
<1>9. OneBufferPerBlock' /\ NoPanic' /\ Clean'
    BY <1>2, <1>4 DEF OneBufferPerBlock, NoPanic, Clean, Done
<1>10. Cursor'
    <2>1. \A q \in Procs : Cardinality(Mine(q)') <= MaxHeld[q] /\ \A c \in Mine(q)' : blockno[c] \in Blocks
        BY <1>1, <1>5 DEF Cursor
    <2> QED BY <1>2, <1>5, <2>1 DEF Cursor
<1>11. Queue' /\ Pins'
    <2>1. \A q \in Procs : InIde(q)' => InIde(q) /\ cur'[q] = cur[q]
        BY <1>4, <1>5
    <2>2. \A q \in Procs : pc'[q] = "iderw_sleep" => ~Done(cur[q])
        BY <1>4 DEF Queue
    <2> QED BY <1>2, <1>4, <1>5, <2>1, <2>2, SameIde
<1>12. Locks'
    <2>1. \A q \in Procs : pc'[q] = "bread" \/ InIde(q)' => cur'[q] = cur[q] /\ (pc[q] = "bread" \/ InIde(q))
        BY <1>4, <1>5
    <2> QED BY <2>1, <1>2, <1>4 DEF Locks
<1>13. \A q \in Procs : pc'[q] = "lock_sleep" => owner'[cur'[q]] # NONE
    BY <1>4
<1> QED BY <1>7, <1>8, <1>9, <1>10, <1>11, <1>12, <1>13

(* bget that recycles a buffer keeps the invariant: the block that was in  *)
(* it is on the disk, and nobody had it.                                   *)
LEMMA RecycleKeeps ==
    ASSUME BufIInv, NEW p \in Procs, NEW k \in Blocks, bget_recycle(p, k)
    PROVE  BufIInv'
<1> USE DEF BufIInv
<1>1. /\ pc[p] = "run" /\ Cardinality(held[p]) < MaxHeld[p]
      /\ Cached(k) = {}
    BY DEF bget_recycle, Recycle, MayAsk, At
<1>2. Recyclable # {}
    BY <1>1, SomeRecyclable
<1>3. PICK i \in Recyclable :
         /\ blockno' = [blockno EXCEPT ![lru[i]] = k]
         /\ valid' = [valid EXCEPT ![lru[i]] = FALSE]
         /\ dirty' = [dirty EXCEPT ![lru[i]] = FALSE]
         /\ refcnt' = [refcnt EXCEPT ![lru[i]] = 1]
         /\ Found(p, lru[i])
         /\ data' = data
    BY <1>2 DEF bget_recycle, Recycle
<1>4. PICK b \in Bufs : b = lru[i] /\ refcnt[b] = 0 /\ ~dirty[b]
    BY <1>3 DEF Recyclable, TypeOK
<1>5. Users(b) = {}
    <2>1. Cardinality(Users(b)) = 0 /\ IsFiniteSet(Users(b))
        BY <1>4, UsersMine DEF RefcountExact
    <2> QED BY <2>1, FS_EmptySet
<1>6. \A q \in Procs : b \notin Mine(q) /\ b \notin held[q] /\ cur[q] # b
    BY <1>5 DEF Users, Mine
<1>7. /\ lru' = lru /\ owner' = owner /\ idequeue' = idequeue /\ req' = req /\ disk' = disk
      /\ held' = held /\ panic' = panic
      /\ cur'[p] = b /\ (\A q \in Procs : q # p => cur'[q] = cur[q])
      /\ cur' \in [Procs -> Bufs \cup {NONE}]
      /\ pc'[p] = "lock" /\ (\A q \in Procs : q # p => pc'[q] = pc[q])
      /\ pc' \in [Procs -> Places]
    BY <1>1, <1>3, <1>4, <1>6, FoundFacts
<1>8. /\ \A q \in Procs : InIde(q)' <=> InIde(q)
      /\ ~InIde(p) /\ b \notin Mine(p) /\ Mine(p)' = Mine(p) \cup {b}
      /\ \A q \in Procs : q # p => Mine(q)' = Mine(q)
      /\ Cardinality(Mine(p)') <= MaxHeld[p]
      /\ \A q \in Procs : /\ pc'[q] = "run" <=> cur'[q] = NONE
                          /\ pc'[q] \in {"lock", "lock_sleep", "bread", "brelse"} => cur'[q] \notin held'[q]
    BY <1>1, <1>3, <1>4, <1>6, FoundFacts
<1>9. /\ blockno' \in [Bufs -> Blocks \cup {NONE}] /\ refcnt' \in [Bufs -> Nat]
      /\ blockno'[b] = k /\ refcnt'[b] = 1
      /\ \A c \in Bufs : c # b => blockno'[c] = blockno[c] /\ refcnt'[c] = refcnt[c]
    <2>1. blockno \in [Bufs -> Blocks \cup {NONE}] /\ refcnt \in [Bufs -> Nat]
        BY DEF TypeOK
    <2> QED BY <2>1, <1>3, <1>4
<1>10. valid' \in [Bufs -> BOOLEAN] /\ dirty' \in [Bufs -> BOOLEAN]
    BY <1>3, Zenon DEF TypeOK
<1>11. /\ ~valid'[b] /\ ~dirty'[b]
       /\ \A c \in Bufs : c # b => valid'[c] = valid[c] /\ dirty'[c] = dirty[c]
    <2>1. valid \in [Bufs -> BOOLEAN] /\ dirty \in [Bufs -> BOOLEAN]
        BY DEF TypeOK
    <2> QED BY <2>1, <1>3, <1>4
<1>12. TypeOK'
    BY <1>3, <1>7, <1>9, <1>10 DEF TypeOK
<1>13. RefcountExact'
    <2>1. /\ Cardinality(Users(b)') = Cardinality(Users(b)) + 1
          /\ \A c \in Bufs : c # b => Users(c)' = Users(c)
        BY <1>8, UsersChange
    <2>2. Cardinality(Users(b)') = 1
        BY <2>1, <1>5, FS_EmptySet
    <2> QED BY <2>1, <2>2, <1>9 DEF RefcountExact
<1>14. OneBufferPerBlock' /\ NoPanic'
    <2>1. \A c \in Bufs : blockno[c] # k
        BY <1>1 DEF Cached
    <2> QED BY <2>1, <1>7, <1>9 DEF OneBufferPerBlock, NoPanic
<1>15. \A c \in Bufs : c # b => (Done(c)' <=> Done(c))
    BY <1>11 DEF Done
<1>16. Clean'
    <2>1. ~Done(b)'
        BY <1>11 DEF Done
    <2>2. ASSUME NEW c \in Bufs
          PROVE  /\ dirty'[c] => valid'[c]
                 /\ valid'[c] => blockno'[c] \in Blocks
                 /\ Done(c)' => data'[c] = disk'[blockno'[c]]
        <3>1. CASE c = b
            BY <3>1, <2>1, <1>11
        <3>2. CASE c # b
            <4>1. /\ dirty[c] => valid[c]
                  /\ valid[c] => blockno[c] \in Blocks
                  /\ Done(c) => data[c] = disk[blockno[c]]
                BY DEF Clean
            <4> QED BY <3>2, <4>1, <1>3, <1>7, <1>9, <1>11, <1>15
        <3> QED BY <3>1, <3>2
    <2> QED BY <2>2 DEF Clean
<1>17. Cursor'
    <2>1. ASSUME NEW q \in Procs, NEW c \in Mine(q)' PROVE blockno'[c] \in Blocks
        <3>1. c \in Bufs /\ (c # b => c \in Mine(q))
            BY <1>8 DEF Mine
        <3> QED BY <3>1, <1>9 DEF Cursor
    <2>2. \A q \in Procs : Cardinality(Mine(q)') <= MaxHeld[q]
        BY <1>8 DEF Cursor
    <2> QED BY <1>8, <2>1, <2>2 DEF Cursor
<1>18. \A j \in 1 .. Len(idequeue) : idequeue[j] \in Bufs /\ idequeue[j] # b
    <2>1. ASSUME NEW j \in 1 .. Len(idequeue) PROVE idequeue[j] \in Bufs /\ idequeue[j] # b
        <3>1. \E q \in Procs : cur[q] = idequeue[j]
            BY <2>1 DEF Queue
        <3>2. idequeue[j] \in Bufs
            BY <2>1, ElementOfSeq DEF TypeOK
        <3> QED BY <3>1, <3>2, <1>6
    <2> QED BY <2>1
<1>19. \A q \in Procs : InIde(q) => q # p /\ cur'[q] = cur[q] /\ cur[q] \in Bufs /\ cur[q] # b
    <2>1. \A q \in Procs : InIde(q) => cur[q] \in Bufs
        BY AtWork DEF InIde
    <2> QED BY <2>1, <1>6, <1>7, <1>8
<1>20. Queue'
    <2>1. \A c : Queued(c)' <=> Queued(c)
        BY <1>7 DEF Queued
    <2>2. ASSUME NEW j \in 1 .. Len(idequeue)
          PROVE  ~Done(idequeue[j])' /\ \E q \in Procs : InIde(q)' /\ cur'[q] = idequeue[j]
        <3>1. ~Done(idequeue[j]) /\ \E q \in Procs : InIde(q) /\ cur[q] = idequeue[j]
            BY <2>2 DEF Queue
        <3>2. ~(valid'[idequeue[j]] /\ ~dirty'[idequeue[j]])
            BY <3>1, <1>11, <1>18 DEF Done
        <3> QED BY <3>1, <3>2, <1>7, <1>8, <1>19 DEF Done
    <2>3. ASSUME NEW q \in Procs, InIde(q)'
          PROVE  /\ ~Done(cur[q]) => Queued(cur[q])
                 /\ pc'[q] = "iderw_sleep" => ~Done(cur[q])
                 /\ cur'[q] = cur[q]
                 /\ Done(cur[q])' <=> Done(cur[q])
        <3>1. InIde(q) /\ q # p /\ cur'[q] = cur[q] /\ cur[q] \in Bufs /\ cur[q] # b
            BY <2>3, <1>8, <1>19
        <3>2. PICK c \in Bufs : c = cur[q] /\ c # b
            BY <3>1
        <3>3. Done(c)' <=> Done(c)
            BY <3>2, <1>15
        <3>4. Done(cur[q])' <=> Done(c)'
            BY <3>1, <3>2 DEF Done
        <3> QED BY <3>1, <3>2, <3>3, <3>4, <1>7 DEF Queue
    <2>4. idequeue # <<>> => 1 \in 1 .. Len(idequeue)
        BY DEF TypeOK
    <2>5. idequeue # <<>> => req = [block |-> blockno'[idequeue[1]], write |-> dirty'[idequeue[1]],
                                    data |-> data[idequeue[1]]]
        BY <2>4, <1>9, <1>11, <1>18 DEF Queue
    <2>6. \A i1, j1 \in 1 .. Len(idequeue) : idequeue[i1] = idequeue[j1] => i1 = j1
        BY DEF Queue
    <2>7. \A q \in Procs : InIde(q)' /\ ~Done(cur[q])' => Queued(cur[q])
        BY <2>3
    <2>8. \A q \in Procs : pc'[q] = "iderw_sleep" => InIde(q)'
        BY DEF InIde
    <2> QED BY <2>1, <2>2, <2>3, <2>5, <2>6, <2>7, <2>8, <1>3, <1>7 DEF Queue
<1>21. Pins'
    <2>1. Pinned' = Pinned
        BY <1>4, <1>8, <1>11, <1>19 DEF Pinned
    <2> QED BY <2>1 DEF Pins
<1>22. Locks'
    <2>1. \A q \in Procs : pc'[q] = "bread" \/ InIde(q)' => cur'[q] = cur[q] /\ (pc[q] = "bread" \/ InIde(q))
        BY <1>7, <1>8
    <2>2. \A q \in Procs : \A c \in held[q] : c \in Bufs /\ c # b
        BY <1>6 DEF TypeOK
    <2> QED BY <2>1, <2>2, <1>7, <1>11 DEF Locks
<1>23. \A q \in Procs : pc'[q] = "lock_sleep" => owner'[cur'[q]] # NONE
    BY <1>7
<1> QED BY <1>12, <1>13, <1>14, <1>16, <1>17, <1>20, <1>21, <1>22, <1>23

----------------------------------------------------------------------------
(* Moving a buffer to the front leaves every buffer in the list.           *)
LEMMA ToFrontFacts ==
    ASSUME NEW s \in [Bufs -> Bufs], Range(s) = Bufs, NEW e \in Bufs
    PROVE  ToFront(s, e) \in [Bufs -> Bufs] /\ Range(ToFront(s, e)) = Bufs
<1> DEFINE k == CHOOSE i \in DOMAIN s : s[i] = e
           t == [i \in Bufs |-> IF i = 1 THEN e ELSE IF i <= k THEN s[i - 1] ELSE s[i]]
<1>1. \A b \in Bufs : \E i \in Bufs : s[i] = b
    BY DEF Range
<1>2. k \in Bufs /\ s[k] = e
    BY <1>1
<1>3. ToFront(s, e) = t
    BY DEF ToFront
<1> HIDE DEF k
<1>4. \A i \in Bufs : i \in Nat /\ i >= 1 /\ i <= NBUF
    BY BufAssumption DEF Bufs
<1>5. \A i \in Nat : i >= 1 /\ i <= NBUF => i \in Bufs
    BY BufAssumption DEF Bufs
<1>6. ASSUME NEW i \in Bufs PROVE t[i] \in Bufs
    <2>1. CASE i = 1
        BY <2>1
    <2>2. CASE i # 1
        <3>1. i - 1 \in Bufs
            BY <2>2, <1>4, <1>5, BufAssumption
        <3> QED BY <2>2, <3>1
    <2> QED BY <2>1, <2>2
<1>7. t \in [Bufs -> Bufs]
    BY <1>6
<1>8. ASSUME NEW b \in Bufs PROVE \E i \in Bufs : t[i] = b
    <2>1. PICK j \in Bufs : s[j] = b
        BY <1>1
    <2>2. 1 \in Bufs
        <3>1. b \in Nat /\ b >= 1 /\ b <= NBUF
            BY <1>4
        <3> QED BY <3>1, BufAssumption DEF Bufs
    <2>3. CASE j = k
        <3>1. t[1] = b
            BY <2>1, <2>2, <2>3, <1>2
        <3> QED BY <2>2, <3>1
    <2>4. CASE j < k
        <3>1. j + 1 \in Bufs /\ j + 1 # 1 /\ j + 1 <= k /\ (j + 1) - 1 = j
            BY <2>4, <1>2, <1>4, <1>5, BufAssumption
        <3>2. t[j + 1] = s[(j + 1) - 1]
            BY <3>1
        <3> QED BY <2>1, <3>1, <3>2
    <2>5. CASE j > k
        <3>1. j # 1 /\ ~(j <= k)
            BY <2>5, <1>2, <1>4
        <3>2. t[j] = s[j]
            BY <3>1
        <3> QED BY <2>1, <3>2
    <2> QED BY <2>3, <2>4, <2>5, <1>2, <1>4
<1>9. Range(t) = Bufs
    <2> HIDE DEF t
    <2> QED BY <1>7, <1>8 DEF Range
<1> QED BY <1>3, <1>7, <1>9

(* The second half of brelse keeps the invariant.                          *)
LEMMA BrelseKeeps ==
    ASSUME BufIInv, NEW p \in Procs, brelse(p)
    PROVE  BufIInv'
<1> USE DEF BufIInv
<1>1. /\ blockno' = blockno /\ valid' = valid /\ dirty' = dirty /\ data' = data
      /\ disk' = disk /\ idequeue' = idequeue /\ req' = req
      /\ owner' = owner /\ held' = held /\ panic' = panic /\ pc[p] = "brelse"
    BY DEF brelse, ide, At
<1>2. PICK c \in Bufs : c = cur[p]
    BY <1>1, AtWork
<1>3. c \notin held[p] /\ held[p] \subseteq Bufs
    BY <1>1, <1>2 DEF Cursor, TypeOK
<1>4. /\ pc'[p] = "run" /\ \A q \in Procs : q # p => pc'[q] = pc[q]
      /\ pc' \in [Procs -> Places]
    <2>1. "run" \in Places
        BY DEF Places
    <2> QED BY <2>1, StepFacts DEF brelse
<1>5. /\ cur'[p] = NONE /\ \A q \in Procs : q # p => cur'[q] = cur[q]
      /\ cur' \in [Procs -> Bufs \cup {NONE}]
    <2>1. cur \in [Procs -> Bufs \cup {NONE}] /\ cur' = [cur EXCEPT ![p] = NONE]
        BY DEF brelse, TypeOK
    <2> QED BY <2>1
<1>6. c \in Mine(p) /\ Mine(p)' = Mine(p) \ {c} /\ \A q \in Procs : q # p => Mine(q)' = Mine(q)
    <2>1. c \in Mine(p) /\ Mine(p)' = Mine(p) \ {c}
        BY <1>1, <1>2, <1>3, <1>5, BufAssumption DEF Mine
    <2>2. ASSUME NEW q \in Procs, q # p PROVE Mine(q)' = Mine(q)
        BY <2>2, <1>1, <1>5 DEF Mine
    <2> QED BY <2>1, <2>2
<1>7. /\ Cardinality(Users(c)') = Cardinality(Users(c)) - 1
      /\ Cardinality(Users(c)) >= 1
      /\ \A d \in Bufs : d # c => Users(d)' = Users(d)
    BY <1>6, UsersChange
<1>8. /\ refcnt' \in [Bufs -> Nat] /\ refcnt'[c] = refcnt[c] - 1
      /\ \A d \in Bufs : d # c => refcnt'[d] = refcnt[d]
    <2>1. refcnt \in [Bufs -> Nat] /\ refcnt' = [refcnt EXCEPT ![c] = refcnt[c] - 1]
        BY <1>2 DEF brelse, TypeOK
    <2>2. refcnt[c] >= 1
        BY <1>7 DEF RefcountExact
    <2> QED BY <2>1, <2>2
<1>9. lru' \in [Bufs -> Bufs] /\ Range(lru') = Bufs
    <2>1. lru \in [Bufs -> Bufs] /\ Range(lru) = Bufs
        BY DEF TypeOK
    <2>2. lru' = ToFront(lru, c) \/ lru' = lru
        BY <1>2 DEF brelse
    <2> QED BY <2>1, <2>2, ToFrontFacts
<1>10. TypeOK'
    BY <1>1, <1>4, <1>5, <1>8, <1>9 DEF TypeOK
<1>11. RefcountExact'
    BY <1>7, <1>8 DEF RefcountExact
<1>12. OneBufferPerBlock' /\ NoPanic' /\ Clean'
    BY <1>1 DEF OneBufferPerBlock, NoPanic, Clean, Done
<1>13. Cursor'
    <2>1. IsFiniteSet(Mine(p)) /\ Cardinality(Mine(p)) \in Nat
        BY BufsFinite DEF Mine
    <2>2. Cardinality(Mine(p) \ {c}) = Cardinality(Mine(p)) - 1
        BY <1>6, <2>1, FS_RemoveElement
    <2>3. \A q \in Procs : MaxHeld[q] \in Nat
        BY BufAssumption
    <2>4. ASSUME NEW q \in Procs PROVE Cardinality(Mine(q)') <= MaxHeld[q]
        <3>1. Cardinality(Mine(q)) <= MaxHeld[q]
            BY DEF Cursor
        <3>2. CASE q # p
            BY <3>1, <3>2, <1>6
        <3>3. CASE q = p
            <4>1. Cardinality(Mine(q)') = Cardinality(Mine(p)) - 1
                BY <3>3, <1>6, <2>2
            <4> QED BY <3>1, <3>3, <4>1, <2>1, <2>3
        <3> QED BY <3>2, <3>3
    <2>5. \A q \in Procs : \A d \in Mine(q)' : blockno'[d] \in Blocks
        BY <1>1, <1>6 DEF Cursor
    <2>6. ASSUME NEW q \in Procs
          PROVE  /\ pc'[q] = "run" <=> cur'[q] = NONE
                 /\ pc'[q] \in {"lock", "lock_sleep", "bread", "brelse"} => cur'[q] \notin held'[q]
        <3>1. CASE q = p
            BY <3>1, <1>4, <1>5
        <3>2. CASE q # p
            BY <3>2, <1>1, <1>4, <1>5 DEF Cursor
        <3> QED BY <3>1, <3>2
    <2> QED BY <2>4, <2>5, <2>6 DEF Cursor
<1>14. /\ ~InIde(p) /\ ~InIde(p)' /\ \A q \in Procs : q # p => (InIde(q)' <=> InIde(q))
    BY <1>1, <1>4 DEF InIde
<1>15. Queue' /\ Pins'
    <2>1. \A q \in Procs : pc'[q] = "iderw_sleep" => ~Done(cur[q])
        BY <1>4 DEF Queue
    <2>2. \A q \in Procs : InIde(q)' => InIde(q) /\ cur'[q] = cur[q]
        BY <1>5, <1>14
    <2>3. \A q \in Procs : InIde(q) /\ ~InIde(q)' => Done(cur[q])
        BY <1>14
    <2> QED BY <1>1, <2>1, <2>2, <2>3, SameIde
<1>16. Locks'
    <2>1. \A q \in Procs : pc'[q] = "bread" \/ InIde(q)' => cur'[q] = cur[q] /\ (pc[q] = "bread" \/ InIde(q))
        BY <1>4, <1>5, <1>14
    <2> QED BY <2>1, <1>1 DEF Locks
<1>17. \A q \in Procs : pc'[q] = "lock_sleep" => owner'[cur'[q]] # NONE
    BY <1>1, <1>4, <1>5
<1> QED BY <1>10, <1>11, <1>12, <1>13, <1>15, <1>16, <1>17

----------------------------------------------------------------------------
(* What is queued has a process that waits for it and has its lock.        *)
LEMMA QueuedFacts ==
    ASSUME BufIInv, NEW i \in 1 .. Len(idequeue)
    PROVE  /\ idequeue[i] \in Bufs
           /\ \E q \in Procs : InIde(q) /\ cur[q] = idequeue[i] /\ owner[idequeue[i]] = q
<1> USE DEF BufIInv
<1>1. idequeue[i] \in Bufs
    BY ElementOfSeq DEF TypeOK
<1>2. PICK q \in Procs : InIde(q) /\ cur[q] = idequeue[i]
    BY DEF Queue
<1> QED BY <1>1, <1>2 DEF Locks

(* The tail of iderw, for a buffer that its process has locked and that is *)
(* not in order: the queue and the pins stay as they should be.            *)
LEMMA Request ==
    ASSUME BufIInv, NEW p \in Procs, NEW b \in Bufs, ~InIde(p), owner[b] = p,
           blockno' = blockno,
           \A c \in Bufs : c # b => valid'[c] = valid[c] /\ dirty'[c] = dirty[c] /\ data'[c] = data[c],
           ~Done(b)', blockno[b] \in Blocks, dirty'[b] \in BOOLEAN, data'[b] \in Values,
           pc'[p] = "iderw_sleep", cur'[p] = b,
           \A q \in Procs : q # p => pc'[q] = pc[q] /\ cur'[q] = cur[q],
           idequeue' = Append(idequeue, b),
           req' = IF idequeue = <<>> THEN [block |-> blockno[b], write |-> dirty'[b], data |-> data'[b]] ELSE req
    PROVE  /\ idequeue' \in Seq(Bufs) /\ req' \in Requests \cup {NONE}
           /\ Queue' /\ Pins'
<1> USE DEF BufIInv
<1> DEFINE n == Len(idequeue)
<1>1. /\ idequeue \in Seq(Bufs) /\ n \in Nat /\ (idequeue # <<>> <=> n # 0)
      /\ idequeue' \in Seq(Bufs) /\ Len(idequeue') = n + 1
      /\ idequeue'[n + 1] = b /\ \A i \in 1 .. n : idequeue'[i] = idequeue[i]
    BY DEF TypeOK
<1> HIDE DEF n
<1>2. InIde(p)' /\ \A q \in Procs : q # p => (InIde(q)' <=> InIde(q))
    BY DEF InIde
<1>3. \A q \in Procs : InIde(q) => q # p /\ cur[q] \in Bufs /\ owner[cur[q]] = q /\ cur[q] # b
    BY AtWork DEF InIde, Locks
<1>4. \A c \in Bufs : c # b => (Done(c)' <=> Done(c))
    BY DEF Done
<1>5. ASSUME NEW i \in 1 .. n
      PROVE  /\ idequeue'[i] = idequeue[i] /\ idequeue[i] \in Bufs /\ idequeue[i] # b
             /\ \E q \in Procs : InIde(q) /\ cur[q] = idequeue[i] /\ q # p
    <2>1. /\ idequeue[i] \in Bufs
          /\ \E q \in Procs : InIde(q) /\ cur[q] = idequeue[i] /\ owner[idequeue[i]] = q
        BY <1>5, QueuedFacts DEF n
    <2> QED BY <2>1, <1>1, <1>3
<1>6. \A i \in 1 .. n + 1 : i \in 1 .. n \/ i = n + 1
    BY <1>1
<1>7. \A i, j \in 1 .. n + 1 : idequeue'[i] = idequeue'[j] => i = j
    <2>1. \A i, j \in 1 .. n : idequeue[i] = idequeue[j] => i = j
        BY DEF Queue, n
    <2> QED BY <2>1, <1>1, <1>5, <1>6
<1>8. ASSUME NEW i \in 1 .. n + 1
      PROVE  /\ ~(valid'[idequeue'[i]] /\ ~dirty'[idequeue'[i]])
             /\ \E q \in Procs : InIde(q)' /\ cur'[q] = idequeue'[i]
    <2>1. CASE i = n + 1
        BY <2>1, <1>1, <1>2 DEF Done
    <2>2. CASE i \in 1 .. n
        <3>1. ~Done(idequeue[i])
            BY <2>2 DEF Queue, n
        <3>2. PICK q \in Procs : InIde(q) /\ cur[q] = idequeue[i] /\ q # p
            BY <2>2, <1>5
        <3>3. InIde(q)' /\ cur'[q] = idequeue'[i]
            BY <2>2, <3>2, <1>1, <1>2
        <3>4. ~(valid'[idequeue'[i]] /\ ~dirty'[idequeue'[i]])
            BY <2>2, <3>1, <1>5 DEF Done
        <3> QED BY <3>3, <3>4
    <2> QED BY <2>1, <2>2, <1>6
<1>9. ASSUME NEW q \in Procs, InIde(q)'
      PROVE  /\ ~(valid'[cur'[q]] /\ ~dirty'[cur'[q]]) => \E i \in 1 .. n + 1 : idequeue'[i] = cur'[q]
             /\ pc'[q] = "iderw_sleep" => ~(valid'[cur'[q]] /\ ~dirty'[cur'[q]])
    <2>1. CASE q = p
        <3>1. n + 1 \in 1 .. n + 1 /\ idequeue'[n + 1] = cur'[q]
            BY <2>1, <1>1
        <3>2. ~(valid'[cur'[q]] /\ ~dirty'[cur'[q]])
            BY <2>1 DEF Done
        <3> QED BY <3>1, <3>2
    <2>2. CASE q # p
        <3>1. PICK c \in Bufs : c = cur[q] /\ c # b /\ cur'[q] = c
            BY <2>2, <1>2, <1>3, <1>9
        <3>2. (valid'[c] /\ ~dirty'[c]) <=> Done(c)
            BY <3>1 DEF Done
        <3>3. ~Done(c) => \E i \in 1 .. n : idequeue[i] = c
            BY <2>2, <3>1, <1>2, <1>9 DEF Queue, Queued, n
        <3>4. ~Done(c) => \E i \in 1 .. n + 1 : idequeue'[i] = c
            BY <3>3, <1>1
        <3>5. pc'[q] = "iderw_sleep" => ~Done(c)
            BY <2>2, <3>1 DEF Queue
        <3> QED BY <3>1, <3>2, <3>4, <3>5
    <2> QED BY <2>1, <2>2
<1>10. req' = [block |-> blockno[idequeue'[1]], write |-> dirty'[idequeue'[1]], data |-> data'[idequeue'[1]]]
    <2>1. CASE idequeue = <<>>
        <3>1. n = 0 /\ idequeue'[1] = b
            BY <2>1, <1>1
        <3> QED BY <2>1, <3>1
    <2>2. CASE idequeue # <<>>
        <3>1. 1 \in 1 .. n
            BY <2>2, <1>1
        <3>2. PICK c \in Bufs : c = idequeue[1] /\ idequeue'[1] = c /\ c # b
            BY <3>1, <1>5
        <3>3. req = [block |-> blockno[c], write |-> dirty[c], data |-> data[c]]
            BY <2>2, <3>2 DEF Queue
        <3> QED BY <2>2, <3>2, <3>3
    <2> QED BY <2>1, <2>2
<1>11. req' \in Requests \cup {NONE}
    <2>1. CASE idequeue = <<>>
        BY <2>1 DEF Requests
    <2>2. CASE idequeue # <<>>
        BY <2>2 DEF TypeOK
    <2> QED BY <2>1, <2>2
<1>12. Queue'
    <2>1. \A q \in Procs : pc'[q] = "iderw_sleep" => InIde(q)'
        BY DEF InIde
    <2>2. Len(idequeue') = n + 1
        BY <1>1
    <2> QED BY <2>1, <2>2, <1>7, <1>8, <1>9, <1>10 DEF Queue, Queued, Done
<1>13. Pins'
    <2>1. Pinned' \subseteq Pinned
        <3> SUFFICES ASSUME NEW c \in Pinned' PROVE c \in Pinned
            OBVIOUS
        <3>1. c \in Bufs /\ dirty'[c] /\ \A q \in Procs : InIde(q)' => cur'[q] # c
            BY DEF Pinned
        <3>2. c # b
            BY <3>1, <1>2
        <3>3. \A q \in Procs : InIde(q) => cur[q] # c
            BY <3>1, <1>2, <1>3
        <3> QED BY <3>1, <3>2, <3>3 DEF Pinned
    <2>2. Pinned \in SUBSET Bufs
        BY DEF Pinned
    <2>3. IsFiniteSet(Pinned) /\ Cardinality(Pinned) \in Nat
        BY <2>2, BufsFinite
    <2>4. Cardinality(Pinned') <= Cardinality(Pinned) /\ Cardinality(Pinned') \in Nat
        <3> DEFINE S == Pinned'
        <3> HIDE DEF S
        <3>1. S \subseteq Pinned
            BY <2>1 DEF S
        <3>2. Cardinality(S) <= Cardinality(Pinned) /\ IsFiniteSet(S)
            BY <3>1, <2>3, FS_Subset
        <3> QED BY <3>2, FS_CardinalityType DEF S
    <2> QED BY <2>3, <2>4, BufAssumption DEF Pins
<1> QED BY <1>1, <1>11, <1>12, <1>13

(* bread of a buffer whose content is not there keeps the invariant.       *)
LEMMA BreadInvalidKeeps ==
    ASSUME BufIInv, NEW p \in Procs, bread_invalid(p)
    PROVE  BufIInv'
<1> USE DEF BufIInv
<1>1. /\ lru' = lru /\ blockno' = blockno /\ valid' = valid /\ dirty' = dirty
      /\ refcnt' = refcnt /\ data' = data /\ disk' = disk /\ owner' = owner
      /\ cur' = cur /\ held' = held /\ pc[p] = "bread" /\ ~valid[cur[p]]
    BY DEF bread_invalid, iderw, buf, local, At
<1>2. PICK b \in Bufs : b = cur[p]
    BY <1>1, AtWork
<1>3. ~valid[b] /\ ~dirty[b] /\ owner[b] = p /\ b \notin held[p] /\ blockno[b] \in Blocks
    <2>1. b \in Mine(p)
        BY <1>1, <1>2, AtWork
    <2> QED BY <2>1, <1>1, <1>2 DEF Clean, Locks, Cursor
<1>4. /\ pc'[p] = "iderw_sleep" /\ \A q \in Procs : q # p => pc'[q] = pc[q]
      /\ pc' \in [Procs -> Places]
    <2>1. "iderw_sleep" \in Places
        BY DEF Places
    <2> QED BY <2>1, StepFacts DEF bread_invalid, iderw
<1>5. panic' = panic
    <2>1. panic' = FALSE
        BY <1>2, <1>3 DEF bread_invalid, iderw
    <2> QED BY <2>1 DEF NoPanic, TypeOK
<1>6. /\ idequeue' = Append(idequeue, b)
      /\ req' = IF idequeue = <<>> THEN [block |-> blockno[b], write |-> dirty'[b], data |-> data'[b]] ELSE req
    BY <1>1, <1>2 DEF bread_invalid, iderw, idestart
<1>7. ~Done(b)' /\ dirty'[b] \in BOOLEAN /\ data'[b] \in Values
    BY <1>1, <1>3 DEF Done, TypeOK
<1>8. ~InIde(p)
    BY <1>1 DEF InIde
<1>9. idequeue' \in Seq(Bufs) /\ req' \in Requests \cup {NONE} /\ Queue' /\ Pins'
    BY <1>1, <1>2, <1>3, <1>4, <1>6, <1>7, <1>8, Request
<1>10. TypeOK'
    BY <1>1, <1>4, <1>5, <1>9 DEF TypeOK
<1>11. \A q \in Procs : Mine(q)' = Mine(q)
    BY <1>1 DEF Mine
<1>12. /\ RefcountExact' /\ OneBufferPerBlock' /\ NoPanic' /\ Clean'
       /\ \A q \in Procs : Cardinality(Mine(q)') <= MaxHeld[q] /\ \A c \in Mine(q)' : blockno'[c] \in Blocks
    BY <1>1, <1>5, <1>11, Quiet
<1>13. Cursor'
    BY <1>1, <1>4, <1>12 DEF Cursor
<1>14. Locks'
    <2>1. \A q \in Procs : pc'[q] = "bread" \/ InIde(q)' => pc[q] = "bread" \/ InIde(q)
        BY <1>1, <1>4 DEF InIde
    <2> QED BY <2>1, <1>1 DEF Locks
<1>15. \A q \in Procs : pc'[q] = "lock_sleep" => owner'[cur'[q]] # NONE
    BY <1>1, <1>4
<1> QED BY <1>9, <1>10, <1>12, <1>13, <1>14, <1>15

----------------------------------------------------------------------------
(* What a caller may do to a buffer it has: new content and the dirty flag.*)
LEMMA ChangeFacts ==
    ASSUME BufIInv, NEW p \in Procs, NEW b \in held[p], NEW v \in Values,
           data' = [data EXCEPT ![b] = v], dirty' = [dirty EXCEPT ![b] = TRUE],
           valid' = valid
    PROVE  /\ b \in Bufs /\ owner[b] = p /\ valid[b] /\ blockno[b] \in Blocks
           /\ data'[b] = v /\ dirty'[b] /\ ~Done(b)' /\ dirty'[b] \in BOOLEAN
           /\ \A c \in Bufs : c # b => data'[c] = data[c] /\ dirty'[c] = dirty[c]
           /\ data' \in [Bufs -> Values] /\ dirty' \in [Bufs -> BOOLEAN]
<1> USE DEF BufIInv
<1>1. b \in Bufs /\ owner[b] = p /\ valid[b] /\ blockno[b] \in Blocks
    BY DEF TypeOK, Locks, Clean
<1>2. /\ data'[b] = v /\ \A c \in Bufs : c # b => data'[c] = data[c]
      /\ data' \in [Bufs -> Values]
    <2>1. data \in [Bufs -> Values]
        BY DEF TypeOK
    <2> QED BY <1>1, <2>1
<1>3. dirty' \in [Bufs -> BOOLEAN]
    BY Zenon DEF TypeOK
<1>4. dirty'[b] /\ \A c \in Bufs : c # b => dirty'[c] = dirty[c]
    <2>1. dirty \in [Bufs -> BOOLEAN]
        BY DEF TypeOK
    <2> QED BY <1>1, <2>1
<1>5. dirty'[b] \in BOOLEAN
    BY <1>1, <1>3
<1> QED BY <1>1, <1>2, <1>3, <1>4, <1>5 DEF Done

(* Only dirty buffers differ from the disk, also after a change.           *)
LEMMA ChangeClean ==
    ASSUME Clean, NEW b \in Bufs, valid[b], dirty'[b],
           valid' = valid, disk' = disk, blockno' = blockno,
           \A c \in Bufs : c # b => data'[c] = data[c] /\ dirty'[c] = dirty[c]
    PROVE  Clean'
BY DEF Clean, Done

(* bwrite keeps the invariant.                                             *)
LEMMA BwriteKeeps ==
    ASSUME BufIInv, NEW p \in Procs, NEW b \in held[p], NEW v \in Values, bwrite(p, b, v)
    PROVE  BufIInv'
<1> USE DEF BufIInv
<1>1. /\ lru' = lru /\ blockno' = blockno /\ valid' = valid
      /\ refcnt' = refcnt /\ disk' = disk /\ owner' = owner
      /\ held' = held /\ pc[p] = "run"
      /\ data' = [data EXCEPT ![b] = v] /\ dirty' = [dirty EXCEPT ![b] = TRUE]
    BY DEF bwrite, iderw, At
<1>2. /\ b \in Bufs /\ owner[b] = p /\ valid[b] /\ blockno[b] \in Blocks
      /\ data'[b] = v /\ dirty'[b] /\ ~Done(b)' /\ dirty'[b] \in BOOLEAN
      /\ \A c \in Bufs : c # b => data'[c] = data[c] /\ dirty'[c] = dirty[c]
      /\ data' \in [Bufs -> Values] /\ dirty' \in [Bufs -> BOOLEAN]
    BY <1>1, ChangeFacts
<1>3. /\ pc'[p] = "iderw_sleep" /\ \A q \in Procs : q # p => pc'[q] = pc[q]
      /\ pc' \in [Procs -> Places]
    <2>1. "iderw_sleep" \in Places
        BY DEF Places
    <2> QED BY <2>1, StepFacts DEF bwrite, iderw
<1>4. /\ cur'[p] = b /\ \A q \in Procs : q # p => cur'[q] = cur[q]
      /\ cur' \in [Procs -> Bufs \cup {NONE}]
    <2>1. cur \in [Procs -> Bufs \cup {NONE}] /\ cur' = [cur EXCEPT ![p] = b]
        BY DEF bwrite, TypeOK
    <2> QED BY <1>2, <2>1
<1>5. panic' = panic
    <2>1. panic' = FALSE
        BY <1>2 DEF bwrite, iderw
    <2> QED BY <2>1 DEF NoPanic, TypeOK
<1>6. /\ idequeue' = Append(idequeue, b)
      /\ req' = IF idequeue = <<>> THEN [block |-> blockno[b], write |-> dirty'[b], data |-> data'[b]] ELSE req
    <2>1. dirty'[b] = TRUE
        BY <1>2
    <2> QED BY <2>1 DEF bwrite, iderw, idestart
<1>7. ~InIde(p)
    BY <1>1 DEF InIde
<1>8. idequeue' \in Seq(Bufs) /\ req' \in Requests \cup {NONE} /\ Queue' /\ Pins'
    BY <1>1, <1>2, <1>3, <1>4, <1>6, <1>7, Request
<1>9. TypeOK'
    BY <1>1, <1>2, <1>3, <1>4, <1>5, <1>8 DEF TypeOK
<1>10. \A q \in Procs : Mine(q)' = Mine(q)
    <2>1. cur[p] = NONE
        BY <1>1 DEF Cursor
    <2>2. Mine(p)' = Mine(p)
        BY <2>1, <1>1, <1>2, <1>4, BufAssumption DEF Mine
    <2>3. ASSUME NEW q \in Procs, q # p PROVE Mine(q)' = Mine(q)
        BY <2>3, <1>1, <1>4 DEF Mine
    <2> QED BY <2>2, <2>3
<1>11. RefcountExact'
    <2> SUFFICES ASSUME NEW c \in Bufs PROVE refcnt'[c] = Cardinality(Users(c)')
        BY DEF RefcountExact
    <2>1. Users(c)' = {q \in Procs : c \in Mine(q)'}
        BY DEF Users, Mine
    <2>2. Users(c)' = Users(c)
        BY <2>1, <1>10, UsersMine
    <2> QED BY <2>2, <1>1 DEF RefcountExact
<1>12. OneBufferPerBlock' /\ NoPanic'
    BY <1>1, <1>5 DEF OneBufferPerBlock, NoPanic
<1>13. Clean'
    BY <1>1, <1>2, ChangeClean
<1>14. Cursor'
    <2>1. ASSUME NEW q \in Procs
          PROVE  /\ pc'[q] = "run" <=> cur'[q] = NONE
                 /\ pc'[q] \in {"lock", "lock_sleep", "bread", "brelse"} => cur'[q] \notin held'[q]
        <3>1. CASE q = p
            BY <3>1, <1>2, <1>3, <1>4, BufAssumption
        <3>2. CASE q # p
            BY <3>2, <1>1, <1>3, <1>4 DEF Cursor
        <3> QED BY <3>1, <3>2
    <2>2. \A q \in Procs : Cardinality(Mine(q)') <= MaxHeld[q] /\ \A c \in Mine(q)' : blockno'[c] \in Blocks
        BY <1>1, <1>10 DEF Cursor
    <2> QED BY <2>1, <2>2 DEF Cursor
<1>15. Locks'
    <2>1. ASSUME NEW q \in Procs, pc'[q] = "bread" \/ InIde(q)' PROVE owner[cur'[q]] = q
        <3>1. CASE q = p
            BY <3>1, <1>2, <1>4
        <3>2. CASE q # p
            BY <2>1, <3>2, <1>3, <1>4 DEF Locks, InIde
        <3> QED BY <3>1, <3>2
    <2> QED BY <2>1, <1>1 DEF Locks
<1>16. \A q \in Procs : pc'[q] = "lock_sleep" => owner'[cur'[q]] # NONE
    BY <1>1, <1>3, <1>4
<1> QED BY <1>8, <1>9, <1>11, <1>12, <1>13, <1>14, <1>15, <1>16

(* log_write keeps the invariant.                                          *)
LEMMA LogWriteKeeps ==
    ASSUME BufIInv, NEW p \in Procs, NEW b \in held[p], NEW v \in Values, log_write(p, b, v)
    PROVE  BufIInv'
<1> USE DEF BufIInv
<1>1. /\ lru' = lru /\ blockno' = blockno /\ valid' = valid
      /\ refcnt' = refcnt /\ disk' = disk /\ owner' = owner /\ idequeue' = idequeue /\ req' = req
      /\ held' = held /\ cur' = cur /\ pc' = pc /\ panic' = panic /\ pc[p] = "run"
      /\ data' = [data EXCEPT ![b] = v] /\ dirty' = [dirty EXCEPT ![b] = TRUE]
      /\ Cardinality({c \in Bufs \ {b} : dirty[c]}) < MaxPinned
    BY DEF log_write, ide, local, At
<1>2. /\ b \in Bufs /\ owner[b] = p /\ valid[b] /\ blockno[b] \in Blocks
      /\ data'[b] = v /\ dirty'[b] /\ ~Done(b)' /\ dirty'[b] \in BOOLEAN
      /\ \A c \in Bufs : c # b => data'[c] = data[c] /\ dirty'[c] = dirty[c]
      /\ data' \in [Bufs -> Values] /\ dirty' \in [Bufs -> BOOLEAN]
    BY <1>1, ChangeFacts
<1>3. TypeOK'
    BY <1>1, <1>2 DEF TypeOK
<1>4. \A q \in Procs : Mine(q)' = Mine(q) /\ (InIde(q)' <=> InIde(q))
    BY <1>1 DEF Mine, InIde
<1>5. RefcountExact'
    <2>1. \A c : Users(c)' = Users(c)
        BY <1>1 DEF Users
    <2> QED BY <2>1, <1>1 DEF RefcountExact
<1>6. OneBufferPerBlock' /\ NoPanic'
    BY <1>1 DEF OneBufferPerBlock, NoPanic
<1>7. Clean'
    BY <1>1, <1>2, ChangeClean
<1>8. Cursor'
    BY <1>1, <1>4 DEF Cursor
<1>9. Locks'
    BY <1>1, <1>4 DEF Locks
<1>10. ~InIde(p)
    BY <1>1 DEF InIde
<1>11. \A q \in Procs : InIde(q) => cur[q] \in Bufs /\ cur[q] # b
    BY <1>2, <1>10, AtWork DEF InIde, Locks
<1>12. \A c \in Bufs : c # b => (Done(c)' <=> Done(c))
    BY <1>1, <1>2 DEF Done
<1>13. \A i \in 1 .. Len(idequeue) : idequeue[i] \in Bufs /\ idequeue[i] # b
    BY <1>11, QueuedFacts
<1>14. Queue'
    <2>1. \A c : Queued(c)' <=> Queued(c)
        BY <1>1 DEF Queued
    <2>2. ASSUME NEW i \in 1 .. Len(idequeue)
          PROVE  ~(valid[idequeue[i]] /\ ~dirty'[idequeue[i]]) /\ \E q \in Procs : InIde(q)' /\ cur[q] = idequeue[i]
        <3>1. ~Done(idequeue[i]) /\ \E q \in Procs : InIde(q) /\ cur[q] = idequeue[i]
            BY <2>2 DEF Queue
        <3> QED BY <3>1, <1>2, <1>4, <1>13 DEF Done
    <2>3. ASSUME NEW q \in Procs, InIde(q)'
          PROVE  /\ ~(valid[cur[q]] /\ ~dirty'[cur[q]]) => Queued(cur[q])
                 /\ pc[q] = "iderw_sleep" => ~(valid[cur[q]] /\ ~dirty'[cur[q]])
        <3>1. InIde(q) /\ cur[q] \in Bufs /\ cur[q] # b
            BY <2>3, <1>4, <1>11
        <3>2. (valid[cur[q]] /\ ~dirty'[cur[q]]) <=> Done(cur[q])
            BY <3>1, <1>2 DEF Done
        <3> QED BY <3>1, <3>2 DEF Queue
    <2>4. idequeue # <<>> => 1 \in 1 .. Len(idequeue)
        BY DEF TypeOK
    <2>5. idequeue # <<>> => req = [block |-> blockno[idequeue[1]], write |-> dirty'[idequeue[1]],
                                    data |-> data'[idequeue[1]]]
        BY <2>4, <1>2, <1>13 DEF Queue
    <2>6. \A i, j \in 1 .. Len(idequeue) : idequeue[i] = idequeue[j] => i = j
        BY DEF Queue
    <2>7. \A q \in Procs : pc[q] = "iderw_sleep" => InIde(q)'
        BY <1>4 DEF InIde
    <2> QED BY <2>1, <2>2, <2>3, <2>5, <2>6, <2>7, <1>1 DEF Queue, Done
<1>15. Pins'
    <2> DEFINE S == {c \in Bufs \ {b} : dirty[c]}
    <2>1. IsFiniteSet(S) /\ Cardinality(S) \in Nat
        BY BufsFinite
    <2>2. Pinned' \subseteq S \cup {b}
        BY <1>2 DEF Pinned
    <2>3. Cardinality(S) < MaxPinned /\ b \notin S
        BY <1>1
    <2> HIDE DEF S
    <2>4. IsFiniteSet(S \cup {b}) /\ Cardinality(S \cup {b}) = Cardinality(S) + 1
        BY <2>1, <2>3, FS_AddElement
    <2>5. Cardinality(Pinned') <= Cardinality(S \cup {b}) /\ Cardinality(Pinned') \in Nat
        <3> DEFINE T == Pinned'
        <3> HIDE DEF T
        <3>1. T \subseteq S \cup {b}
            BY <2>2 DEF T
        <3>2. Cardinality(T) <= Cardinality(S \cup {b}) /\ IsFiniteSet(T)
            BY <3>1, <2>4, FS_Subset
        <3> QED BY <3>2, FS_CardinalityType DEF T
    <2> QED BY <2>1, <2>3, <2>4, <2>5, BufAssumption DEF Pins
<1>16. \A q \in Procs : pc'[q] = "lock_sleep" => owner'[cur'[q]] # NONE
    BY <1>1
<1> QED BY <1>3, <1>5, <1>6, <1>7, <1>8, <1>9, <1>14, <1>15, <1>16

----------------------------------------------------------------------------
(* What the interrupt finds and what it leaves behind: the first buffer of *)
(* the queue agrees with the disk.                                         *)
LEMMA IntrFacts ==
    ASSUME BufIInv, ideintr, NEW b, b = idequeue[1]
    PROVE  /\ b \in Bufs /\ blockno[b] \in Blocks /\ idequeue # <<>>
           /\ lru' = lru /\ blockno' = blockno /\ refcnt' = refcnt /\ owner' = owner
           /\ cur' = cur /\ held' = held /\ panic' = panic
           /\ valid' \in [Bufs -> BOOLEAN] /\ dirty' \in [Bufs -> BOOLEAN]
           /\ data' \in [Bufs -> Values] /\ disk' \in [Blocks -> Values]
           /\ valid'[b] /\ ~dirty'[b] /\ data'[b] = disk'[blockno[b]]
           /\ dirty[b] => data'[b] = data[b]
           /\ ~dirty[b] => disk' = disk
           /\ \A c \in Bufs : c # b => valid'[c] = valid[c] /\ dirty'[c] = dirty[c] /\ data'[c] = data[c]
           /\ \A k \in Blocks : k # blockno[b] => disk'[k] = disk[k]
<1> USE DEF BufIInv
<1>1. /\ idequeue # <<>> /\ req # NONE
      /\ lru' = lru /\ blockno' = blockno /\ refcnt' = refcnt /\ owner' = owner
      /\ cur' = cur /\ held' = held /\ panic' = panic
    BY DEF ideintr, Intr, local
<1>2. Head(idequeue) = b /\ 1 \in 1 .. Len(idequeue)
    BY <1>1 DEF TypeOK
<1>3. b \in Bufs /\ \E q \in Procs : InIde(q) /\ cur[q] = b
    BY <1>2, QueuedFacts
<1>4. blockno[b] \in Blocks
    <2>1. PICK q \in Procs : InIde(q) /\ cur[q] = b
        BY <1>3
    <2>2. b \in Mine(q)
        BY <2>1, AtWork DEF InIde
    <2> QED BY <2>2 DEF Cursor
<1>5. req = [block |-> blockno[b], write |-> dirty[b], data |-> data[b]]
    BY <1>1 DEF Queue
<1>6. /\ data' = IF dirty[b] THEN data ELSE [data EXCEPT ![b] = disk[blockno[b]]]
      /\ disk' = IF dirty[b] THEN [disk EXCEPT ![blockno[b]] = data[b]] ELSE disk
      /\ valid' = [valid EXCEPT ![b] = TRUE]
      /\ dirty' = [dirty EXCEPT ![b] = FALSE]
    <2>1. req.block = blockno[b] /\ req.write = dirty[b] /\ req.data = data[b]
        BY <1>5
    <2> QED BY <1>2, <2>1 DEF ideintr, Intr
<1>7. valid' \in [Bufs -> BOOLEAN] /\ dirty' \in [Bufs -> BOOLEAN]
    BY <1>6, Zenon DEF TypeOK
<1>8. /\ valid'[b] /\ ~dirty'[b]
      /\ \A c \in Bufs : c # b => valid'[c] = valid[c] /\ dirty'[c] = dirty[c]
    <2>1. valid \in [Bufs -> BOOLEAN] /\ dirty \in [Bufs -> BOOLEAN]
        BY DEF TypeOK
    <2> QED BY <1>3, <1>6, <2>1
<1>9. data \in [Bufs -> Values] /\ disk \in [Blocks -> Values]
    BY DEF TypeOK
<1>10. CASE dirty[b]
    <2>1. data' = data /\ disk' = [disk EXCEPT ![blockno[b]] = data[b]]
        BY <1>6, <1>10
    <2> QED BY <1>1, <1>3, <1>4, <1>7, <1>8, <1>9, <1>10, <2>1
<1>11. CASE ~dirty[b]
    <2>1. disk' = disk /\ data' = [data EXCEPT ![b] = disk[blockno[b]]]
        BY <1>6, <1>11
    <2> QED BY <1>1, <1>3, <1>4, <1>7, <1>8, <1>9, <1>11, <2>1
<1> QED BY <1>10, <1>11

(* The interrupt keeps the invariant.                                      *)
LEMMA IntrKeeps ==
    ASSUME BufIInv, ideintr
    PROVE  BufIInv'
<1> USE DEF BufIInv
<1> DEFINE n == Len(idequeue)
<1>1. PICK b : b = idequeue[1]
    OBVIOUS
<1>2. /\ b \in Bufs /\ blockno[b] \in Blocks /\ idequeue # <<>>
      /\ lru' = lru /\ blockno' = blockno /\ refcnt' = refcnt /\ owner' = owner
      /\ cur' = cur /\ held' = held /\ panic' = panic
      /\ valid' \in [Bufs -> BOOLEAN] /\ dirty' \in [Bufs -> BOOLEAN]
      /\ data' \in [Bufs -> Values] /\ disk' \in [Blocks -> Values]
      /\ valid'[b] /\ ~dirty'[b] /\ data'[b] = disk'[blockno[b]]
    BY <1>1, IntrFacts
<1>3. /\ \A c \in Bufs : c # b => valid'[c] = valid[c] /\ dirty'[c] = dirty[c] /\ data'[c] = data[c]
      /\ \A k \in Blocks : k # blockno[b] => disk'[k] = disk[k]
    BY <1>1, IntrFacts
<1>4. /\ n \in Nat /\ n >= 1 /\ 1 \in 1 .. n /\ Head(idequeue) = b
      /\ idequeue' = Tail(idequeue) /\ idequeue' \in Seq(Bufs) /\ Len(idequeue') = n - 1
      /\ \A i \in 1 .. n - 1 : idequeue'[i] = idequeue[i + 1] /\ i + 1 \in 1 .. n /\ i + 1 # 1
    <2>1. idequeue' = Tail(idequeue) /\ idequeue \in Seq(Bufs)
        BY DEF ideintr, Intr, TypeOK
    <2> QED BY <1>1, <1>2, <2>1
<1> HIDE DEF n
<1>5. /\ \A q \in Procs : pc'[q] = IF pc[q] = "iderw_sleep" /\ cur[q] = b THEN "iderw" ELSE pc[q]
      /\ pc' \in [Procs -> Places]
    <2>1. "run" \in Places /\ NONE \notin Procs /\ Goto(NONE, "run", "iderw_sleep", b)
        BY <1>4, BufAssumption DEF Places, ideintr, Intr
    <2> QED BY <2>1, GotoFacts
<1>6. \A q \in Procs : InIde(q)' <=> InIde(q)
    BY <1>5 DEF InIde
<1>7. ASSUME NEW i \in 1 .. n - 1
      PROVE  /\ idequeue'[i] \in Bufs /\ idequeue'[i] # b /\ ~Done(idequeue'[i])
             /\ \E q \in Procs : InIde(q) /\ cur[q] = idequeue'[i]
    <2>1. idequeue'[i] = idequeue[i + 1] /\ i + 1 \in 1 .. n /\ i + 1 # 1
        BY <1>4
    <2>2. idequeue[i + 1] \in Bufs /\ \E q \in Procs : InIde(q) /\ cur[q] = idequeue[i + 1]
        BY <2>1, QueuedFacts DEF n
    <2>3. ~Done(idequeue[i + 1])
        BY <2>1 DEF Queue, n
    <2>4. idequeue[i + 1] # b
        BY <2>1, <1>1, <1>4 DEF Queue, n
    <2> QED BY <2>1, <2>2, <2>3, <2>4
<1>8. /\ idequeue' # <<>> => /\ 1 \in 1 .. n - 1
                             /\ req' = [block |-> blockno[idequeue'[1]], write |-> dirty'[idequeue'[1]],
                                        data |-> data'[idequeue'[1]]]
      /\ idequeue' = <<>> => req' = NONE
    <2>1. idequeue' # <<>> => 1 \in 1 .. n - 1 /\ Head(idequeue') = idequeue'[1]
        BY <1>4
    <2> QED BY <2>1, <1>2 DEF ideintr, Intr, idestart
<1>9. req' \in Requests \cup {NONE}
    <2>1. CASE idequeue' = <<>>
        BY <2>1, <1>8
    <2>2. CASE idequeue' # <<>>
        <3>1. PICK h \in Bufs : h = idequeue'[1] /\ \E q \in Procs : InIde(q) /\ cur[q] = h
            BY <2>2, <1>7, <1>8
        <3>2. PICK q \in Procs : InIde(q) /\ cur[q] = h
            BY <3>1
        <3>3. h \in Mine(q)
            BY <3>2, AtWork DEF InIde
        <3>4. blockno[h] \in Blocks
            BY <3>3 DEF Cursor
        <3>5. dirty'[h] \in BOOLEAN /\ data'[h] \in Values
            BY <1>2
        <3>6. req' = [block |-> blockno[h], write |-> dirty'[h], data |-> data'[h]]
            BY <2>2, <3>1, <1>8
        <3> QED BY <3>4, <3>5, <3>6 DEF Requests
    <2> QED BY <2>1, <2>2
<1>10. TypeOK'
    BY <1>2, <1>4, <1>5, <1>9 DEF TypeOK
<1>11. \A q \in Procs : Mine(q)' = Mine(q)
    BY <1>2 DEF Mine
<1>12. RefcountExact'
    <2>1. \A c : Users(c)' = Users(c)
        BY <1>2 DEF Users
    <2> QED BY <2>1, <1>2 DEF RefcountExact
<1>13. OneBufferPerBlock' /\ NoPanic'
    BY <1>2 DEF OneBufferPerBlock, NoPanic
<1>14. Cursor'
    <2>1. ASSUME NEW q \in Procs
          PROVE  /\ pc'[q] = "run" <=> cur[q] = NONE
                 /\ pc'[q] \in {"lock", "lock_sleep", "bread", "brelse"} => cur[q] \notin held[q]
        <3>1. pc'[q] = "run" <=> pc[q] = "run"
            BY <1>5
        <3>2. pc'[q] \in {"lock", "lock_sleep", "bread", "brelse"} => pc'[q] = pc[q]
            BY <1>5
        <3> QED BY <3>1, <3>2 DEF Cursor
    <2> QED BY <2>1, <1>2, <1>11 DEF Cursor
<1>15. Locks'
    <2>1. \A q \in Procs : \A c \in held[q] : owner[c] = q /\ valid'[c]
        <3>1. \A q \in Procs : \A c \in held[q] : c \in Bufs
            BY DEF TypeOK
        <3> QED BY <3>1, <1>2, <1>3 DEF Locks
    <2>2. \A q \in Procs : pc'[q] = "bread" \/ InIde(q)' => pc[q] = "bread" \/ InIde(q)
        BY <1>5, <1>6
    <2> QED BY <2>1, <2>2, <1>2 DEF Locks
<1>16. Clean'
    <2> SUFFICES ASSUME NEW c \in Bufs
                 PROVE  /\ dirty'[c] => valid'[c]
                        /\ valid'[c] => blockno[c] \in Blocks
                        /\ valid'[c] /\ ~dirty'[c] => data'[c] = disk'[blockno[c]]
        BY <1>2 DEF Clean, Done
    <2>1. CASE c = b
        BY <2>1, <1>2
    <2>2. CASE c # b
        <3>1. valid[c] => blockno[c] # blockno[b]
            BY <2>2, <1>2, BufAssumption DEF Clean, OneBufferPerBlock
        <3>2. /\ dirty[c] => valid[c]
              /\ valid[c] => blockno[c] \in Blocks
              /\ valid[c] /\ ~dirty[c] => data[c] = disk[blockno[c]]
            BY DEF Clean, Done
        <3> QED BY <2>2, <3>1, <3>2, <1>3
    <2> QED BY <2>1, <2>2
<1>17. Queue'
    <2>1. \A i, j \in 1 .. n - 1 : idequeue'[i] = idequeue'[j] => i = j
        <3> SUFFICES ASSUME NEW i \in 1 .. n - 1, NEW j \in 1 .. n - 1, idequeue'[i] = idequeue'[j]
                     PROVE  i = j
            OBVIOUS
        <3>1. idequeue[i + 1] = idequeue[j + 1] /\ i + 1 \in 1 .. n /\ j + 1 \in 1 .. n
            BY <1>4
        <3>2. i + 1 = j + 1
            BY <3>1 DEF Queue, n
        <3> QED BY <3>2, <1>4
    <2>2. ASSUME NEW i \in 1 .. n - 1
          PROVE  ~(valid'[idequeue'[i]] /\ ~dirty'[idequeue'[i]]) /\ \E q \in Procs : InIde(q)' /\ cur[q] = idequeue'[i]
        BY <2>2, <1>3, <1>6, <1>7 DEF Done
    <2>3. ASSUME NEW q \in Procs, InIde(q)'
          PROVE  /\ ~(valid'[cur[q]] /\ ~dirty'[cur[q]]) => \E i \in 1 .. n - 1 : idequeue'[i] = cur[q]
                 /\ pc'[q] = "iderw_sleep" => ~(valid'[cur[q]] /\ ~dirty'[cur[q]])
        <3>1. InIde(q) /\ cur[q] \in Bufs
            BY <2>3, <1>6, AtWork DEF InIde
        <3>2. CASE cur[q] = b
            BY <3>1, <3>2, <1>2, <1>5
        <3>3. CASE cur[q] # b
            <4>1. (valid'[cur[q]] /\ ~dirty'[cur[q]]) <=> Done(cur[q])
                BY <3>1, <3>3, <1>3 DEF Done
            <4>2. ASSUME ~Done(cur[q]) PROVE \E i \in 1 .. n - 1 : idequeue'[i] = cur[q]
                <5>1. PICK j \in 1 .. n : idequeue[j] = cur[q]
                    BY <4>2, <3>1 DEF Queue, Queued, n
                <5>2. j # 1
                    BY <5>1, <3>3, <1>1
                <5>3. j - 1 \in 1 .. n - 1 /\ (j - 1) + 1 = j
                    BY <5>1, <5>2, <1>4
                <5>4. idequeue'[j - 1] = idequeue[(j - 1) + 1]
                    BY <5>3, <1>4
                <5> QED BY <5>1, <5>3, <5>4
            <4>3. pc'[q] = "iderw_sleep" => ~Done(cur[q])
                BY <3>3, <1>5 DEF Queue
            <4> QED BY <4>1, <4>2, <4>3
        <3> QED BY <3>2, <3>3
    <2>4. \A q \in Procs : pc'[q] = "iderw_sleep" => InIde(q)'
        BY DEF InIde
    <2>5. Len(idequeue') = n - 1
        BY <1>4
    <2> QED BY <2>1, <2>2, <2>3, <2>4, <2>5, <1>2, <1>8 DEF Queue, Queued, Done
<1>18. Pins'
    <2>1. Pinned' \subseteq Pinned
        BY <1>2, <1>3, <1>6 DEF Pinned
    <2>2. Pinned \in SUBSET Bufs
        BY DEF Pinned
    <2>3. IsFiniteSet(Pinned) /\ Cardinality(Pinned) \in Nat
        BY <2>2, BufsFinite
    <2>4. Cardinality(Pinned') <= Cardinality(Pinned) /\ Cardinality(Pinned') \in Nat
        <3> DEFINE S == Pinned'
        <3> HIDE DEF S
        <3>1. S \subseteq Pinned
            BY <2>1 DEF S
        <3>2. Cardinality(S) <= Cardinality(Pinned) /\ IsFiniteSet(S)
            BY <3>1, <2>3, FS_Subset
        <3> QED BY <3>2, FS_CardinalityType DEF S
    <2> QED BY <2>3, <2>4, BufAssumption DEF Pins
<1>19. \A q \in Procs : pc'[q] = "lock_sleep" => owner'[cur'[q]] # NONE
    BY <1>2, <1>5
<1> QED BY <1>10, <1>12, <1>13, <1>14, <1>15, <1>16, <1>17, <1>18, <1>19

----------------------------------------------------------------------------
(* A step that changes nothing keeps the invariant.                        *)
LEMMA StutterKeeps ==
    ASSUME BufIInv, UNCHANGED vars
    PROVE  BufIInv'
<1>1. /\ lru' = lru /\ blockno' = blockno /\ valid' = valid /\ dirty' = dirty
      /\ refcnt' = refcnt /\ data' = data /\ disk' = disk /\ idequeue' = idequeue /\ req' = req
      /\ cur' = cur /\ held' = held /\ panic' = panic /\ owner' = owner /\ pc' = pc
    BY DEF vars, buf, ide, local
<1>2. /\ \A b : Users(b)' = Users(b) /\ (Done(b)' <=> Done(b)) /\ (Queued(b)' <=> Queued(b))
      /\ \A p : Mine(p)' = Mine(p) /\ (InIde(p)' <=> InIde(p))
    BY <1>1 DEF Users, Done, Queued, Mine, InIde
<1>3. Pinned' = Pinned
    BY <1>1, <1>2 DEF Pinned
<1>4. TypeOK' /\ OneBufferPerBlock' /\ NoPanic'
    BY <1>1 DEF BufIInv, TypeOK, OneBufferPerBlock, NoPanic
<1>5. RefcountExact' /\ Pins'
    BY <1>1, <1>2, <1>3 DEF BufIInv, RefcountExact, Pins
<1>6. Cursor' /\ Locks' /\ Clean'
    BY <1>1, <1>2 DEF BufIInv, Cursor, Locks, Clean, Done
<1>7. Queue'
    BY <1>1, <1>2 DEF BufIInv, Queue, Done
<1> QED BY <1>1, <1>4, <1>5, <1>6, <1>7 DEF BufIInv

(* The invariant holds in every reachable state.                           *)
LEMMA Inductive == Spec => []BufIInv
<1>1. BufIInv /\ [Next]_vars => BufIInv'
    <2> SUFFICES ASSUME BufIInv, [Next]_vars PROVE BufIInv'
        OBVIOUS
    <2>1. CASE ideintr
        BY <2>1, IntrKeeps
    <2>2. ASSUME NEW p \in Procs, Kernel(p) PROVE BufIInv'
        BY <2>2, AcquireKeeps, SleepersKeep, BreadReturnsKeep, BreadInvalidKeeps, BrelseKeeps DEF Kernel
    <2>3. ASSUME NEW p \in Procs, Caller(p) PROVE BufIInv'
        BY <2>3, CachedKeeps, RecycleKeeps, ReleaseKeeps, BwriteKeeps, LogWriteKeeps DEF Caller
    <2>4. ASSUME NEW p \in Procs, kill(p) PROVE BufIInv'
        BY <2>4, SleepersKeep
    <2>5. CASE UNCHANGED vars
        BY <2>5, StutterKeeps
    <2> QED BY <2>1, <2>2, <2>3, <2>4, <2>5 DEF Next
<1> QED BY <1>1, InitBufIInv, PTL DEF Spec

(* bget, brelse, bread and bwrite with any number of processes and buffers:*)
(* counts are exact, no block is cached twice, bget always finds a buffer, *)
(* iderw never panics, and a sleeper has the lock's holder or its own      *)
(* queued request to wake it.                                              *)
THEOREM CacheIsSound == Spec => []BufInv
<1>1. BufIInv => BufInv
    <2> SUFFICES ASSUME BufIInv PROVE SleepersHaveReason
        BY DEF BufIInv, BufInv
    <2>1. \A p \in Procs : pc[p] = "iderw_sleep" => \E i \in DOMAIN idequeue : idequeue[i] = cur[p]
        <3>1. DOMAIN idequeue = 1 .. Len(idequeue)
            BY DEF BufIInv, TypeOK
        <3>2. ASSUME NEW p \in Procs, pc[p] = "iderw_sleep" PROVE Queued(cur[p])
            BY <3>2 DEF BufIInv, Queue, InIde
        <3> QED BY <3>1, <3>2 DEF Queued
    <2>2. idequeue # <<>> => req # NONE
        <3> SUFFICES ASSUME idequeue # <<>> PROVE req # NONE
            OBVIOUS
        <3>1. PICK b : b = idequeue[1]
            OBVIOUS
        <3>2. req = [block |-> blockno[b], write |-> dirty[b], data |-> data[b]]
            BY <3>1 DEF BufIInv, Queue
        <3>3. 1 \in 1 .. Len(idequeue)
            BY DEF BufIInv, TypeOK
        <3>4. b \in Bufs /\ \E q \in Procs : InIde(q) /\ cur[q] = b
            BY <3>1, <3>3, QueuedFacts
        <3>5. PICK q \in Procs : InIde(q) /\ cur[q] = b
            BY <3>4
        <3>6. b \in Mine(q)
            BY <3>5, AtWork DEF InIde, BufIInv
        <3>7. blockno[b] \in Blocks
            BY <3>6 DEF BufIInv, Cursor
        <3>8. dirty[b] \in BOOLEAN /\ data[b] \in Values
            BY <3>4 DEF BufIInv, TypeOK
        <3>9. req \in Requests
            BY <3>2, <3>7, <3>8 DEF Requests
        <3> QED BY <3>9, NoneAssumption
    <2> QED BY <2>1, <2>2 DEF SleepersHaveReason, BufIInv
<1> QED BY <1>1, Inductive, PTL

----------------------------------------------------------------------------
(* What the callers see, without the choices in Content and Lent.          *)
Shows ==
    /\ \A b \in Bufs : valid[b] => Content(blockno[b]) = data[b]
    /\ \A k \in Blocks : (\A b \in Bufs : valid[b] => blockno[b] # k) => Content(k) = disk[k]
    /\ \A p \in Procs : \A b \in held[p] : Lent(blockno[b]) = <<p, data[b]>>
    /\ \A k \in Blocks : (\A p \in Procs : \A b \in held[p] : blockno[b] # k) => Lent(k) = NONE

(* No two buffers that are handed out have the same block.                 *)
LEMMA HeldOnce ==
    ASSUME BufIInv, NEW p \in Procs, NEW q \in Procs, NEW b \in held[p], NEW c \in held[q],
           blockno[b] = blockno[c]
    PROVE  p = q /\ b = c
<1> USE DEF BufIInv
<1>1. b \in Bufs /\ c \in Bufs /\ owner[b] = p /\ owner[c] = q /\ valid[b]
    BY DEF TypeOK, Locks
<1>2. blockno[b] # NONE
    BY <1>1, BufAssumption DEF Clean
<1>3. b = c
    BY <1>1, <1>2 DEF OneBufferPerBlock
<1> QED BY <1>1, <1>3

(* The invariant makes the choices in Content and Lent unique.             *)
LEMMA View == BufIInv => Shows
<1> SUFFICES ASSUME BufIInv PROVE Shows
    OBVIOUS
<1> USE DEF BufIInv
<1>1. ASSUME NEW b \in Bufs, valid[b] PROVE Content(blockno[b]) = data[b]
    <2> DEFINE k == blockno[b]
               d == CHOOSE c \in Cached(k) : valid[c]
    <2>1. k # NONE
        BY <1>1, BufAssumption DEF Clean
    <2>2. b \in Cached(k) /\ \A c \in Cached(k) : c \in Bufs /\ blockno[c] = k
        BY DEF Cached
    <2> HIDE DEF k
    <2>3. d \in Cached(k) /\ valid[d]
        BY <1>1, <2>2
    <2>4. d = b
        <3> HIDE DEF d
        <3> QED BY <2>1, <2>2, <2>3 DEF OneBufferPerBlock
    <2>5. Content(k) = data[d]
        BY <1>1, <2>2 DEF Content
    <2> QED BY <2>4, <2>5 DEF k
<1>2. ASSUME NEW k \in Blocks, \A b \in Bufs : valid[b] => blockno[b] # k PROVE Content(k) = disk[k]
    BY <1>2 DEF Content, Cached
<1>3. ASSUME NEW p \in Procs, NEW b \in held[p] PROVE Lent(blockno[b]) = <<p, data[b]>>
    <2> DEFINE k == blockno[b]
               P == CHOOSE q \in Procs : \E c \in held[q] : blockno[c] = k
               B == CHOOSE c \in held[P] : blockno[c] = k
    <2> HIDE DEF k
    <2>1. \E q \in Procs : \E c \in held[q] : blockno[c] = k
        BY <1>3 DEF k
    <2>2. P \in Procs /\ \E c \in held[P] : blockno[c] = k
        BY <2>1
    <2>3. B \in held[P] /\ blockno[B] = k
        <3> HIDE DEF P
        <3> QED BY <2>2
    <2>4. P = p /\ B = b
        <3> HIDE DEF P, B
        <3> QED BY <1>3, <2>2, <2>3, HeldOnce DEF k
    <2>5. Lent(k) = <<P, data[B]>>
        BY <2>1 DEF Lent
    <2> QED BY <2>4, <2>5 DEF k
<1>4. ASSUME NEW k \in Blocks, \A p \in Procs : \A b \in held[p] : blockno[b] # k PROVE Lent(k) = NONE
    BY <1>4 DEF Lent
<1> QED BY <1>1, <1>2, <1>3, <1>4 DEF Shows

(* Nothing is lent at first, and every block has a content.                *)
LEMMA InitRefines == Init => Store!TypeInit
<1> SUFFICES ASSUME Init PROVE Store!TypeInit
    OBVIOUS
<1>1. BufIInv /\ Shows
    BY InitBufIInv, View
<1>2. \A k \in Blocks : Content(k) = disk[k] /\ disk[k] \in Values /\ Lent(k) = NONE
    BY <1>1 DEF Shows, Init, BufIInv, TypeOK
<1> QED BY <1>2 DEF Store!TypeInit

(* The two functions of the abstract store.                                *)
contents == [k \in Blocks |-> Content(k)]
lending == [k \in Blocks |-> Lent(k)]

(* A block whose holder stays, with the same content, stays lent.          *)
LEMMA SameLent ==
    ASSUME Shows, Shows', NEW j \in Blocks,
           \A q \in Procs : \A c \in held[q] :
              blockno[c] = j => c \in held'[q] /\ blockno'[c] = j /\ data'[c] = data[c],
           \A q \in Procs : \A c \in held'[q] : blockno'[c] = j => c \in held[q] /\ blockno[c] = j
    PROVE  Lent(j)' = Lent(j)
<1>1. ASSUME NEW q \in Procs, NEW c \in held[q], blockno[c] = j PROVE Lent(j)' = Lent(j)
    <2>1. Lent(j) = <<q, data[c]>>
        BY <1>1 DEF Shows
    <2>2. c \in held'[q] /\ blockno'[c] = j /\ data'[c] = data[c]
        BY <1>1
    <2>3. Lent(j)' = <<q, data'[c]>>
        BY <2>2 DEF Shows
    <2> QED BY <2>1, <2>2, <2>3
<1>2. CASE \A q \in Procs : \A c \in held[q] : blockno[c] # j
    BY <1>2 DEF Shows
<1> QED BY <1>1, <1>2

(* Steps that change no content, no block and nobody's buffers are not     *)
(* seen.                                                                   *)
LEMMA Unseen ==
    ASSUME blockno' = blockno, valid' = valid, data' = data, disk' = disk, held' = held
    PROVE  contents' = contents /\ lending' = lending
<1>1. \A k : Cached(k)' = Cached(k)
    BY DEF Cached
<1>2. \A k : Content(k)' = Content(k)
    BY <1>1 DEF Content
<1>3. \A k : Lent(k)' = Lent(k)
    BY DEF Lent
<1> QED BY <1>2, <1>3 DEF contents, lending

(* Recycling a buffer is not seen either: what was in it is on the disk.   *)
LEMMA RecycleUnseen ==
    ASSUME BufIInv, Shows, BufIInv', Shows', NEW p \in Procs, NEW k \in Blocks, bget_recycle(p, k)
    PROVE  contents' = contents /\ lending' = lending
<1> USE DEF BufIInv
<1>1. /\ pc[p] = "run" /\ Cardinality(held[p]) < MaxHeld[p] /\ Cached(k) = {}
    BY DEF bget_recycle, Recycle, MayAsk, At
<1>2. Recyclable # {}
    BY <1>1, SomeRecyclable
<1>3. PICK i \in Recyclable :
         /\ blockno' = [blockno EXCEPT ![lru[i]] = k]
         /\ valid' = [valid EXCEPT ![lru[i]] = FALSE]
         /\ Found(p, lru[i])
         /\ data' = data
    BY <1>2 DEF bget_recycle, Recycle
<1>4. PICK b \in Bufs : b = lru[i] /\ refcnt[b] = 0 /\ ~dirty[b]
    BY <1>3 DEF Recyclable, TypeOK
<1>5. Users(b) = {}
    <2>1. Cardinality(Users(b)) = 0 /\ IsFiniteSet(Users(b))
        BY <1>4, UsersMine DEF RefcountExact
    <2> QED BY <2>1, FS_EmptySet
<1>6. \A q \in Procs : b \notin held[q] /\ held[q] \subseteq Bufs
    BY <1>5 DEF Users, TypeOK
<1>7. held' = held /\ disk' = disk
    BY <1>3 DEF Found, ide
<1>8. /\ blockno'[b] = k /\ \A c \in Bufs : c # b => blockno'[c] = blockno[c]
      /\ ~valid'[b] /\ \A c \in Bufs : c # b => valid'[c] = valid[c]
    <2>1. blockno \in [Bufs -> Blocks \cup {NONE}] /\ valid \in [Bufs -> BOOLEAN]
        BY DEF TypeOK
    <2> QED BY <2>1, <1>3, <1>4
<1>9. ASSUME NEW j \in Blocks PROVE Content(j)' = Content(j)
    <2>1. CASE \E c \in Bufs : c # b /\ valid[c] /\ blockno[c] = j
        <3>1. PICK c \in Bufs : c # b /\ valid[c] /\ blockno[c] = j
            BY <2>1
        <3>2. Content(j) = data[c]
            BY <3>1 DEF Shows
        <3>3. valid'[c] /\ blockno'[c] = j
            BY <3>1, <1>8
        <3>4. Content(j)' = data'[c]
            BY <3>1, <3>3 DEF Shows
        <3> QED BY <3>2, <3>4, <1>3
    <2>2. CASE \A c \in Bufs : c # b /\ valid[c] => blockno[c] # j
        <3>1. Content(j)' = disk[j]
            <4>1. \A c \in Bufs : valid'[c] => blockno'[c] # j
                BY <2>2, <1>8
            <4> QED BY <4>1, <1>7 DEF Shows
        <3>2. CASE valid[b] /\ blockno[b] = j
            <4>1. Content(j) = data[b]
                BY <3>2 DEF Shows
            <4>2. data[b] = disk[j]
                BY <3>2, <1>4 DEF Clean, Done
            <4> QED BY <3>1, <4>1, <4>2
        <3>3. CASE ~(valid[b] /\ blockno[b] = j)
            <4>1. \A c \in Bufs : valid[c] => blockno[c] # j
                BY <2>2, <3>3
            <4> QED BY <4>1, <3>1 DEF Shows
        <3> QED BY <3>2, <3>3
    <2> QED BY <2>1, <2>2
<1>10. \A q \in Procs : \A c \in held[q] : blockno'[c] = blockno[c]
    BY <1>6, <1>8
<1>11. \A j \in Blocks : Lent(j)' = Lent(j)
    BY <1>3, <1>7, <1>10, SameLent
<1> QED BY <1>9, <1>11 DEF contents, lending

(* Nor is the interrupt: it writes what callers see, or reads what they    *)
(* would have seen.                                                        *)
LEMMA IntrUnseen ==
    ASSUME BufIInv, Shows, BufIInv', Shows', ideintr
    PROVE  contents' = contents /\ lending' = lending
<1> USE DEF BufIInv
<1>1. PICK b : b = idequeue[1]
    OBVIOUS
<1>2. /\ b \in Bufs /\ blockno[b] \in Blocks /\ idequeue # <<>>
      /\ blockno' = blockno /\ held' = held
      /\ valid'[b] /\ ~dirty'[b] /\ data'[b] = disk'[blockno[b]]
      /\ (dirty[b] => data'[b] = data[b]) /\ (~dirty[b] => disk' = disk)
    BY <1>1, IntrFacts
<1>3. /\ \A c \in Bufs : c # b => valid'[c] = valid[c] /\ data'[c] = data[c]
      /\ \A j \in Blocks : j # blockno[b] => disk'[j] = disk[j]
    BY <1>1, IntrFacts
<1>4. ~valid[b] \/ dirty[b]
    <2>1. 1 \in 1 .. Len(idequeue)
        BY <1>2 DEF TypeOK
    <2> QED BY <1>1, <2>1 DEF Queue, Done
<1>5. \A c \in Bufs : blockno[c] = blockno[b] => c = b
    BY <1>2, BufAssumption DEF OneBufferPerBlock
<1>6. ASSUME NEW j \in Blocks PROVE Content(j)' = Content(j)
    <2>1. CASE j = blockno[b]
        <3>1. Content(j)' = data'[b]
            BY <2>1, <1>2 DEF Shows
        <3>2. CASE dirty[b]
            <4>1. valid[b]
                BY <3>2, <1>2 DEF Clean
            <4>2. Content(j) = data[b]
                BY <2>1, <4>1, <1>2 DEF Shows
            <4> QED BY <3>1, <3>2, <4>2, <1>2
        <3>3. CASE ~dirty[b]
            <4>1. \A c \in Bufs : valid[c] => blockno[c] # j
                BY <2>1, <3>3, <1>4, <1>5
            <4>2. Content(j) = disk[j]
                BY <4>1 DEF Shows
            <4> QED BY <2>1, <3>1, <3>3, <4>2, <1>2
        <3> QED BY <3>2, <3>3
    <2>2. CASE j # blockno[b]
        <3>1. CASE \E c \in Bufs : valid[c] /\ blockno[c] = j
            <4>1. PICK c \in Bufs : valid[c] /\ blockno[c] = j /\ c # b
                BY <2>2, <3>1
            <4>2. Content(j) = data[c]
                BY <4>1 DEF Shows
            <4>3. valid'[c] /\ blockno'[c] = j /\ data'[c] = data[c]
                BY <4>1, <1>2, <1>3
            <4>4. Content(j)' = data'[c]
                BY <4>1, <4>3 DEF Shows
            <4> QED BY <4>2, <4>3, <4>4
        <3>2. CASE \A c \in Bufs : valid[c] => blockno[c] # j
            <4>1. \A c \in Bufs : valid'[c] => blockno'[c] # j
                BY <2>2, <3>2, <1>2, <1>3
            <4>2. Content(j) = disk[j] /\ Content(j)' = disk'[j]
                BY <3>2, <4>1 DEF Shows
            <4> QED BY <2>2, <4>2, <1>3
        <3> QED BY <3>1, <3>2
    <2> QED BY <2>1, <2>2
<1>7. \A q \in Procs : \A c \in held[q] : data'[c] = data[c]
    <2>1. \A q \in Procs : \A c \in held[q] : c \in Bufs /\ valid[c]
        BY DEF TypeOK, Locks
    <2> QED BY <2>1, <1>2, <1>3, <1>4
<1>8. \A j \in Blocks : Lent(j)' = Lent(j)
    BY <1>2, <1>7, SameLent
<1> QED BY <1>6, <1>8 DEF contents, lending

(* bread that returns a buffer for the first time gets the block; the end  *)
(* of bwrite is not seen.                                                  *)
LEMMA ReturnSeen ==
    ASSUME BufIInv, Shows, BufIInv', Shows', NEW p \in Procs, Return(p),
           pc[p] \in {"bread", "iderw"}, valid[cur[p]]
    PROVE  (contents' = contents /\ lending' = lending) \/ \E k \in Blocks : Store!Get(p, k)
<1> USE DEF BufIInv
<1>1. blockno' = blockno /\ valid' = valid /\ data' = data /\ disk' = disk
    BY DEF Return, buf, ide
<1>2. PICK c \in Bufs : c = cur[p]
    BY AtWork
<1>3. c \in Mine(p)
    BY <1>2, AtWork
<1>4. PICK k \in Blocks : k = blockno[c]
    BY <1>3 DEF Cursor
<1>5. owner[c] = p /\ valid[c]
    BY <1>2 DEF Locks, InIde
<1>6. held' = [held EXCEPT ![p] = held[p] \cup {c}] /\ held \in [Procs -> SUBSET Bufs]
    BY <1>2 DEF Return, TypeOK
<1>7. CASE c \in held[p]
    <2>1. held' = held
        BY <1>6, <1>7
    <2> QED BY <2>1, <1>1, Unseen
<1>8. CASE c \notin held[p]
    <2>1. held'[p] = held[p] \cup {c} /\ \A q \in Procs : q # p => held'[q] = held[q]
        BY <1>6
    <2>2. ASSUME NEW q \in Procs, NEW d \in held[q] PROVE blockno[d] # k
        <3> SUFFICES ASSUME blockno[d] = k PROVE FALSE
            OBVIOUS
        <3>1. d \in Bufs /\ owner[d] = q
            BY <1>6 DEF Locks
        <3>2. d = c
            BY <3>1, <1>4, BufAssumption DEF OneBufferPerBlock
        <3> QED BY <3>1, <3>2, <1>5, <1>8
    <2>3. Lent(k) = NONE
        BY <2>2 DEF Shows
    <2>4. Lent(k)' = <<p, data[c]>>
        <3>1. c \in held'[p] /\ blockno'[c] = k /\ data'[c] = data[c]
            BY <2>1, <1>1, <1>4
        <3> QED BY <3>1 DEF Shows
    <2>5. Content(k) = data[c]
        BY <1>4, <1>5 DEF Shows
    <2>6. ASSUME NEW j \in Blocks, j # k PROVE Lent(j)' = Lent(j)
        <3>1. \A q \in Procs : \A d \in held[q] : d \in held'[q]
            BY <2>1
        <3>2. \A q \in Procs : \A d \in held'[q] : blockno[d] = j => d \in held[q]
            BY <2>1, <2>6, <1>4
        <3> QED BY <3>1, <3>2, <1>1, SameLent
    <2>7. contents' = contents
        <3>1. \A j : Cached(j)' = Cached(j)
            BY <1>1 DEF Cached
        <3>2. \A j : Content(j)' = Content(j)
            BY <3>1, <1>1 DEF Content
        <3> QED BY <3>2 DEF contents
    <2>8. lending[k] = NONE /\ contents[k] = data[c]
        BY <2>3, <2>5 DEF lending, contents
    <2>9. lending' = [lending EXCEPT ![k] = <<p, contents[k]>>]
        BY <2>4, <2>6, <2>8 DEF lending
    <2>10. Store!Get(p, k)
        BY <2>7, <2>8, <2>9 DEF Store!Get, contents, lending
    <2> QED BY <2>10
<1> QED BY <1>7, <1>8

(* releasesleep gives the block back.                                      *)
LEMMA ReleaseSeen ==
    ASSUME BufIInv, Shows, BufIInv', Shows', NEW p \in Procs, NEW b \in held[p], releasesleep(p, b)
    PROVE  \E k \in Blocks : Store!Return(p, k)
<1> USE DEF BufIInv
<1>1. blockno' = blockno /\ valid' = valid /\ data' = data /\ disk' = disk
    BY DEF releasesleep, buf, ide
<1>2. b \in Bufs /\ valid[b] /\ data[b] \in Values
    BY DEF TypeOK, Locks
<1>3. PICK k \in Blocks : k = blockno[b]
    BY <1>2 DEF Clean
<1>4. held'[p] = held[p] \ {b} /\ \A q \in Procs : q # p => held'[q] = held[q]
    <2>1. held' = [held EXCEPT ![p] = held[p] \ {b}] /\ held \in [Procs -> SUBSET Bufs]
        BY DEF releasesleep, TypeOK
    <2> QED BY <2>1
<1>5. Lent(k) = <<p, data[b]>>
    BY <1>3 DEF Shows
<1>6. Lent(k)' = NONE
    <2>1. ASSUME NEW q \in Procs, NEW d \in held'[q] PROVE blockno[d] # k
        <3> SUFFICES ASSUME blockno[d] = k PROVE FALSE
            OBVIOUS
        <3>1. d \in held[q]
            BY <2>1, <1>4
        <3>2. q = p /\ d = b
            BY <3>1, <1>3, HeldOnce
        <3> QED BY <2>1, <3>2, <1>4
    <2> QED BY <2>1, <1>1 DEF Shows
<1>7. ASSUME NEW j \in Blocks, j # k PROVE Lent(j)' = Lent(j)
    <2>1. \A q \in Procs : \A d \in held'[q] : d \in held[q]
        BY <1>4
    <2>2. \A q \in Procs : \A d \in held[q] : blockno[d] = j => d \in held'[q]
        BY <1>3, <1>4, <1>7
    <2> QED BY <2>1, <2>2, <1>1, SameLent
<1>8. contents' = contents
    <2>1. \A j : Cached(j)' = Cached(j)
        BY <1>1 DEF Cached
    <2>2. \A j : Content(j)' = Content(j)
        BY <2>1, <1>1 DEF Content
    <2> QED BY <2>2 DEF contents
<1>9. lending[k] = <<p, data[b]>> /\ lending[k] # NONE /\ lending[k][1] = p
    BY <1>2, <1>5, NoneAssumption DEF lending
<1>10. lending' = [lending EXCEPT ![k] = NONE]
    BY <1>6, <1>7 DEF lending
<1>11. Store!Return(p, k)
    BY <1>8, <1>9, <1>10 DEF Store!Return, contents, lending
<1> QED BY <1>11

(* bwrite and log_write change the block that their caller has.            *)
LEMMA ChangeSeen ==
    ASSUME BufIInv, Shows, BufIInv', Shows', NEW p \in Procs, NEW b \in held[p], NEW v \in Values,
           bwrite(p, b, v) \/ log_write(p, b, v)
    PROVE  \E k \in Blocks : Store!Change(p, k, v)
<1> USE DEF BufIInv
<1>1. blockno' = blockno /\ valid' = valid /\ disk' = disk /\ held' = held
      /\ data' = [data EXCEPT ![b] = v] /\ dirty' = [dirty EXCEPT ![b] = TRUE]
    BY DEF bwrite, iderw, log_write, ide, local
<1>2. /\ b \in Bufs /\ valid[b] /\ data'[b] = v
      /\ \A c \in Bufs : c # b => data'[c] = data[c]
    BY <1>1, ChangeFacts
<1>3. data[b] \in Values
    BY <1>2 DEF TypeOK
<1>4. PICK k \in Blocks : k = blockno[b]
    BY <1>2 DEF Clean
<1>5. Lent(k) = <<p, data[b]>>
    BY <1>4 DEF Shows
<1>6. Lent(k)' = <<p, v>>
    <2>1. b \in held'[p] /\ blockno'[b] = k /\ data'[b] = v
        BY <1>1, <1>2, <1>4
    <2> QED BY <2>1 DEF Shows
<1>7. Content(k)' = v
    <2>1. valid'[b] /\ blockno'[b] = k /\ data'[b] = v
        BY <1>1, <1>2, <1>4
    <2> QED BY <2>1, <1>2 DEF Shows
<1>8. ASSUME NEW j \in Blocks, j # k PROVE Lent(j)' = Lent(j)
    <2>1. \A q \in Procs : \A c \in held[q] : blockno[c] = j => c \in Bufs /\ c # b
        BY <1>4, <1>8 DEF TypeOK
    <2> QED BY <2>1, <1>1, <1>2, SameLent
<1>9. ASSUME NEW j \in Blocks, j # k PROVE Content(j)' = Content(j)
    <2>1. ASSUME NEW c \in Bufs, valid[c], blockno[c] = j PROVE Content(j)' = Content(j)
        <3>1. c # b
            BY <2>1, <1>4, <1>9
        <3>2. valid'[c] /\ blockno'[c] = j /\ data'[c] = data[c]
            BY <2>1, <3>1, <1>1, <1>2
        <3>3. Content(j) = data[c] /\ Content(j)' = data'[c]
            BY <2>1, <3>2 DEF Shows
        <3> QED BY <3>2, <3>3
    <2>2. CASE \A c \in Bufs : valid[c] => blockno[c] # j
        BY <2>2, <1>1 DEF Shows
    <2> QED BY <2>1, <2>2
<1>10. lending[k] = <<p, data[b]>> /\ lending[k] # NONE /\ lending[k][1] = p
    BY <1>3, <1>5, NoneAssumption DEF lending
<1>11. lending' = [lending EXCEPT ![k] = <<p, v>>] /\ contents' = [contents EXCEPT ![k] = v]
    BY <1>6, <1>7, <1>8, <1>9 DEF lending, contents
<1>12. Store!Change(p, k, v)
    BY <1>10, <1>11 DEF Store!Change, contents, lending
<1> QED BY <1>12

(* The cache, the sleep locks and the disk queue together are a store of   *)
(* blocks that are lent to one process at a time and never lose a change,  *)
(* whatever is recycled, queued or killed in between.                      *)
THEOREM CacheIsBlockStore == Spec => ImplementsBlockStore
<1> DEFINE Sees == contents' = contents /\ lending' = lending
<1>1. BufIInv /\ Shows /\ BufIInv' /\ Shows' /\ [Next]_vars => [Store!Next]_<<contents, lending>>
    <2> SUFFICES ASSUME BufIInv, Shows, BufIInv', Shows', [Next]_vars
                 PROVE  Store!Next \/ Sees
        OBVIOUS
    <2>1. CASE ideintr
        BY <2>1, IntrUnseen
    <2>2. ASSUME NEW p \in Procs, Kernel(p) PROVE Store!Next \/ Sees
        <3>1. CASE \/ acquiresleep(p) \/ acquiresleep_sleep(p) \/ bread_invalid(p)
                   \/ iderw_again(p) \/ brelse(p)
            <4>1. blockno' = blockno /\ valid' = valid /\ data' = data /\ disk' = disk /\ held' = held
                BY <3>1 DEF acquiresleep, acquiresleep_sleep, bread_invalid, iderw, iderw_again, brelse, buf, ide, local
            <4> QED BY <4>1, Unseen
        <3>2. CASE bread_valid(p) \/ iderw_done(p)
            <4>1. Sees \/ \E k \in Blocks : Store!Get(p, k)
                BY <3>2, ReturnSeen DEF bread_valid, iderw_done, At
            <4> QED BY <4>1 DEF Store!Next
        <3> QED BY <2>2, <3>1, <3>2 DEF Kernel
    <2>3. ASSUME NEW p \in Procs, Caller(p) PROVE Store!Next \/ Sees
        <3>1. ASSUME NEW k \in Blocks, bget_cached(p, k) PROVE Sees
            <4>1. blockno' = blockno /\ valid' = valid /\ data' = data /\ disk' = disk /\ held' = held
                BY <3>1 DEF bget_cached, Found, ide
            <4> QED BY <4>1, Unseen
        <3>2. ASSUME NEW k \in Blocks, bget_recycle(p, k) PROVE Sees
            BY <3>2, RecycleUnseen
        <3>3. ASSUME NEW b \in held[p], releasesleep(p, b) PROVE Store!Next
            <4>1. \E k \in Blocks : Store!Return(p, k)
                BY <3>3, ReleaseSeen
            <4> QED BY <4>1 DEF Store!Next
        <3>4. ASSUME NEW b \in held[p], NEW v \in Values, bwrite(p, b, v) \/ log_write(p, b, v)
              PROVE  Store!Next
            <4>1. \E k \in Blocks : Store!Change(p, k, v)
                BY <3>4, ChangeSeen
            <4> QED BY <4>1 DEF Store!Next
        <3> QED BY <2>3, <3>1, <3>2, <3>3, <3>4 DEF Caller
    <2>4. ASSUME NEW p \in Procs, kill(p) PROVE Sees
        <3>1. blockno' = blockno /\ valid' = valid /\ data' = data /\ disk' = disk /\ held' = held
            BY <2>4 DEF kill, buf, ide, local
        <3> QED BY <3>1, Unseen
    <2>5. CASE UNCHANGED vars
        <3>1. blockno' = blockno /\ valid' = valid /\ data' = data /\ disk' = disk /\ held' = held
            BY <2>5 DEF vars, buf, ide, local
        <3> QED BY <3>1, Unseen
    <2> QED BY <2>1, <2>2, <2>3, <2>4, <2>5 DEF Next
<1> QED BY <1>1, InitRefines, Inductive, View, PTL DEF Spec, ImplementsBlockStore, Store!Spec, contents, lending
=============================================================================
