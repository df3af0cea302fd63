----------------------------- MODULE LogProofs -----------------------------
(***************************************************************************)
(* Theorems about the redo log (Log), for any number of processes, blocks  *)
(* and contents and any sizes that satisfy SizeAssumption.                 *)
(*                                                                         *)
(* LogInv is not inductive: that no call meets a full log rests on what    *)
(* begin_op reserved and the calls have not used yet (Reserved), and that  *)
(* a quiescent disk is durable on what every stage of a commit and of a    *)
(* recovery has already written (LogState).                                *)
(***************************************************************************)
EXTENDS Log, TLAPS, FiniteSetTheorems, SequenceTheorems

CommitLabels == {"commit", "write_log", "write_head", "install", "committed"}

Ops == {p \in Procs : pc[p] = "op"}

NoDups(s) == \A i, j \in 1 .. Len(s) : s[i] = s[j] => i = j

(* CommitIsAlone without cardinalities of the committers.                  *)
Alone ==
    /\ committing => \E p \in Procs : pc[p] \in CommitLabels
    /\ \A p \in Procs : pc[p] \in CommitLabels => committing
    /\ \A p, q \in Procs : pc[p] \in CommitLabels /\ pc[q] \in CommitLabels => p = q
    /\ committing => outstanding = 0
    /\ outstanding = Cardinality(Ops)

(* A block is listed once, in memory and on the disk, and the header on    *)
(* the disk fits the one in memory.                                        *)
Distinct == NoDups(lh) /\ NoDups(dhead) /\ Len(dhead) <= LOGSIZE

(* What initlog finds and has done so far.                                 *)
Recovery ==
    /\ boot # "up" => /\ \A p \in Procs : pc[p] = "idle"
                      /\ outstanding = 0
                      /\ cache = disk
    /\ boot = "read_head" => tail = 0
    /\ boot = "install" => /\ lh = dhead /\ tail <= Len(lh)
                           /\ \A i \in 1 .. tail : disk[lh[i]] = dlog[i]

(* Only logged blocks differ from the disk, and only a commit that has     *)
(* written the header leaves one on the disk.                              *)
Running ==
    /\ boot = "up" => \A b \in Blocks : ~Contains(lh, b) => cache[b] = disk[b]
    /\ boot = "up" /\ (\A p \in Procs : pc[p] # "install") => dhead = <<>>
    /\ boot = "up" /\ ~committing /\ outstanding = 0 => lh = <<>>

(* What a commit has written at each of its stages.                        *)
Stages == \A p \in Procs :
    /\ pc[p] = "write_log" => /\ tail <= Len(lh)
                              /\ \A i \in 1 .. tail : dlog[i] = cache[lh[i]]
    /\ pc[p] \in {"write_head", "install"} => \A i \in 1 .. Len(lh) : dlog[i] = cache[lh[i]]
    /\ pc[p] = "install" => /\ dhead = lh /\ tail <= Len(lh)
                            /\ \A i \in 1 .. tail : disk[lh[i]] = dlog[i]
    /\ pc[p] = "committed" => lh = <<>>

(* The reserved blocks that the running calls may still write.             *)
SlotsOf(ops, w) == {t \in Procs \X (1 .. MAXOPBLOCKS) :
                      t[1] \in ops /\ t[2] <= MAXOPBLOCKS - Cardinality(w[t[1]])}

Slots == SlotsOf(Ops, wrote)

(* There is room for every reserved block, and one block to spare as soon  *)
(* as a call has ended without using its last one.                         *)
Reserved ==
    /\ Len(lh) + Cardinality(Slots) <= LOGSIZE
    /\ \A p \in Procs : /\ pc[p] # "op" => wrote[p] = {}
                        /\ Cardinality(wrote[p]) <= OpBlocks
                        /\ \A b \in wrote[p] : Contains(lh, b)
    /\ outstanding = 1 => \A p \in Procs : pc[p] = "op" =>
           \/ Len(lh) <= Cardinality(wrote[p])
           \/ Len(lh) + Cardinality(Slots) <= LOGSIZE - (MAXOPBLOCKS - OpBlocks)

LogIInv ==
    /\ TypeOK /\ NoPanic /\ Alone /\ SleeperHasWaker
    /\ Distinct /\ Recovery /\ Running /\ Stages /\ Reserved

----------------------------------------------------------------------------
(* The slots of a set of calls are finite in number, at most MAXOPBLOCKS   *)
(* each.                                                                   *)
LEMMA SlotsBound ==
    ASSUME NEW A \in SUBSET Procs, NEW w
    PROVE  /\ IsFiniteSet(A) /\ Cardinality(A) \in Nat
           /\ IsFiniteSet(SlotsOf(A, w)) /\ Cardinality(SlotsOf(A, w)) \in Nat
           /\ Cardinality(SlotsOf(A, w)) <= Cardinality(A) * MAXOPBLOCKS
<1>1. IsFiniteSet(A)
    BY LogAssumption, FS_Subset
<1>2. IsFiniteSet(1 .. MAXOPBLOCKS) /\ Cardinality(1 .. MAXOPBLOCKS) = MAXOPBLOCKS
    BY LogAssumption, FS_Interval
<1>3. IsFiniteSet(A \X (1 .. MAXOPBLOCKS)) /\ Cardinality(A \X (1 .. MAXOPBLOCKS)) = Cardinality(A) * MAXOPBLOCKS
    BY <1>1, <1>2, FS_Product
<1>4. SlotsOf(A, w) \subseteq A \X (1 .. MAXOPBLOCKS)
    BY DEF SlotsOf
<1> QED BY <1>1, <1>3, <1>4, FS_Subset, FS_CardinalityType

(* A call that ends gives back at least the block it must leave unused.    *)
LEMMA SlotsDrop ==
    ASSUME NEW A \in SUBSET Procs, NEW w, NEW v, NEW p \in A,
           Cardinality(w[p]) \in Nat, Cardinality(w[p]) <= OpBlocks,
           \A q \in Procs : q # p => v[q] = w[q]
    PROVE  Cardinality(SlotsOf(A \ {p}, v)) + (MAXOPBLOCKS - OpBlocks) <= Cardinality(SlotsOf(A, w))
<1> DEFINE D == MAXOPBLOCKS - OpBlocks
           Own == {p} \X (1 .. D)
           Rest == SlotsOf(A \ {p}, v)
<1>1. D \in Nat /\ D >= 1 /\ D <= MAXOPBLOCKS
    BY LogAssumption, SizeAssumption
<1>2. IsFiniteSet(Own) /\ Cardinality(Own) = D
    <2>1. IsFiniteSet(1 .. D) /\ Cardinality(1 .. D) = D
        <3> HIDE DEF D
        <3> QED BY <1>1, FS_Interval
    <2>2. IsFiniteSet({p}) /\ Cardinality({p}) = 1
        BY FS_Singleton
    <2>3. Cardinality(Own) = 1 * D /\ IsFiniteSet(Own)
        <3> HIDE DEF D
        <3>1. Cardinality(Own) = Cardinality({p}) * Cardinality(1 .. D) /\ IsFiniteSet(Own)
            BY <2>1, <2>2, FS_Product
        <3> HIDE DEF Own
        <3> QED BY <3>1, <2>1, <2>2
    <2> QED BY <2>3, <1>1
<1>3. IsFiniteSet(Rest) /\ Cardinality(Rest) \in Nat
    BY SlotsBound
<1>4. Rest \cap Own = {}
    BY DEF SlotsOf
<1>5. Rest \cup Own \subseteq SlotsOf(A, w)
    <2>1. Rest \subseteq SlotsOf(A, w)
        BY DEF SlotsOf
    <2>2. Own \subseteq SlotsOf(A, w)
        BY LogAssumption, SizeAssumption DEF SlotsOf
    <2> QED BY <2>1, <2>2
<1>6. Cardinality(Rest \cup Own) = Cardinality(Rest) + Cardinality(Own) - Cardinality(Rest \cap Own)
    BY <1>2, <1>3, FS_Union
<1>7. Cardinality(Rest \cap Own) = 0
    BY <1>4, FS_EmptySet
<1>8. Cardinality(Rest \cup Own) <= Cardinality(SlotsOf(A, w))
    BY <1>5, SlotsBound, FS_Subset
<1> HIDE DEF Own, Rest, D
<1>9. Cardinality(Rest) + D <= Cardinality(SlotsOf(A, w))
    BY <1>1, <1>2, <1>3, <1>6, <1>7, <1>8
<1> QED BY <1>9 DEF Rest, D

(* Two running calls hold two such blocks, one running call holds one.     *)
LEMMA SlotsHeld ==
    ASSUME NEW A \in SUBSET Procs, NEW w, NEW p \in A,
           \A q \in Procs : Cardinality(w[q]) \in Nat /\ Cardinality(w[q]) <= OpBlocks
    PROVE  /\ MAXOPBLOCKS - OpBlocks <= Cardinality(SlotsOf(A, w))
           /\ \A q \in A : q # p => 2 * (MAXOPBLOCKS - OpBlocks) <= Cardinality(SlotsOf(A, w))
<1>1. Cardinality(SlotsOf(A \ {p}, w)) + (MAXOPBLOCKS - OpBlocks) <= Cardinality(SlotsOf(A, w))
    BY SlotsDrop
<1>2. Cardinality(SlotsOf(A \ {p}, w)) \in Nat /\ Cardinality(SlotsOf(A, w)) \in Nat
    BY SlotsBound
<1>3. ASSUME NEW q \in A, q # p
      PROVE  MAXOPBLOCKS - OpBlocks <= Cardinality(SlotsOf(A \ {p}, w))
    <2>1. Cardinality(SlotsOf((A \ {p}) \ {q}, w)) + (MAXOPBLOCKS - OpBlocks) <= Cardinality(SlotsOf(A \ {p}, w))
        BY <1>3, SlotsDrop
    <2>2. Cardinality(SlotsOf((A \ {p}) \ {q}, w)) \in Nat
        BY SlotsBound
    <2> QED BY <2>1, <2>2, <1>2, LogAssumption
<1> QED BY <1>1, <1>2, <1>3, LogAssumption

(* A block that a call writes for the first time uses one slot.            *)
LEMMA SlotsTake ==
    ASSUME NEW A \in SUBSET Procs, NEW w, NEW v, NEW p \in A,
           Cardinality(w[p]) \in Nat, Cardinality(v[p]) = Cardinality(w[p]) + 1,
           Cardinality(v[p]) <= OpBlocks,
           \A q \in Procs : q # p => v[q] = w[q]
    PROVE  Cardinality(SlotsOf(A, v)) = Cardinality(SlotsOf(A, w)) - 1
<1> DEFINE t == <<p, MAXOPBLOCKS - Cardinality(w[p])>>
<1>1. t \in SlotsOf(A, w)
    BY LogAssumption DEF SlotsOf
<1>2. SlotsOf(A, v) = SlotsOf(A, w) \ {t}
    <2>1. ASSUME NEW u \in Procs \X (1 .. MAXOPBLOCKS)
          PROVE  u \in SlotsOf(A, v) <=> u \in SlotsOf(A, w) /\ u # t
        <3>1. CASE u[1] = p
            <4>1. u = <<p, u[2]>> /\ u[2] \in 1 .. MAXOPBLOCKS
                BY <3>1
            <4>2. u # t <=> u[2] # MAXOPBLOCKS - Cardinality(w[p])
                BY <4>1
            <4> HIDE DEF t
            <4> QED BY <3>1, <4>1, <4>2, LogAssumption DEF SlotsOf
        <3>2. CASE u[1] # p
            <4>1. u # t
                BY <3>2
            <4> HIDE DEF t
            <4> QED BY <3>2, <4>1 DEF SlotsOf
        <3> QED BY <3>1, <3>2
    <2> HIDE DEF t
    <2> QED BY <2>1 DEF SlotsOf
<1> HIDE DEF t
<1>3. IsFiniteSet(SlotsOf(A, w))
    BY SlotsBound
<1>4. Cardinality(SlotsOf(A, w) \ {t}) = Cardinality(SlotsOf(A, w)) - 1
    BY <1>1, <1>3, FS_RemoveElement
<1> QED BY <1>2, <1>4

----------------------------------------------------------------------------
(* The numbers of the log's state, without the rest of the type invariant. *)
LEMMA Numbers ==
    ASSUME TypeOK
    PROVE  /\ lh \in Seq(Blocks) /\ Len(lh) \in Nat /\ Len(lh) <= NLOG - 1
           /\ dhead \in Seq(Blocks) /\ Len(dhead) \in Nat
           /\ outstanding \in Nat /\ tail \in Nat /\ tail <= NLOG - 1
<1>1. /\ lh \in Seq(Blocks) /\ Len(lh) <= NLOG - 1 /\ dhead \in Seq(Blocks)
      /\ outstanding \in Nat /\ tail \in 0 .. NLOG - 1
    BY DEF TypeOK
<1>2. Len(lh) \in Nat /\ Len(dhead) \in Nat
    BY <1>1, LenProperties
<1> QED BY <1>1, <1>2, LogAssumption

(* The number of blocks a call has written is a number.                    *)
LEMMA WroteFinite ==
    ASSUME NEW w \in [Procs -> SUBSET Blocks], NEW p \in Procs
    PROVE  IsFiniteSet(w[p]) /\ Cardinality(w[p]) \in Nat
BY LogAssumption, FS_Subset, FS_CardinalityType

(* A call between begin_op and end_op is counted, and two of them twice.   *)
LEMMA CallsCounted ==
    ASSUME NEW A \in SUBSET Procs, NEW p \in A
    PROVE  /\ Cardinality(A) >= 1
           /\ Cardinality(A) = 1 => A = {p}
<1>1. IsFiniteSet(A) /\ Cardinality(A) \in Nat
    BY SlotsBound
<1>2. Cardinality(A) # 0
    BY <1>1, FS_EmptySet
<1>3. Cardinality(A) = 1 => \E x : A = {x}
    BY <1>1, FS_Singleton
<1> QED BY <1>1, <1>2, <1>3

(* The initial state satisfies the invariant.                              *)
LEMMA InitLogIInv == Init => LogIInv
<1> SUFFICES ASSUME Init PROVE LogIInv
    OBVIOUS
<1> USE DEF Init
<1>1. TypeOK
    <2>1. committing \in BOOLEAN
        BY Zenon
    <2>2. /\ disk \in [Blocks -> Vals] /\ cache \in [Blocks -> Vals]
          /\ dlog \in [1 .. NLOG - 1 -> Vals]
        BY LogAssumption
    <2>3. /\ lh \in Seq(Blocks) /\ Len(lh) <= NLOG - 1
          /\ dhead \in Seq(Blocks) /\ Len(dhead) <= NLOG - 1
          /\ tail \in 0 .. NLOG - 1 /\ outstanding \in Nat
        BY LogAssumption
    <2>4. /\ pc \in [Procs -> Labels] /\ wrote \in [Procs -> SUBSET Blocks]
          /\ boot \in {"up", "read_head", "install"}
        BY DEF Labels
    <2> QED BY <2>1, <2>2, <2>3, <2>4 DEF TypeOK
<1>2. Ops = {}
    BY DEF Ops
<1>3. Alone
    BY <1>2, FS_EmptySet DEF Alone, CommitLabels
<1>4. SleeperHasWaker /\ NoPanic /\ Distinct /\ Recovery /\ Running /\ Stages
    BY LogAssumption DEF SleeperHasWaker, NoPanic, Distinct, NoDups, Recovery, Running, Stages, Contains
<1>5. Slots = {}
    BY <1>2 DEF Slots, SlotsOf
<1>6. Reserved
    BY <1>5, FS_EmptySet, LogAssumption DEF Reserved
<1> QED BY <1>1, <1>3, <1>4, <1>6 DEF LogIInv

(* begin_op keeps the invariant: it lets a call in only when the blocks of *)
(* all running calls and its own fit.                                      *)
LEMMA BeginKeeps ==
    ASSUME LogIInv, NEW p \in Procs, begin_op(p)
    PROVE  LogIInv'
<1> USE DEF LogIInv
<1>1. /\ boot = "up" /\ boot' = boot /\ panic' = panic
      /\ disk' = disk /\ dlog' = dlog /\ dhead' = dhead /\ cache' = cache
      /\ lh' = lh /\ committing' = committing /\ wrote' = wrote /\ tail' = tail
      /\ pc[p] \in {"idle", "woken"}
    BY DEF begin_op, At, Up, ondisk
<1>2. NoPanic' /\ Distinct' /\ Recovery'
    BY <1>1 DEF NoPanic, Distinct, NoDups, Recovery
<1>3. Len(lh) \in Nat /\ outstanding \in Nat
    BY Numbers
<1>4. \A q \in Procs : Cardinality(wrote[q]) \in Nat
    BY WroteFinite DEF TypeOK
<1>5. CASE /\ committing \/ NoSpace
           /\ Goto(p, "asleep") /\ outstanding' = outstanding
    <2>1. pc'[p] = "asleep" /\ \A q \in Procs : q # p => pc'[q] = pc[q]
        BY <1>5 DEF Goto, TypeOK
    <2>2. TypeOK'
        BY <1>1, <1>5 DEF TypeOK, Goto, Labels
    <2>3. Ops' = Ops
        BY <1>1, <2>1 DEF Ops
    <2>4. Alone'
        BY <1>1, <1>5, <2>1, <2>3 DEF Alone, CommitLabels
    <2>5. SleeperHasWaker'
        <3>1. outstanding > 0 \/ committing
            <4> SUFFICES ASSUME outstanding = 0, ~committing PROVE FALSE
                BY <1>3
            <4>1. lh = <<>>
                BY <1>1 DEF Running
            <4> QED BY <4>1, <1>5, LogAssumption, SizeAssumption DEF NoSpace
        <3> QED BY <3>1, <1>1, <1>5 DEF SleeperHasWaker
    <2>6. Running' /\ Stages'
        <3>1. \A q \in Procs : pc'[q] = "install" <=> pc[q] = "install"
            BY <1>1, <2>1
        <3>2. Running'
            BY <1>1, <1>5, <3>1 DEF Running
        <3>3. Stages'
            BY <1>1, <2>1 DEF Stages
        <3> QED BY <3>2, <3>3
    <2>7. Slots' = Slots
        BY <1>1, <2>3 DEF Slots
    <2>8. Reserved'
        BY <1>1, <1>5, <2>1, <2>7 DEF Reserved
    <2> QED BY <1>2, <2>2, <2>4, <2>5, <2>6, <2>8
<1>6. CASE /\ ~committing /\ ~NoSpace
           /\ outstanding' = outstanding + 1 /\ Goto(p, "op")
    <2>1. pc'[p] = "op" /\ \A q \in Procs : q # p => pc'[q] = pc[q]
        BY <1>6 DEF Goto, TypeOK
    <2>2. TypeOK'
        <3>1. pc' \in [Procs -> Labels]
            BY <1>6 DEF TypeOK, Goto, Labels
        <3>2. outstanding' \in Nat
            BY <1>3, <1>6
        <3> QED BY <1>1, <3>1, <3>2 DEF TypeOK
    <2>3. Ops' = Ops \cup {p} /\ p \notin Ops
        BY <1>1, <2>1 DEF Ops
    <2>4. outstanding' = Cardinality(Ops')
        <3>1. IsFiniteSet(Ops)
            BY LogAssumption, FS_Subset DEF Ops
        <3>2. Cardinality(Ops \cup {p}) = Cardinality(Ops) + 1
            BY <2>3, <3>1, FS_AddElement
        <3> QED BY <3>2, <2>3, <1>6 DEF Alone
    <2>5. Alone'
        BY <1>1, <1>6, <2>1, <2>4 DEF Alone, CommitLabels
    <2>6. SleeperHasWaker'
        BY <1>3, <1>6, <2>1 DEF SleeperHasWaker
    <2>7. Running' /\ Stages'
        <3>1. \A q \in Procs : pc'[q] = "install" <=> pc[q] = "install"
            BY <1>1, <2>1
        <3>2. Running'
            BY <1>1, <1>3, <1>6, <3>1 DEF Running
        <3>3. Stages'
            BY <1>1, <2>1 DEF Stages
        <3> QED BY <3>2, <3>3
    <2>8. Reserved'
        <3>1. Cardinality(Slots') \in Nat /\ Cardinality(Slots') <= Cardinality(Ops') * MAXOPBLOCKS
            <4>1. \A w : \A A \in SUBSET Procs :
                     Cardinality(SlotsOf(A, w)) \in Nat /\ Cardinality(SlotsOf(A, w)) <= Cardinality(A) * MAXOPBLOCKS
                BY SlotsBound
            <4>2. Ops' \in SUBSET Procs
                BY DEF Ops
            <4> QED BY <4>1, <4>2 DEF Slots
        <3>2. Len(lh) + (outstanding + 1) * MAXOPBLOCKS <= LOGSIZE
            BY <1>3, <1>6, LogAssumption DEF NoSpace
        <3>3. Cardinality(Slots') <= (outstanding + 1) * MAXOPBLOCKS
            BY <3>1, <2>4, <1>6
        <3>4. (outstanding + 1) * MAXOPBLOCKS \in Int
            BY <1>3, LogAssumption
        <3>5. Len(lh) + Cardinality(Slots') <= LOGSIZE
            <4> DEFINE K == (outstanding + 1) * MAXOPBLOCKS
            <4>1. Len(lh) + K <= LOGSIZE /\ Cardinality(Slots') <= K /\ K \in Int
                BY <3>2, <3>3, <3>4
            <4> HIDE DEF K
            <4> QED BY <4>1, <3>1, <1>3, LogAssumption
        <3>6. outstanding' = 1 => \A q \in Procs : Len(lh) <= Cardinality(wrote[q])
            <4>1. outstanding' = 1 => lh = <<>>
                BY <1>1, <1>3, <1>6 DEF Running
            <4> QED BY <4>1, <1>4
        <3>7. \A q \in Procs : pc'[q] # "op" => pc[q] # "op"
            BY <2>1
        <3> QED BY <1>1, <3>5, <3>6, <3>7 DEF Reserved
    <2> QED BY <1>2, <2>2, <2>5, <2>6, <2>7, <2>8
<1> QED BY <1>5, <1>6 DEF begin_op

----------------------------------------------------------------------------
(* log_write lists the block, once, and forgets none.                      *)
LEMMA LogBlock ==
    ASSUME NEW s \in Seq(Blocks), NEW b \in Blocks, NoDups(s),
           NEW t, t = IF Contains(s, b) THEN s ELSE Append(s, b)
    PROVE  /\ t \in Seq(Blocks) /\ NoDups(t) /\ Contains(t, b)
           /\ \A c : Contains(s, c) => Contains(t, c)
           /\ Contains(s, b) => t = s
           /\ ~Contains(s, b) => Len(t) = Len(s) + 1
<1>1. CASE Contains(s, b)
    BY <1>1
<1>2. CASE ~Contains(s, b)
    <2>1. /\ t \in Seq(Blocks) /\ Len(s) \in Nat /\ Len(t) = Len(s) + 1
          /\ \A i \in 1 .. Len(s) : t[i] = s[i]
          /\ t[Len(s) + 1] = b
        BY <1>2
    <2>2. NoDups(t)
        BY <1>2, <2>1 DEF NoDups, Contains
    <2>3. Contains(t, b) /\ \A c : Contains(s, c) => Contains(t, c)
        BY <2>1 DEF Contains
    <2> QED BY <1>2, <2>1, <2>2, <2>3
<1> QED BY <1>1, <1>2

(* A running call may write while the log has room, on the disk as well.   *)
LEMMA RoomToWrite ==
    ASSUME LogIInv, NEW p \in Procs, pc[p] = "op"
    PROVE  /\ Len(lh) < LOGSIZE /\ Len(lh) < NLOG - 1
           /\ outstanding >= 1 /\ ~committing
<1> USE DEF LogIInv
<1>1. Len(lh) \in Nat /\ outstanding \in Nat
    BY Numbers
<1>2. \A q \in Procs : Cardinality(wrote[q]) \in Nat /\ Cardinality(wrote[q]) <= OpBlocks
    BY WroteFinite DEF TypeOK, Reserved
<1>3. p \in Ops /\ Ops \in SUBSET Procs /\ outstanding = Cardinality(Ops)
    BY DEF Ops, Alone
<1>4. outstanding >= 1 /\ (outstanding = 1 => Ops = {p})
    BY <1>3, CallsCounted
<1>5. ~committing
    BY <1>4 DEF Alone
<1>6. Cardinality(Slots) \in Nat
    BY <1>3, SlotsBound DEF Slots
<1>7. /\ MAXOPBLOCKS - OpBlocks <= Cardinality(Slots)
      /\ \A q \in Ops : q # p => 2 * (MAXOPBLOCKS - OpBlocks) <= Cardinality(Slots)
    BY <1>2, <1>3, SlotsHeld DEF Slots
<1>8. Len(lh) + Cardinality(Slots) <= LOGSIZE
    BY DEF Reserved
<1>9. Len(lh) < NLOG - 1
    <2>1. CASE outstanding = 1
        <3>1. \/ Len(lh) <= Cardinality(wrote[p])
              \/ Len(lh) + Cardinality(Slots) <= LOGSIZE - (MAXOPBLOCKS - OpBlocks)
            BY <2>1 DEF Reserved
        <3> QED BY <3>1, <1>1, <1>2, <1>6, <1>7, LogAssumption, SizeAssumption
    <2>2. CASE outstanding # 1
        <3>1. Ops # {p}
            BY <2>2, <1>3, FS_Singleton
        <3>2. PICK q \in Ops : q # p
            BY <3>1, <1>3
        <3>3. 2 * (MAXOPBLOCKS - OpBlocks) <= Cardinality(Slots)
            BY <1>7, <3>2
        <3> QED BY <3>3, <1>1, <1>6, <1>8, LogAssumption, SizeAssumption
    <2> QED BY <2>1, <2>2
<1> QED BY <1>1, <1>4, <1>5, <1>6, <1>7, <1>8, <1>9, LogAssumption, SizeAssumption

(* log_write keeps the invariant: it never panics, and takes one of the    *)
(* blocks reserved for the call.                                           *)
LEMMA WriteKeeps ==
    ASSUME LogIInv, NEW p \in Procs, NEW b \in Blocks, NEW x \in Vals, log_write(p, b, x)
    PROVE  LogIInv'
<1> USE DEF LogIInv
<1>1. /\ boot = "up" /\ boot' = boot /\ pc[p] = "op"
      /\ disk' = disk /\ dlog' = dlog /\ dhead' = dhead
      /\ outstanding' = outstanding /\ committing' = committing
      /\ pc' = pc /\ tail' = tail
      /\ Cardinality(wrote[p] \cup {b}) <= OpBlocks
      /\ lh' = IF Contains(lh, b) THEN lh ELSE Append(lh, b)
    BY DEF log_write, At, Up, ondisk
<1>2. cache'[b] = x /\ \A c \in Blocks : c # b => cache'[c] = cache[c]
    BY DEF log_write, TypeOK
<1>3. wrote'[p] = wrote[p] \cup {b} /\ \A q \in Procs : q # p => wrote'[q] = wrote[q]
    BY DEF log_write, TypeOK
<1>4. /\ Len(lh) < LOGSIZE /\ Len(lh) < NLOG - 1
      /\ outstanding >= 1 /\ ~committing
    BY <1>1, RoomToWrite
<1>5. Len(lh) \in Nat /\ outstanding \in Nat /\ lh \in Seq(Blocks)
    BY Numbers
<1>6. panic' = panic
    <2>1. ~(Len(lh) >= LOGSIZE \/ Len(lh) >= NLOG - 1) /\ ~(outstanding < 1)
        BY <1>4, <1>5, LogAssumption
    <2> QED BY <2>1 DEF log_write
<1>7. /\ lh' \in Seq(Blocks) /\ NoDups(lh') /\ Contains(lh', b)
      /\ \A c : Contains(lh, c) => Contains(lh', c)
      /\ Contains(lh, b) => lh' = lh
      /\ ~Contains(lh, b) => Len(lh') = Len(lh) + 1
    <2>1. NoDups(lh)
        BY DEF Distinct
    <2> QED BY <1>1, <1>5, <2>1, LogBlock
<1>8. TypeOK'
    <2>1. cache' \in [Blocks -> Vals] /\ wrote' \in [Procs -> SUBSET Blocks]
        BY DEF log_write, TypeOK
    <2>2. Len(lh') <= NLOG - 1
        BY <1>4, <1>5, <1>7, LogAssumption
    <2> QED BY <1>1, <1>6, <1>7, <2>1, <2>2 DEF TypeOK
<1>9. NoPanic' /\ SleeperHasWaker'
    BY <1>1, <1>6 DEF NoPanic, SleeperHasWaker
<1>10. Ops' = Ops
    BY <1>1 DEF Ops
<1>11. Alone'
    BY <1>1, <1>10 DEF Alone
<1>12. Distinct'
    BY <1>1, <1>7 DEF Distinct, NoDups
<1>13. Recovery'
    BY <1>1 DEF Recovery
<1>14. Running'
    BY <1>1, <1>2, <1>4, <1>7 DEF Running
<1>15. Stages'
    <2>1. \A q \in Procs : pc[q] \notin CommitLabels
        BY <1>4 DEF Alone
    <2> QED BY <1>1, <2>1 DEF Stages, CommitLabels
<1>16. Reserved'
    <2>1. \A q \in Procs : IsFiniteSet(wrote[q]) /\ Cardinality(wrote[q]) \in Nat /\ Cardinality(wrote[q]) <= OpBlocks
        BY WroteFinite DEF TypeOK, Reserved
    <2>2. /\ Cardinality(wrote'[p]) <= OpBlocks
          /\ Cardinality(wrote'[p]) = IF b \in wrote[p] THEN Cardinality(wrote[p]) ELSE Cardinality(wrote[p]) + 1
        BY <1>1, <1>3, <2>1, FS_AddElement
    <2>3. Ops \in SUBSET Procs /\ p \in Ops
        BY <1>1 DEF Ops
    <2>4. Cardinality(Slots) \in Nat
        BY <2>3, SlotsBound DEF Slots
    <2>5. b \in wrote[p] => Slots' = Slots
        <3> SUFFICES ASSUME b \in wrote[p] PROVE Slots' = Slots
            OBVIOUS
        <3>1. \A q \in Procs : wrote'[q] = wrote[q]
            BY <1>3
        <3>2. wrote \in [Procs -> SUBSET Blocks] /\ wrote' \in [Procs -> SUBSET Blocks]
            BY <1>8 DEF TypeOK
        <3>3. wrote' = wrote
            BY <3>1, <3>2
        <3> QED BY <3>3, <1>10 DEF Slots
    <2>6. b \notin wrote[p] => Cardinality(Slots') = Cardinality(Slots) - 1
        <3> SUFFICES ASSUME b \notin wrote[p] PROVE Cardinality(Slots') = Cardinality(Slots) - 1
            OBVIOUS
        <3> DEFINE v == wrote'
        <3>1. /\ Cardinality(wrote[p]) \in Nat /\ Cardinality(v[p]) = Cardinality(wrote[p]) + 1
              /\ Cardinality(v[p]) <= OpBlocks
              /\ \A q \in Procs : q # p => v[q] = wrote[q]
            BY <2>1, <2>2, <1>3
        <3> HIDE DEF v
        <3>2. Cardinality(SlotsOf(Ops, v)) = Cardinality(SlotsOf(Ops, wrote)) - 1
            BY <2>3, <3>1, SlotsTake
        <3> QED BY <3>2, <1>10 DEF Slots, v
    <2>7. b \in wrote[p] => Contains(lh, b)
        BY DEF Reserved
    <2>8. /\ Len(lh') \in Nat /\ Cardinality(Slots') \in Int
          /\ Len(lh') + Cardinality(Slots') <= Len(lh) + Cardinality(Slots)
        <3>1. CASE b \in wrote[p]
            BY <3>1, <2>4, <2>5, <2>7, <1>5, <1>7
        <3>2. CASE b \notin wrote[p]
            BY <3>2, <2>4, <2>6, <1>5, <1>7
        <3> QED BY <3>1, <3>2
    <2>9. Len(lh') + Cardinality(Slots') <= LOGSIZE
        BY <2>8, <2>4, <1>5, LogAssumption DEF Reserved
    <2>10. \A q \in Procs : /\ pc'[q] # "op" => wrote'[q] = {}
                            /\ Cardinality(wrote'[q]) <= OpBlocks
                            /\ \A c \in wrote'[q] : Contains(lh', c)
        BY <1>1, <1>3, <1>7, <2>2 DEF Reserved
    <2>11. ASSUME outstanding' = 1, NEW q \in Procs, pc'[q] = "op"
           PROVE  \/ Len(lh') <= Cardinality(wrote'[q])
                  \/ Len(lh') + Cardinality(Slots') <= LOGSIZE - (MAXOPBLOCKS - OpBlocks)
        <3>1. Ops = {p}
            BY <2>11, <1>1, <2>3, CallsCounted DEF Alone
        <3>2. q = p
            BY <3>1, <2>11, <1>1 DEF Ops
        <3>3. \/ Len(lh) <= Cardinality(wrote[p])
              \/ Len(lh) + Cardinality(Slots) <= LOGSIZE - (MAXOPBLOCKS - OpBlocks)
            BY <2>11, <1>1 DEF Reserved
        <3>4. Len(lh) <= Cardinality(wrote[p]) => Len(lh') <= Cardinality(wrote'[p])
            BY <2>1, <2>2, <2>7, <1>5, <1>7
        <3> QED BY <3>2, <3>3, <3>4, <2>4, <2>8, <1>5, LogAssumption
    <2> QED BY <2>9, <2>10, <2>11 DEF Reserved
<1> QED BY <1>8, <1>9, <1>11, <1>12, <1>13, <1>14, <1>15, <1>16

----------------------------------------------------------------------------
(* end_op keeps the invariant: it finds no commit running, and gives back  *)
(* what the call has not used.                                             *)
LEMMA EndKeeps ==
    ASSUME LogIInv, NEW p \in Procs, end_op(p)
    PROVE  LogIInv'
<1> USE DEF LogIInv
<1>1. /\ boot = "up" /\ boot' = boot /\ pc[p] = "op"
      /\ disk' = disk /\ dlog' = dlog /\ dhead' = dhead /\ cache' = cache
      /\ lh' = lh /\ tail' = tail
      /\ outstanding' = outstanding - 1
    BY DEF end_op, At, Up, ondisk
<1>2. outstanding >= 1 /\ ~committing
    BY <1>1, RoomToWrite
<1>3. panic' = panic
    BY <1>2 DEF end_op
<1>4. wrote'[p] = {} /\ \A q \in Procs : q # p => wrote'[q] = wrote[q]
    BY DEF end_op, TypeOK
<1>5. Len(lh) \in Nat /\ outstanding \in Nat
    BY Numbers
<1>6. \/ /\ outstanding' = 0 /\ committing' = TRUE
         /\ pc'[p] = "commit" /\ \A q \in Procs : q # p => pc'[q] = pc[q]
      \/ /\ outstanding' # 0 /\ committing' = committing
         /\ pc'[p] = "idle"
         /\ \A q \in Procs : q # p => pc'[q] = IF pc[q] = "asleep" THEN "woken" ELSE pc[q]
    BY DEF end_op, Goto, WakeupAndGoto, TypeOK
<1>7. TypeOK'
    <2>1. wrote' \in [Procs -> SUBSET Blocks]
        BY DEF end_op, TypeOK
    <2>2. pc' \in [Procs -> Labels]
        <3>1. pc \in [Procs -> Labels]
            BY DEF TypeOK
        <3> QED BY <3>1 DEF end_op, Goto, WakeupAndGoto, Labels
    <2>3. committing' \in BOOLEAN
        BY <1>6, Zenon DEF TypeOK
    <2>4. outstanding' \in Nat
        BY <1>1, <1>2, <1>5
    <2> QED BY <1>1, <1>3, <2>1, <2>2, <2>3, <2>4 DEF TypeOK
<1>8. NoPanic' /\ Distinct' /\ Recovery'
    BY <1>1, <1>3 DEF NoPanic, Distinct, NoDups, Recovery
<1>9. Ops' = Ops \ {p} /\ p \in Ops /\ Ops \in SUBSET Procs
    BY <1>1, <1>6 DEF Ops
<1>10. outstanding' = Cardinality(Ops')
    <2>1. IsFiniteSet(Ops)
        BY <1>9, SlotsBound
    <2>2. Cardinality(Ops \ {p}) = Cardinality(Ops) - 1
        BY <1>9, <2>1, FS_RemoveElement
    <2> QED BY <1>1, <1>9, <2>2 DEF Alone
<1>11. \A q \in Procs : pc[q] \notin CommitLabels
    BY <1>2 DEF Alone
<1>12. \A q \in Procs : q # p => pc'[q] \notin CommitLabels
    BY <1>6, <1>11 DEF CommitLabels
<1>13. Alone'
    <2>1. CASE outstanding' = 0
        <3>1. committing' /\ pc'[p] \in CommitLabels
            BY <1>6, <2>1 DEF CommitLabels
        <3> QED BY <2>1, <3>1, <1>10, <1>12 DEF Alone
    <2>2. CASE outstanding' # 0
        <3>1. ~committing' /\ pc'[p] \notin CommitLabels
            BY <1>2, <1>6, <2>2 DEF CommitLabels
        <3> QED BY <3>1, <1>10, <1>12 DEF Alone
    <2> QED BY <2>1, <2>2
<1>14. SleeperHasWaker'
    BY <1>6 DEF SleeperHasWaker
<1>15. Running'
    <2>1. dhead = <<>>
        BY <1>1, <1>11 DEF Running, CommitLabels
    <2> QED BY <2>1, <1>1, <1>6 DEF Running
<1>16. Stages'
    <2>1. \A q \in Procs : pc'[q] \notin {"write_log", "write_head", "install", "committed"}
        BY <1>6, <1>12 DEF CommitLabels
    <2> QED BY <2>1 DEF Stages
<1>17. Reserved'
    <2>1. \A q \in Procs : Cardinality(wrote[q]) \in Nat /\ Cardinality(wrote[q]) <= OpBlocks
        BY WroteFinite DEF TypeOK, Reserved
    <2>2. Cardinality(Slots') + (MAXOPBLOCKS - OpBlocks) <= Cardinality(Slots)
        <3> DEFINE v == wrote'
        <3>1. \A q \in Procs : q # p => v[q] = wrote[q]
            BY <1>4
        <3> HIDE DEF v
        <3>2. Cardinality(SlotsOf(Ops \ {p}, v)) + (MAXOPBLOCKS - OpBlocks) <= Cardinality(SlotsOf(Ops, wrote))
            BY <2>1, <3>1, <1>9, SlotsDrop
        <3> QED BY <3>2, <1>9 DEF Slots, v
    <2>3. Cardinality(Slots) \in Nat /\ Cardinality(Slots') \in Nat
        <3>1. \A w : \A A \in SUBSET Procs : Cardinality(SlotsOf(A, w)) \in Nat
            BY SlotsBound
        <3> QED BY <3>1, <1>9 DEF Slots
    <2>4. Len(lh) + Cardinality(Slots) <= LOGSIZE
        BY DEF Reserved
    <2>5. /\ Len(lh) + Cardinality(Slots') <= LOGSIZE
          /\ Len(lh) + Cardinality(Slots') <= LOGSIZE - (MAXOPBLOCKS - OpBlocks)
        BY <2>2, <2>3, <2>4, <1>5, LogAssumption
    <2>6. \A q \in Procs : /\ pc'[q] # "op" => wrote'[q] = {}
                           /\ Cardinality(wrote'[q]) <= OpBlocks
                           /\ \A c \in wrote'[q] : Contains(lh, c)
        <3> TAKE q \in Procs
        <3>1. CASE q = p
            BY <3>1, <1>4, FS_EmptySet, LogAssumption
        <3>2. CASE q # p
            <4>1. wrote'[q] = wrote[q] /\ (pc'[q] # "op" => pc[q] # "op")
                BY <3>2, <1>4, <1>6
            <4> QED BY <4>1, <2>1 DEF Reserved
        <3> QED BY <3>1, <3>2
    <2> QED BY <1>1, <2>5, <2>6 DEF Reserved
<1> QED BY <1>7, <1>8, <1>13, <1>14, <1>15, <1>16, <1>17

(* While a commit runs, no process is between begin_op and end_op, and the *)
(* committing process is the only one.                                     *)
LEMMA Committing ==
    ASSUME LogIInv, NEW p \in Procs, pc[p] \in CommitLabels
    PROVE  /\ committing /\ outstanding = 0 /\ Ops = {}
           /\ \A q \in Procs : q # p => pc[q] \notin CommitLabels
           /\ \A q \in Procs : wrote[q] = {}
<1>1. committing /\ outstanding = 0 /\ outstanding = Cardinality(Ops)
    BY DEF LogIInv, Alone
<1>2. IsFiniteSet(Ops)
    BY SlotsBound DEF Ops
<1>3. Ops = {}
    BY <1>1, <1>2, FS_EmptySet
<1>4. \A q \in Procs : wrote[q] = {}
    BY <1>3 DEF Ops, LogIInv, Reserved
<1> QED BY <1>1, <1>3, <1>4 DEF LogIInv, Alone

(* A step of a commit from one of its places to another, with the log's    *)
(* header in memory unchanged or emptied.                                  *)
LEMMA CommitStep ==
    ASSUME LogIInv, NEW p \in Procs, pc[p] \in CommitLabels, pc'[p] \in CommitLabels,
           \A q \in Procs : q # p => pc'[q] = pc[q],
           boot = "up", boot' = "up", panic' = panic, wrote' = wrote,
           outstanding' = outstanding, committing' = committing,
           lh' = lh \/ lh' = <<>>
    PROVE  /\ NoPanic' /\ Alone' /\ SleeperHasWaker' /\ Recovery' /\ Reserved'
           /\ \A q \in Procs : q # p => pc'[q] \notin CommitLabels
<1> USE DEF LogIInv
<1>1. /\ committing /\ outstanding = 0 /\ Ops = {}
      /\ \A q \in Procs : q # p => pc[q] \notin CommitLabels
      /\ \A q \in Procs : wrote[q] = {}
    BY Committing
<1>2. NoPanic' /\ Recovery' /\ SleeperHasWaker'
    BY <1>1 DEF NoPanic, Recovery, SleeperHasWaker
<1>3. Ops' = {}
    BY <1>1 DEF Ops, CommitLabels
<1>4. Alone'
    BY <1>1, <1>3, FS_EmptySet DEF Alone
<1>5. Slots' = Slots
    BY <1>1, <1>3 DEF Slots
<1>6. Slots = {}
    BY <1>1 DEF Slots, SlotsOf
<1>7. Len(lh) \in Nat /\ Len(lh) <= LOGSIZE
    <2>1. Len(lh) + Cardinality(Slots) <= LOGSIZE
        BY DEF Reserved
    <2> QED BY <2>1, <1>6, Numbers, FS_EmptySet, LogAssumption
<1>8. Len(lh') + Cardinality(Slots') <= LOGSIZE
    BY <1>5, <1>6, <1>7, FS_EmptySet, LogAssumption
<1>9. Reserved'
    BY <1>1, <1>8, FS_EmptySet, LogAssumption DEF Reserved
<1> QED BY <1>1, <1>2, <1>4, <1>9

----------------------------------------------------------------------------
(* The start of commit keeps the invariant.                                *)
LEMMA CommitKeeps ==
    ASSUME LogIInv, NEW p \in Procs, commit(p)
    PROVE  LogIInv'
<1> USE DEF LogIInv
<1>1. /\ boot = "up" /\ boot' = boot /\ panic' = panic /\ pc[p] = "commit"
      /\ disk' = disk /\ dlog' = dlog /\ dhead' = dhead /\ cache' = cache
      /\ lh' = lh /\ outstanding' = outstanding /\ committing' = committing
      /\ wrote' = wrote /\ tail' = 0
    BY DEF commit, At, Up, ondisk, log
<1>2. /\ pc'[p] = IF lh = <<>> THEN "committed" ELSE "write_log"
      /\ \A q \in Procs : q # p => pc'[q] = pc[q]
    BY DEF commit, Goto, TypeOK
<1>3. pc[p] \in CommitLabels /\ pc'[p] \in CommitLabels
    BY <1>1, <1>2 DEF CommitLabels
<1>4. /\ NoPanic' /\ Alone' /\ SleeperHasWaker' /\ Recovery' /\ Reserved'
      /\ \A q \in Procs : q # p => pc'[q] \notin CommitLabels
    BY <1>1, <1>2, <1>3, CommitStep
<1>5. TypeOK'
    <2>1. pc' \in [Procs -> Labels]
        BY DEF commit, Goto, TypeOK, Labels
    <2>2. tail' \in 0 .. NLOG - 1
        BY <1>1, LogAssumption
    <2> QED BY <1>1, <2>1, <2>2 DEF TypeOK
<1>6. \A q \in Procs : pc[q] # "install" /\ pc'[q] # "install"
    BY <1>1, <1>2, <1>3, <1>4 DEF CommitLabels
<1>7. Running' /\ Distinct'
    BY <1>1, <1>6 DEF Running, Distinct, NoDups
<1>8. Stages'
    <2>1. Len(lh) \in Nat
        BY Numbers
    <2> QED BY <1>1, <1>2, <1>4, <2>1 DEF Stages, CommitLabels
<1> QED BY <1>4, <1>5, <1>7, <1>8

(* A step of write_log keeps the invariant.                                *)
LEMMA WriteLogKeeps ==
    ASSUME LogIInv, NEW p \in Procs, write_log(p)
    PROVE  LogIInv'
<1> USE DEF LogIInv
<1>1. /\ boot = "up" /\ boot' = boot /\ panic' = panic /\ pc[p] = "write_log"
      /\ disk' = disk /\ dhead' = dhead /\ cache' = cache
      /\ lh' = lh /\ outstanding' = outstanding /\ committing' = committing
      /\ wrote' = wrote
    BY DEF write_log, At, Up, log
<1>2. /\ pc'[p] \in {"write_log", "write_head"} /\ \A q \in Procs : q # p => pc'[q] = pc[q]
    BY <1>1 DEF write_log, Goto, TypeOK
<1>3. pc[p] \in CommitLabels /\ pc'[p] \in CommitLabels
    BY <1>1, <1>2 DEF CommitLabels
<1>4. /\ NoPanic' /\ Alone' /\ SleeperHasWaker' /\ Recovery' /\ Reserved'
      /\ \A q \in Procs : q # p => pc'[q] \notin CommitLabels
    BY <1>1, <1>2, <1>3, CommitStep
<1>5. \A q \in Procs : pc[q] # "install" /\ pc'[q] # "install"
    BY <1>1, <1>2, <1>4 DEF CommitLabels
<1>6. Running' /\ Distinct'
    BY <1>1, <1>5 DEF Running, Distinct, NoDups
<1>7. /\ lh \in Seq(Blocks) /\ Len(lh) \in Nat /\ Len(lh) <= NLOG - 1 /\ tail \in Nat
    BY Numbers
<1>8. tail <= Len(lh) /\ \A i \in 1 .. tail : dlog[i] = cache[lh[i]]
    BY <1>1 DEF Stages
<1>9. CASE tail < Len(lh)
    <2>1. pc' = pc /\ tail' = tail + 1 /\ dlog' = [dlog EXCEPT ![tail + 1] = cache[lh[tail + 1]]]
        BY <1>9 DEF write_log
    <2>2. tail + 1 \in 1 .. Len(lh) /\ tail + 1 \in 1 .. NLOG - 1
        BY <1>7, <1>9, LogAssumption
    <2>3. lh[tail + 1] \in Blocks
        BY <2>2, <1>7, ElementOfSeq
    <2>4. cache \in [Blocks -> Vals] /\ dlog \in [1 .. NLOG - 1 -> Vals]
        BY DEF TypeOK
    <2>5. dlog' \in [1 .. NLOG - 1 -> Vals]
        BY <2>1, <2>3, <2>4
    <2>6. dlog'[tail + 1] = cache[lh[tail + 1]] /\ \A i \in 1 .. tail : dlog'[i] = dlog[i]
        BY <2>1, <2>2, <2>4, <1>7
    <2>7. TypeOK'
        <3>1. tail' \in 0 .. NLOG - 1
            BY <2>1, <2>2, LogAssumption
        <3> QED BY <1>1, <2>1, <2>5, <3>1 DEF TypeOK
    <2>8. \A i \in 1 .. tail' : dlog'[i] = cache[lh[i]]
        BY <2>1, <2>6, <1>7, <1>8
    <2>9. Stages'
        BY <1>1, <1>4, <2>1, <2>2, <2>8 DEF Stages, CommitLabels
    <2> QED BY <1>4, <1>6, <2>7, <2>9
<1>10. CASE ~(tail < Len(lh))
    <2>1. tail' = tail /\ dlog' = dlog /\ Goto(p, "write_head")
        BY <1>10 DEF write_log
    <2>2. pc' \in [Procs -> Labels] /\ pc'[p] = "write_head"
        BY <2>1 DEF TypeOK, Goto, Labels
    <2>3. TypeOK'
        BY <1>1, <2>1, <2>2 DEF TypeOK
    <2>4. tail = Len(lh)
        BY <1>7, <1>8, <1>10
    <2>5. Stages'
        BY <1>1, <1>4, <1>8, <2>1, <2>2, <2>4 DEF Stages, CommitLabels
    <2> QED BY <1>4, <1>6, <2>3, <2>5
<1> QED BY <1>9, <1>10

(* write_head, which commits the group, keeps the invariant.               *)
LEMMA WriteHeadKeeps ==
    ASSUME LogIInv, NEW p \in Procs, write_head(p)
    PROVE  LogIInv'
<1> USE DEF LogIInv
<1>1. /\ boot = "up" /\ boot' = boot /\ panic' = panic /\ pc[p] = "write_head"
      /\ disk' = disk /\ dlog' = dlog /\ dhead' = lh /\ cache' = cache
      /\ lh' = lh /\ outstanding' = outstanding /\ committing' = committing
      /\ wrote' = wrote /\ tail' = 0
    BY DEF write_head, At, Up, log
<1>2. /\ pc'[p] = "install" /\ \A q \in Procs : q # p => pc'[q] = pc[q]
    BY DEF write_head, Goto, TypeOK
<1>3. pc[p] \in CommitLabels /\ pc'[p] \in CommitLabels
    BY <1>1, <1>2 DEF CommitLabels
<1>4. /\ NoPanic' /\ Alone' /\ SleeperHasWaker' /\ Recovery' /\ Reserved'
      /\ \A q \in Procs : q # p => pc'[q] \notin CommitLabels
    BY <1>1, <1>2, <1>3, CommitStep
<1>5. committing
    BY <1>3, Committing
<1>6. TypeOK'
    <2>1. pc' \in [Procs -> Labels]
        BY DEF write_head, Goto, TypeOK, Labels
    <2>2. tail' \in 0 .. NLOG - 1
        BY <1>1, LogAssumption
    <2> QED BY <1>1, <2>1, <2>2 DEF TypeOK
<1>7. Running' /\ Distinct'
    <2>1. Len(lh) <= LOGSIZE
        <3>1. Slots = {}
            BY <1>3, Committing DEF Slots, SlotsOf
        <3>2. Len(lh) + Cardinality(Slots) <= LOGSIZE
            BY DEF Reserved
        <3> QED BY <3>1, <3>2, Numbers, FS_EmptySet
    <2> QED BY <1>1, <1>2, <1>5, <2>1 DEF Running, Distinct, NoDups
<1>8. Stages'
    <2>1. Len(lh) \in Nat
        BY Numbers
    <2> QED BY <1>1, <1>2, <1>4, <2>1 DEF Stages, CommitLabels
<1> QED BY <1>4, <1>6, <1>7, <1>8

----------------------------------------------------------------------------
(* One block going home: the ones before it stay where they are, because a *)
(* block is listed once.                                                   *)
LEMMA InstallOne ==
    ASSUME TypeOK, Distinct, InstallNext, tail < Len(lh),
           \A i \in 1 .. tail : disk[lh[i]] = dlog[i]
    PROVE  /\ disk' \in [Blocks -> Vals] /\ cache' \in [Blocks -> Vals]
           /\ dlog' = dlog /\ dhead' = dhead /\ lh' = lh
           /\ outstanding' = outstanding /\ committing' = committing
           /\ tail' = tail + 1 /\ tail' <= Len(lh) /\ tail' \in 0 .. NLOG - 1
           /\ tail + 1 \in 1 .. Len(lh) /\ lh[tail + 1] \in Blocks
           /\ disk'[lh[tail + 1]] = dlog[tail + 1] /\ cache'[lh[tail + 1]] = dlog[tail + 1]
           /\ \A b \in Blocks : b # lh[tail + 1] => disk'[b] = disk[b] /\ cache'[b] = cache[b]
           /\ \A i \in 1 .. tail' : disk'[lh[i]] = dlog[i]
<1>1. /\ lh \in Seq(Blocks) /\ Len(lh) \in Nat /\ Len(lh) <= NLOG - 1 /\ tail \in Nat
    BY Numbers
<1>2. tail + 1 \in 1 .. Len(lh) /\ tail + 1 \in 1 .. NLOG - 1
    BY <1>1, LogAssumption
<1>3. \A i \in 1 .. Len(lh) : lh[i] \in Blocks
    BY <1>1, ElementOfSeq
<1>4. PICK b \in Blocks : b = lh[tail + 1]
    BY <1>2, <1>3
<1>5. PICK y \in Vals : y = dlog[tail + 1]
    BY <1>2 DEF TypeOK
<1>6. disk' = [disk EXCEPT ![b] = y] /\ cache' = [cache EXCEPT ![b] = y]
    BY <1>4, <1>5 DEF InstallNext
<1>7. disk \in [Blocks -> Vals] /\ cache \in [Blocks -> Vals]
    BY DEF TypeOK
<1>8. disk' \in [Blocks -> Vals] /\ cache' \in [Blocks -> Vals]
    BY <1>6, <1>7
<1>9. /\ disk'[b] = y /\ cache'[b] = y
      /\ \A c \in Blocks : c # b => disk'[c] = disk[c] /\ cache'[c] = cache[c]
    BY <1>6, <1>7
<1>10. /\ dlog' = dlog /\ dhead' = dhead /\ lh' = lh
       /\ outstanding' = outstanding /\ committing' = committing /\ tail' = tail + 1
    BY DEF InstallNext, log
<1>11. ASSUME NEW i \in 1 .. tail + 1
       PROVE  disk'[lh[i]] = dlog[i]
    <2>1. CASE i = tail + 1
        BY <2>1, <1>4, <1>5, <1>9
    <2>2. CASE i # tail + 1
        <3>1. i \in 1 .. tail /\ i \in 1 .. Len(lh)
            BY <2>2, <1>1, <1>2
        <3>2. lh[i] # b /\ lh[i] \in Blocks
            BY <3>1, <2>2, <1>2, <1>3, <1>4 DEF Distinct, NoDups
        <3> QED BY <3>1, <3>2, <1>9
    <2> QED BY <2>1, <2>2
<1>12. tail' <= Len(lh) /\ tail' \in 0 .. NLOG - 1
    BY <1>1, <1>2, <1>10
<1> QED BY <1>2, <1>4, <1>5, <1>8, <1>9, <1>10, <1>11, <1>12

(* A step of install_trans in a commit keeps the invariant.                *)
LEMMA InstallKeeps ==
    ASSUME LogIInv, NEW p \in Procs, install_trans(p)
    PROVE  LogIInv'
<1> USE DEF LogIInv
<1>1. /\ boot = "up" /\ boot' = boot /\ panic' = panic /\ pc[p] = "install"
      /\ wrote' = wrote
    BY DEF install_trans, At, Up
<1>2. pc[p] \in CommitLabels /\ committing
    BY <1>1, Committing DEF CommitLabels
<1>3. /\ lh \in Seq(Blocks) /\ Len(lh) \in Nat /\ Len(lh) <= NLOG - 1 /\ tail \in Nat
    BY Numbers
<1>4. /\ dhead = lh /\ tail <= Len(lh)
      /\ \A i \in 1 .. tail : disk[lh[i]] = dlog[i]
      /\ \A i \in 1 .. Len(lh) : dlog[i] = cache[lh[i]]
    BY <1>1 DEF Stages
<1>5. \A i \in 1 .. Len(lh) : lh[i] \in Blocks
    BY <1>3, ElementOfSeq
<1>6. CASE tail < Len(lh) /\ InstallNext /\ pc' = pc
    <2>1. /\ disk' \in [Blocks -> Vals] /\ cache' \in [Blocks -> Vals]
          /\ dlog' = dlog /\ dhead' = dhead /\ lh' = lh
          /\ outstanding' = outstanding /\ committing' = committing
          /\ tail' = tail + 1 /\ tail' <= Len(lh) /\ tail' \in 0 .. NLOG - 1
          /\ tail + 1 \in 1 .. Len(lh) /\ lh[tail + 1] \in Blocks
          /\ disk'[lh[tail + 1]] = dlog[tail + 1] /\ cache'[lh[tail + 1]] = dlog[tail + 1]
          /\ \A b \in Blocks : b # lh[tail + 1] => disk'[b] = disk[b] /\ cache'[b] = cache[b]
          /\ \A i \in 1 .. tail' : disk'[lh[i]] = dlog[i]
        BY <1>4, <1>6, InstallOne
    <2>2. /\ NoPanic' /\ Alone' /\ SleeperHasWaker' /\ Recovery' /\ Reserved'
          /\ \A q \in Procs : q # p => pc'[q] \notin CommitLabels
        BY <1>1, <1>2, <1>6, <2>1, CommitStep
    <2>3. TypeOK'
        BY <1>1, <1>6, <2>1 DEF TypeOK
    <2>4. \A b \in Blocks : cache'[b] = cache[b]
        BY <1>4, <2>1
    <2>5. Running' /\ Distinct'
        <3>1. \A b \in Blocks : ~Contains(lh, b) => b # lh[tail + 1]
            BY <2>1 DEF Contains
        <3>2. \A b \in Blocks : ~Contains(lh, b) => cache'[b] = disk'[b]
            BY <3>1, <1>1, <2>1 DEF Running
        <3> QED BY <3>2, <1>1, <1>2, <1>6, <2>1 DEF Running, Distinct, NoDups
    <2>6. \A i \in 1 .. Len(lh) : dlog[i] = cache'[lh[i]]
        BY <1>4, <1>5, <2>4
    <2>7. Stages'
        BY <1>1, <1>4, <1>6, <2>1, <2>2, <2>6 DEF Stages, CommitLabels
    <2> QED BY <2>2, <2>3, <2>5, <2>7
<1>7. CASE tail >= Len(lh) /\ EraseLog /\ Goto(p, "committed")
    <2>1. /\ lh' = <<>> /\ dhead' = <<>> /\ tail' = 0 /\ disk' = disk /\ dlog' = dlog
          /\ cache' = cache /\ outstanding' = outstanding /\ committing' = committing
        BY <1>7 DEF EraseLog
    <2>2. pc'[p] = "committed" /\ (\A q \in Procs : q # p => pc'[q] = pc[q]) /\ pc' \in [Procs -> Labels]
        BY <1>7 DEF Goto, TypeOK, Labels
    <2>3. pc'[p] \in CommitLabels
        BY <2>2 DEF CommitLabels
    <2>4. /\ NoPanic' /\ Alone' /\ SleeperHasWaker' /\ Recovery' /\ Reserved'
          /\ \A q \in Procs : q # p => pc'[q] \notin CommitLabels
        BY <1>1, <1>2, <2>1, <2>2, <2>3, CommitStep
    <2>5. TypeOK'
        <3>1. lh' \in Seq(Blocks) /\ Len(lh') <= NLOG - 1 /\ tail' \in 0 .. NLOG - 1
            BY <2>1, LogAssumption
        <3> QED BY <1>1, <2>1, <2>2, <3>1 DEF TypeOK
    <2>6. \A b \in Blocks : cache[b] = disk[b]
        <3> TAKE b \in Blocks
        <3>1. CASE Contains(lh, b)
            <4>1. PICK i \in 1 .. Len(lh) : lh[i] = b
                BY <3>1 DEF Contains
            <4>2. i \in 1 .. tail
                BY <1>3, <1>7, <4>1
            <4> QED BY <4>1, <4>2, <1>4
        <3>2. CASE ~Contains(lh, b)
            BY <3>2, <1>1 DEF Running
        <3> QED BY <3>1, <3>2
    <2>7. Running' /\ Distinct'
        BY <1>2, <2>1, <2>6, LogAssumption DEF Running, Distinct, NoDups
    <2>8. Stages'
        BY <2>1, <2>2, <2>4 DEF Stages, CommitLabels
    <2> QED BY <2>4, <2>5, <2>7, <2>8
<1> QED BY <1>6, <1>7 DEF install_trans

(* The end of a commit keeps the invariant.                                *)
LEMMA EndCommitKeeps ==
    ASSUME LogIInv, NEW p \in Procs, end_commit(p)
    PROVE  LogIInv'
<1> USE DEF LogIInv
<1>1. /\ boot = "up" /\ boot' = boot /\ panic' = panic /\ pc[p] = "committed"
      /\ disk' = disk /\ dlog' = dlog /\ dhead' = dhead /\ cache' = cache
      /\ lh' = lh /\ outstanding' = outstanding /\ committing' = FALSE
      /\ wrote' = wrote /\ tail' = tail
    BY DEF end_commit, At, Up, ondisk
<1>2. /\ pc'[p] = "idle"
      /\ \A q \in Procs : q # p => pc'[q] = IF pc[q] = "asleep" THEN "woken" ELSE pc[q]
    BY DEF end_commit, WakeupAndGoto
<1>3. /\ committing /\ outstanding = 0 /\ Ops = {}
      /\ \A q \in Procs : q # p => pc[q] \notin CommitLabels
      /\ \A q \in Procs : wrote[q] = {}
    <2>1. pc[p] \in CommitLabels
        BY <1>1 DEF CommitLabels
    <2> QED BY <2>1, Committing
<1>4. lh = <<>>
    BY <1>1 DEF Stages
<1>5. TypeOK'
    <2>1. pc' \in [Procs -> Labels]
        <3>1. pc \in [Procs -> Labels]
            BY DEF TypeOK
        <3> QED BY <3>1 DEF end_commit, WakeupAndGoto, Labels
    <2>2. committing' \in BOOLEAN
        BY <1>1, Zenon
    <2> QED BY <1>1, <2>1, <2>2 DEF TypeOK
<1>6. NoPanic' /\ SleeperHasWaker' /\ Distinct' /\ Recovery'
    BY <1>1, <1>2 DEF NoPanic, SleeperHasWaker, Distinct, NoDups, Recovery
<1>7. Ops' = {}
    BY <1>1, <1>2, <1>3 DEF Ops
<1>8. \A q \in Procs : pc'[q] \notin CommitLabels
    BY <1>2, <1>3 DEF CommitLabels
<1>9. Alone'
    BY <1>1, <1>3, <1>7, <1>8, FS_EmptySet DEF Alone
<1>10. Running'
    <2>1. dhead = <<>>
        BY <1>1, <1>3 DEF Running, CommitLabels
    <2> QED BY <2>1, <1>1, <1>4 DEF Running
<1>11. Stages'
    BY <1>8 DEF Stages, CommitLabels
<1>12. Reserved'
    <2>1. Slots' = {}
        BY <1>7 DEF Slots, SlotsOf
    <2> QED BY <2>1, <1>1, <1>3, <1>4, FS_EmptySet, LogAssumption DEF Reserved
<1> QED BY <1>5, <1>6, <1>9, <1>10, <1>11, <1>12

----------------------------------------------------------------------------
(* A crash keeps the invariant, at any point of a commit or a recovery.    *)
LEMMA CrashKeeps ==
    ASSUME LogIInv, crash
    PROVE  LogIInv'
<1> USE DEF LogIInv
<1>1. /\ disk' = disk /\ dlog' = dlog /\ dhead' = dhead /\ cache' = disk
      /\ lh' = <<>> /\ outstanding' = 0 /\ committing' = FALSE /\ tail' = 0
      /\ boot' = "read_head" /\ panic' = panic
      /\ pc' = [p \in Procs |-> "idle"] /\ wrote' = [p \in Procs |-> {}]
    BY DEF crash, ondisk
<1>2. TypeOK'
    <2>1. committing' \in BOOLEAN
        BY <1>1, Zenon
    <2>2. lh' \in Seq(Blocks) /\ Len(lh') <= NLOG - 1 /\ tail' \in 0 .. NLOG - 1 /\ outstanding' \in Nat
        BY <1>1, LogAssumption
    <2>3. pc' \in [Procs -> Labels] /\ wrote' \in [Procs -> SUBSET Blocks]
        BY <1>1 DEF Labels
    <2> QED BY <1>1, <2>1, <2>2, <2>3 DEF TypeOK
<1>3. \A p \in Procs : pc'[p] = "idle" /\ wrote'[p] = {}
    BY <1>1
<1>4. Ops' = {}
    BY <1>3 DEF Ops
<1>5. Slots' = {}
    BY <1>4 DEF Slots, SlotsOf
<1>6. NoPanic' /\ SleeperHasWaker' /\ Distinct' /\ Recovery'
    BY <1>1, <1>3 DEF NoPanic, SleeperHasWaker, Distinct, NoDups, Recovery
<1>7. Alone'
    BY <1>1, <1>3, <1>4, FS_EmptySet DEF Alone, CommitLabels
<1>8. Running' /\ Stages'
    BY <1>1, <1>3 DEF Running, Stages
<1>9. Reserved'
    BY <1>1, <1>3, <1>5, FS_EmptySet, LogAssumption DEF Reserved
<1> QED BY <1>2, <1>6, <1>7, <1>8, <1>9

(* During recovery no process runs a call or a commit.                     *)
LEMMA RecoveringAlone ==
    ASSUME LogIInv, boot # "up"
    PROVE  /\ \A p \in Procs : pc[p] = "idle" /\ wrote[p] = {}
           /\ outstanding = 0 /\ ~committing /\ cache = disk /\ Ops = {} /\ Slots = {}
<1>1. /\ \A p \in Procs : pc[p] = "idle"
      /\ outstanding = 0 /\ cache = disk
    BY DEF LogIInv, Recovery
<1>2. \A p \in Procs : wrote[p] = {}
    BY <1>1 DEF LogIInv, Reserved
<1>3. ~committing
    BY <1>1 DEF LogIInv, Alone, CommitLabels
<1>4. Ops = {}
    BY <1>1 DEF Ops
<1> QED BY <1>1, <1>2, <1>3, <1>4 DEF Slots, SlotsOf

(* Reading the header keeps the invariant.                                 *)
LEMMA ReadHeadKeeps ==
    ASSUME LogIInv, read_head
    PROVE  LogIInv'
<1> USE DEF LogIInv
<1>1. /\ boot = "read_head" /\ boot' = "install" /\ lh' = dhead
      /\ disk' = disk /\ dlog' = dlog /\ dhead' = dhead /\ cache' = cache
      /\ outstanding' = outstanding /\ committing' = committing /\ tail' = tail
      /\ panic' = panic /\ pc' = pc /\ wrote' = wrote
    BY DEF read_head, ondisk
<1>2. /\ \A p \in Procs : pc[p] = "idle" /\ wrote[p] = {}
      /\ outstanding = 0 /\ ~committing /\ cache = disk /\ Ops = {} /\ Slots = {}
    BY <1>1, RecoveringAlone
<1>3. TypeOK'
    BY <1>1 DEF TypeOK
<1>4. tail = 0 /\ Len(dhead) \in Nat
    BY <1>1, Numbers DEF Recovery
<1>5. Ops' = Ops /\ Slots' = Slots
    BY <1>1 DEF Ops, Slots
<1>6. NoPanic' /\ SleeperHasWaker' /\ Distinct'
    BY <1>1 DEF NoPanic, SleeperHasWaker, Distinct, NoDups
<1>7. Recovery'
    BY <1>1, <1>2, <1>4 DEF Recovery
<1>8. Alone' /\ Running' /\ Stages'
    BY <1>1, <1>2, <1>5 DEF Alone, Running, Stages
<1>9. Reserved'
    BY <1>1, <1>2, <1>4, <1>5, FS_EmptySet, LogAssumption DEF Reserved, Distinct
<1> QED BY <1>3, <1>6, <1>7, <1>8, <1>9

(* A step of recovery keeps the invariant.                                 *)
LEMMA RecoverKeeps ==
    ASSUME LogIInv, recover_from_log
    PROVE  LogIInv'
<1> USE DEF LogIInv
<1>1. boot = "install" /\ pc' = pc /\ wrote' = wrote /\ panic' = panic
    BY DEF recover_from_log
<1>2. /\ \A p \in Procs : pc[p] = "idle" /\ wrote[p] = {}
      /\ outstanding = 0 /\ ~committing /\ cache = disk /\ Ops = {} /\ Slots = {}
    BY <1>1, RecoveringAlone
<1>3. /\ lh = dhead /\ tail <= Len(lh)
      /\ \A i \in 1 .. tail : disk[lh[i]] = dlog[i]
    BY <1>1 DEF Recovery
<1>4. outstanding' = outstanding /\ committing' = committing
    BY DEF recover_from_log, InstallNext, EraseLog, log
<1>5. Ops' = Ops /\ Slots' = Slots
    BY <1>1 DEF Ops, Slots
<1>6. NoPanic' /\ SleeperHasWaker' /\ Alone' /\ Stages'
    BY <1>1, <1>2, <1>4, <1>5 DEF NoPanic, SleeperHasWaker, Alone, Stages
<1>7. CASE tail < Len(lh) /\ InstallNext /\ boot' = boot
    <2>1. /\ disk' \in [Blocks -> Vals] /\ cache' \in [Blocks -> Vals]
          /\ dlog' = dlog /\ dhead' = dhead /\ lh' = lh
          /\ tail' = tail + 1 /\ tail' <= Len(lh) /\ tail' \in 0 .. NLOG - 1
          /\ disk'[lh[tail + 1]] = dlog[tail + 1] /\ cache'[lh[tail + 1]] = dlog[tail + 1]
          /\ \A b \in Blocks : b # lh[tail + 1] => disk'[b] = disk[b] /\ cache'[b] = cache[b]
          /\ \A i \in 1 .. tail' : disk'[lh[i]] = dlog[i]
        BY <1>3, <1>7, InstallOne
    <2>2. TypeOK'
        BY <1>1, <1>4, <1>7, <2>1 DEF TypeOK
    <2>3. cache' = disk'
        BY <1>2, <2>1
    <2>4. Recovery' /\ Running' /\ Distinct'
        BY <1>1, <1>2, <1>3, <1>4, <1>7, <2>1, <2>3 DEF Recovery, Running, Distinct, NoDups
    <2>5. Reserved'
        BY <1>1, <1>4, <1>5, <2>1 DEF Reserved
    <2> QED BY <1>6, <2>2, <2>4, <2>5
<1>8. CASE tail >= Len(lh) /\ EraseLog /\ boot' = "up"
    <2>1. /\ lh' = <<>> /\ dhead' = <<>> /\ tail' = 0
          /\ disk' = disk /\ dlog' = dlog /\ cache' = cache
        BY <1>8 DEF EraseLog
    <2>2. TypeOK'
        <3>1. lh' \in Seq(Blocks) /\ Len(lh') <= NLOG - 1 /\ tail' \in 0 .. NLOG - 1
            BY <2>1, LogAssumption
        <3> QED BY <1>1, <1>4, <1>8, <2>1, <3>1 DEF TypeOK
    <2>3. Recovery' /\ Running' /\ Distinct'
        BY <1>2, <1>8, <2>1, LogAssumption DEF Recovery, Running, Distinct, NoDups
    <2>4. Reserved'
        BY <1>1, <1>2, <1>4, <1>5, <2>1, FS_EmptySet, LogAssumption DEF Reserved
    <2> QED BY <1>6, <2>2, <2>3, <2>4
<1> QED BY <1>7, <1>8 DEF recover_from_log

(* A step that changes nothing keeps the invariant.                        *)
LEMMA StutterKeeps ==
    ASSUME LogIInv, UNCHANGED vars
    PROVE  LogIInv'
<1>1. /\ disk' = disk /\ dlog' = dlog /\ dhead' = dhead /\ cache' = cache
      /\ lh' = lh /\ outstanding' = outstanding /\ committing' = committing
      /\ pc' = pc /\ wrote' = wrote /\ tail' = tail /\ boot' = boot /\ panic' = panic
    BY DEF vars, ondisk, log
<1>2. TypeOK' /\ NoPanic' /\ SleeperHasWaker'
    BY <1>1 DEF LogIInv, TypeOK, NoPanic, SleeperHasWaker
<1>3. Ops' = Ops /\ Slots' = Slots
    BY <1>1 DEF Ops, Slots
<1>4. Alone' /\ Distinct' /\ Recovery'
    BY <1>1, <1>3 DEF LogIInv, Alone, Distinct, NoDups, Recovery
<1>5. Running' /\ Stages'
    BY <1>1 DEF LogIInv, Running, Stages
<1>6. Reserved'
    BY <1>1, <1>3 DEF LogIInv, Reserved
<1> QED BY <1>2, <1>4, <1>5, <1>6 DEF LogIInv

(* LogIInv is an invariant of the specification.                           *)
LEMMA Inductive == Spec => []LogIInv
<1>1. LogIInv /\ [Next]_vars => LogIInv'
    <2> SUFFICES ASSUME LogIInv, [Next]_vars PROVE LogIInv'
        OBVIOUS
    <2>1. CASE UNCHANGED vars
        BY <2>1, StutterKeeps
    <2>2. ASSUME NEW p \in Procs, Step(p) PROVE LogIInv'
        <3>1. CASE begin_op(p)
            BY <3>1, BeginKeeps
        <3>2. CASE end_op(p)
            BY <3>2, EndKeeps
        <3>3. ASSUME NEW b \in Blocks, NEW x \in Vals, log_write(p, b, x) PROVE LogIInv'
            BY <3>3, WriteKeeps
        <3>4. CASE commit(p)
            BY <3>4, CommitKeeps
        <3>5. CASE write_log(p)
            BY <3>5, WriteLogKeeps
        <3>6. CASE write_head(p)
            BY <3>6, WriteHeadKeeps
        <3>7. CASE install_trans(p)
            BY <3>7, InstallKeeps
        <3>8. CASE end_commit(p)
            BY <3>8, EndCommitKeeps
        <3> QED BY <2>2, <3>1, <3>2, <3>3, <3>4, <3>5, <3>6, <3>7, <3>8 DEF Step
    <2>3. CASE crash
        BY <2>3, CrashKeeps
    <2>4. CASE read_head
        BY <2>4, ReadHeadKeeps
    <2>5. CASE recover_from_log
        BY <2>5, RecoverKeeps
    <2> QED BY <2>1, <2>2, <2>3, <2>4, <2>5 DEF Next
<1> QED BY <1>1, InitLogIInv, PTL DEF Spec

(* The inductive invariant implies what the run checks.                    *)
LEMMA ImpliesLogInv == LogIInv => LogInv
<1> SUFFICES ASSUME LogIInv PROVE LogInv
    OBVIOUS
<1> USE DEF LogIInv
<1>1. QuiescentMeansDurable
    <2> SUFFICES ASSUME Up, outstanding = 0, ~committing
                 PROVE  disk = cache /\ dhead = <<>> /\ lh = <<>>
        BY DEF QuiescentMeansDurable
    <2>1. lh = <<>>
        BY DEF Running, Up
    <2>2. \A p \in Procs : pc[p] # "install"
        BY DEF Alone, CommitLabels
    <2>3. dhead = <<>>
        BY <2>2 DEF Running, Up
    <2>4. \A b \in Blocks : cache[b] = disk[b]
        BY <2>1 DEF Running, Up, Contains
    <2>5. disk \in [Blocks -> Vals] /\ cache \in [Blocks -> Vals]
        BY DEF TypeOK
    <2>6. disk = cache
        BY <2>4, <2>5
    <2> QED BY <2>1, <2>3, <2>6
<1>2. CommitIsAlone
    <2> DEFINE committers == {p \in Procs : pc[p] \in CommitLabels}
    <2>1. Cardinality(committers) = IF committing THEN 1 ELSE 0
        <3>1. CASE committing
            <4>1. PICK p \in Procs : pc[p] \in CommitLabels
                BY <3>1 DEF Alone
            <4>2. committers = {p}
                BY <4>1 DEF Alone
            <4> QED BY <3>1, <4>2, FS_Singleton
        <3>2. CASE ~committing
            <4>1. committers = {}
                BY <3>2 DEF Alone
            <4> QED BY <3>2, <4>1, FS_EmptySet
        <3> QED BY <3>1, <3>2
    <2>2. /\ committing => outstanding = 0
          /\ outstanding = Cardinality({p \in Procs : pc[p] = "op"})
        BY DEF Alone, Ops
    <2> QED BY <2>1, <2>2 DEF CommitIsAlone, CommitLabels
<1> QED BY <1>1, <1>2 DEF LogInv

(* The log's bookkeeping holds for every number of processes and blocks:   *)
(* begin_op's reservation is enough for log_write never to panic, there is *)
(* one commit at a time and no call runs beside it, everything is on the   *)
(* disk between groups, and nobody sleeps without a waker.                 *)
THEOREM LogNeverOverflows == Spec => []LogInv
BY Inductive, ImpliesLogInv, PTL

----------------------------------------------------------------------------
(* What recovery makes of home blocks d, log blocks l and a header h.      *)
Replay(d, l, h) == [b \in Blocks |->
    IF \E i \in 1 .. Len(h) : h[i] = b THEN l[CHOOSE i \in 1 .. Len(h) : h[i] = b] ELSE d[b]]

current == IF boot = "up" THEN cache ELSE Recovered

(* Replaying a header that lists every block once gives f, when f holds    *)
(* the logged contents of the listed blocks and the home contents of the   *)
(* others.                                                                 *)
LEMMA ReplayIs ==
    ASSUME NEW d, NEW l, NEW h, NoDups(h), NEW f \in [Blocks -> Vals],
           \A i \in 1 .. Len(h) : f[h[i]] = l[i],
           \A b \in Blocks : ~Contains(h, b) => f[b] = d[b]
    PROVE  Replay(d, l, h) = f
<1>1. ASSUME NEW b \in Blocks
      PROVE  Replay(d, l, h)[b] = f[b]
    <2>1. CASE \E i \in 1 .. Len(h) : h[i] = b
        <3>1. PICK j \in 1 .. Len(h) : j = CHOOSE i \in 1 .. Len(h) : h[i] = b
            BY <2>1
        <3>2. h[j] = b
            BY <2>1, <3>1
        <3>3. Replay(d, l, h)[b] = l[j]
            BY <2>1, <3>1 DEF Replay
        <3> QED BY <3>2, <3>3
    <2>2. CASE ~\E i \in 1 .. Len(h) : h[i] = b
        BY <2>2 DEF Replay, Contains
    <2> QED BY <2>1, <2>2
<1> QED BY <1>1 DEF Replay

(* Replaying does not look at the home contents of listed blocks.          *)
LEMMA ReplaySame ==
    ASSUME NEW d, NEW e, NEW l, NEW h,
           \A b \in Blocks : ~Contains(h, b) => d[b] = e[b]
    PROVE  Replay(d, l, h) = Replay(e, l, h)
BY DEF Replay, Contains

(* Replaying an empty header changes nothing.                              *)
LEMMA ReplayEmpty ==
    ASSUME NEW d \in [Blocks -> Vals], NEW l
    PROVE  Replay(d, l, <<>>) = d
BY DEF Replay

(* A block going home changes neither what a crash would recover nor, in a *)
(* commit, what calls read.                                                *)
LEMMA InstallInvisible ==
    ASSUME TypeOK, Distinct, InstallNext, tail < Len(lh), lh = dhead,
           \A i \in 1 .. tail : disk[lh[i]] = dlog[i]
    PROVE  Recovered' = Recovered /\ outstanding' = outstanding
<1>1. /\ dlog' = dlog /\ dhead' = dhead /\ outstanding' = outstanding
      /\ tail + 1 \in 1 .. Len(lh)
      /\ \A b \in Blocks : b # lh[tail + 1] => disk'[b] = disk[b]
    BY InstallOne
<1>2. \A b \in Blocks : ~Contains(dhead, b) => disk'[b] = disk[b]
    BY <1>1 DEF Contains
<1> DEFINE e == disk'
<1>3. Recovered' = Replay(e, dlog, dhead) /\ Recovered = Replay(disk, dlog, dhead)
    BY <1>1 DEF Replay, Recovered
<1>4. \A b \in Blocks : ~Contains(dhead, b) => e[b] = disk[b]
    BY <1>2
<1> HIDE DEF e
<1> QED BY <1>1, <1>3, <1>4, ReplaySame

(* When every block is home, erasing the header changes nothing.           *)
LEMMA EraseInvisible ==
    ASSUME TypeOK, Distinct, EraseLog, tail >= Len(lh), tail <= Len(lh), lh = dhead,
           \A i \in 1 .. tail : disk[lh[i]] = dlog[i]
    PROVE  Recovered = disk /\ Recovered' = disk /\ outstanding' = outstanding
<1>1. disk' = disk /\ dlog' = dlog /\ dhead' = <<>> /\ outstanding' = outstanding
    BY DEF EraseLog
<1>2. disk \in [Blocks -> Vals]
    BY DEF TypeOK
<1>3. Recovered' = Replay(disk, dlog, <<>>) /\ Recovered = Replay(disk, dlog, dhead)
    BY <1>1 DEF Replay, Recovered
<1>4. tail = Len(lh)
    BY Numbers
<1>5. \A i \in 1 .. Len(dhead) : disk[dhead[i]] = dlog[i]
    BY <1>4
<1>6. Replay(disk, dlog, dhead) = disk
    BY <1>2, <1>5, ReplayIs DEF Distinct
<1> QED BY <1>1, <1>2, <1>3, <1>6, ReplayEmpty

(* The disk is recovered to the blocks as they are when the header on the  *)
(* disk is empty.                                                          *)
LEMMA NothingLogged ==
    ASSUME TypeOK, dhead = <<>>
    PROVE  Recovered = disk
<1>1. disk \in [Blocks -> Vals]
    BY DEF TypeOK
<1> QED BY <1>1, ReplayEmpty DEF Replay, Recovered

(* The write of the header moves the recovered state to what calls read.   *)
LEMMA HeadCommits ==
    ASSUME LogIInv, NEW p \in Procs, write_head(p)
    PROVE  outstanding = 0 /\ outstanding' = 0 /\ Recovered' = cache /\ current' = cache /\ current = cache
<1> USE DEF LogIInv
<1>1. /\ boot = "up" /\ boot' = boot /\ pc[p] = "write_head"
      /\ disk' = disk /\ dlog' = dlog /\ dhead' = lh /\ cache' = cache
      /\ outstanding' = outstanding
    BY DEF write_head, At, Up, log
<1>2. outstanding = 0
    BY <1>1, Committing DEF CommitLabels
<1>3. cache \in [Blocks -> Vals]
    BY DEF TypeOK
<1>4. \A i \in 1 .. Len(lh) : cache[lh[i]] = dlog[i]
    BY <1>1 DEF Stages
<1>5. \A b \in Blocks : ~Contains(lh, b) => cache[b] = disk[b]
    BY <1>1 DEF Running
<1>6. Replay(disk, dlog, lh) = cache
    BY <1>3, <1>4, <1>5, ReplayIs DEF Distinct
<1>7. Recovered' = Replay(disk, dlog, lh)
    BY <1>1 DEF Recovered, Replay
<1> QED BY <1>1, <1>2, <1>6, <1>7 DEF current

(* The initial state is an initial state of the atomic disk.               *)
LEMMA InitRefines == Init => Disk!Init
<1> SUFFICES ASSUME Init PROVE Disk!Init
    OBVIOUS
<1>1. Recovered = [b \in Blocks |-> InitVal]
    <2>1. TypeOK /\ dhead = <<>>
        BY InitLogIInv DEF LogIInv, Init
    <2> QED BY <2>1, NothingLogged DEF Init
<1>2. cache = [b \in Blocks |-> InitVal] /\ outstanding = 0 /\ boot = "up"
    BY DEF Init
<1> QED BY <1>1, <1>2 DEF Disk!Init

(* Every step of the log is a step of the atomic disk or changes nothing   *)
(* there.                                                                  *)
LEMMA StepRefines ==
    ASSUME LogIInv, [Next]_vars
    PROVE  [Disk!Next]_(Disk!vars)
<1> USE DEF LogIInv
<1> DEFINE Same == Recovered' = Recovered /\ current' = current /\ outstanding' = outstanding
<1>1. Same => [Disk!Next]_(Disk!vars)
    BY DEF Disk!vars, current
<1>2. ASSUME disk' = disk, dlog' = dlog, dhead' = dhead
      PROVE  Recovered' = Recovered
    BY <1>2 DEF Recovered
<1>3. CASE UNCHANGED vars
    <2>1. Same
        BY <1>2, <1>3 DEF vars, ondisk, log, current
    <2> QED BY <1>1, <2>1
<1>4. ASSUME NEW p \in Procs, Step(p)
      PROVE  [Disk!Next]_(Disk!vars)
    <2>1. CASE begin_op(p)
        <3>1. /\ disk' = disk /\ dlog' = dlog /\ dhead' = dhead /\ cache' = cache /\ boot' = boot
              /\ outstanding' \in {outstanding, outstanding + 1}
            BY <2>1 DEF begin_op, ondisk
        <3>2. Recovered' = Recovered /\ current' = current
            BY <1>2, <3>1 DEF current
        <3>3. CASE outstanding' = outstanding
            BY <1>1, <3>2, <3>3
        <3>4. CASE outstanding' = outstanding + 1
            BY <3>2, <3>4 DEF Disk!Next, Disk!Begin, current
        <3> QED BY <3>1, <3>3, <3>4
    <2>2. CASE end_op(p)
        <3>1. /\ disk' = disk /\ dlog' = dlog /\ dhead' = dhead /\ cache' = cache /\ boot' = boot
              /\ outstanding' = outstanding - 1 /\ pc[p] = "op"
            BY <2>2 DEF end_op, ondisk, At
        <3>2. Recovered' = Recovered /\ current' = current
            BY <1>2, <3>1 DEF current
        <3>3. outstanding > 0
            BY <3>1, RoomToWrite, Numbers
        <3> QED BY <3>1, <3>2, <3>3 DEF Disk!Next, Disk!End, current
    <2>3. ASSUME NEW b \in Blocks, NEW x \in Vals, log_write(p, b, x)
          PROVE  [Disk!Next]_(Disk!vars)
        <3>1. /\ disk' = disk /\ dlog' = dlog /\ dhead' = dhead
              /\ boot = "up" /\ boot' = boot /\ pc[p] = "op" /\ outstanding' = outstanding
              /\ cache' = [cache EXCEPT ![b] = x]
            BY <2>3 DEF log_write, ondisk, At, Up
        <3>2. Recovered' = Recovered /\ current = cache /\ current' = cache'
            BY <1>2, <3>1 DEF current
        <3>3. outstanding > 0
            BY <3>1, RoomToWrite, Numbers
        <3>4. Disk!Write
            BY <3>1, <3>2, <3>3 DEF Disk!Write, current
        <3> QED BY <3>4 DEF Disk!Next
    <2>4. CASE commit(p)
        <3>1. Same
            BY <1>2, <2>4 DEF commit, ondisk, log, current
        <3> QED BY <1>1, <3>1
    <2>5. CASE write_log(p)
        <3>1. /\ boot = "up" /\ boot' = boot /\ pc[p] = "write_log"
              /\ disk' = disk /\ dhead' = dhead /\ cache' = cache /\ outstanding' = outstanding
            BY <2>5 DEF write_log, At, Up, log
        <3>2. \A q \in Procs : pc[q] # "install"
            BY <3>1 DEF Alone, CommitLabels
        <3>3. dhead = <<>>
            BY <3>1, <3>2 DEF Running
        <3>4. Recovered = disk /\ disk \in [Blocks -> Vals]
            BY <3>3, NothingLogged DEF TypeOK
        <3>5. Recovered' = Replay(disk, dlog', <<>>)
            BY <3>1, <3>3 DEF Recovered, Replay
        <3>6. Same
            BY <3>1, <3>4, <3>5, ReplayEmpty DEF current
        <3> QED BY <1>1, <3>6
    <2>6. CASE write_head(p)
        <3>1. outstanding = 0 /\ outstanding' = 0 /\ Recovered' = cache /\ current' = cache /\ current = cache
            BY <2>6, HeadCommits
        <3>2. Disk!Commit
            BY <3>1 DEF Disk!Commit, current
        <3> QED BY <3>2 DEF Disk!Next
    <2>7. CASE install_trans(p)
        <3>1. /\ boot = "up" /\ boot' = boot /\ pc[p] = "install"
            BY <2>7 DEF install_trans, At, Up
        <3>2. /\ dhead = lh /\ tail <= Len(lh)
              /\ \A i \in 1 .. tail : disk[lh[i]] = dlog[i]
              /\ \A i \in 1 .. Len(lh) : dlog[i] = cache[lh[i]]
            BY <3>1 DEF Stages
        <3>3. CASE tail < Len(lh) /\ InstallNext
            <4>1. Recovered' = Recovered /\ outstanding' = outstanding
                BY <3>2, <3>3, InstallInvisible
            <4>2. /\ cache' \in [Blocks -> Vals] /\ tail + 1 \in 1 .. Len(lh)
                  /\ cache'[lh[tail + 1]] = dlog[tail + 1]
                  /\ \A b \in Blocks : b # lh[tail + 1] => cache'[b] = cache[b]
                BY <3>2, <3>3, InstallOne
            <4>3. cache \in [Blocks -> Vals]
                BY DEF TypeOK
            <4>4. \A b \in Blocks : cache'[b] = cache[b]
                BY <3>2, <4>2
            <4>5. cache' = cache
                BY <4>2, <4>3, <4>4
            <4> QED BY <1>1, <3>1, <4>1, <4>5 DEF current
        <3>4. CASE tail >= Len(lh) /\ EraseLog
            <4>1. Recovered = disk /\ Recovered' = disk /\ outstanding' = outstanding
                BY <3>2, <3>4, EraseInvisible
            <4>2. cache' = cache
                BY <3>4 DEF EraseLog
            <4> QED BY <1>1, <3>1, <4>1, <4>2 DEF current
        <3> QED BY <2>7, <3>3, <3>4 DEF install_trans
    <2>8. CASE end_commit(p)
        <3>1. Same
            BY <1>2, <2>8 DEF end_commit, ondisk, current
        <3> QED BY <1>1, <3>1
    <2> QED BY <1>4, <2>1, <2>2, <2>3, <2>4, <2>5, <2>6, <2>7, <2>8 DEF Step
<1>5. CASE crash
    <2>1. Recovered' = Recovered /\ current' = Recovered' /\ outstanding' = 0
        BY <1>2, <1>5 DEF crash, ondisk, current
    <2> QED BY <2>1 DEF Disk!Next, Disk!Crash, current
<1>6. CASE read_head
    <2>1. Same
        BY <1>2, <1>6 DEF read_head, ondisk, current
    <2> QED BY <1>1, <2>1
<1>7. CASE recover_from_log
    <2>1. boot = "install" /\ cache = disk
        BY <1>7 DEF recover_from_log, Recovery
    <2>2. /\ lh = dhead /\ tail <= Len(lh)
          /\ \A i \in 1 .. tail : disk[lh[i]] = dlog[i]
        BY <2>1 DEF Recovery
    <2>3. CASE tail < Len(lh) /\ InstallNext /\ boot' = boot
        <3>1. Recovered' = Recovered /\ outstanding' = outstanding
            BY <2>2, <2>3, InstallInvisible
        <3> QED BY <1>1, <2>1, <2>3, <3>1 DEF current
    <2>4. CASE tail >= Len(lh) /\ EraseLog /\ boot' = "up"
        <3>1. Recovered = disk /\ Recovered' = disk /\ outstanding' = outstanding
            BY <2>2, <2>4, EraseInvisible
        <3>2. cache' = cache
            BY <2>4 DEF EraseLog
        <3> QED BY <1>1, <2>1, <2>4, <3>1, <3>2 DEF current
    <2> QED BY <1>7, <2>3, <2>4 DEF recover_from_log
<1> QED BY <1>3, <1>4, <1>5, <1>6, <1>7 DEF Next

(* The log implements the atomic disk: wherever the machine crashes, also  *)
(* while it recovers, the blocks recovered are those of the last complete  *)
(* group of calls, and running calls read all earlier writes.              *)
THEOREM GroupsAreAtomic == Spec => ImplementsAtomicDisk
<1>1. LogIInv /\ [Next]_vars => [Disk!Next]_(Disk!vars)
    BY StepRefines
<1> QED BY <1>1, InitRefines, Inductive, PTL DEF Spec, ImplementsAtomicDisk, Disk!Spec
=============================================================================
