---------------------------- MODULE AllocProofs ----------------------------
(***************************************************************************)
(* The bitmap and the chunk table of alloc.c agree for every page size,    *)
(* granularity and sequence of requests, zero and negative ones included.  *)
(* AllocInv is inductive: booking needs BitmapMatchesTable to know that    *)
(* free bytes are in no chunk, freeing needs NoDoubleBooking to know that  *)
(* the freed bytes are in no other chunk, and both need SlotsConsistent to *)
(* know that an unused slot covers nothing.                                *)
(***************************************************************************)
EXTENDS Alloc, TLAPS, FunctionTheorems, FiniteSetTheorems

(* The globals of a fresh process satisfy the invariant.                   *)
LEMMA AllocInit == Init => AllocInv
<1> SUFFICES ASSUME Init PROVE AllocInv
  OBVIOUS
<1>1. /\ bit_stat = [b \in Bytes |-> 0]
      /\ table = [k \in Slots |-> EmptySlot]
  BY DEF Init
<1>2. mapped \in BOOLEAN /\ ret = NULL
  BY Zenon DEF Init
<1>3. TypeOK
  BY <1>1, <1>2, AllocAssumption DEF TypeOK, EmptySlot, mem_info
<1>4. \A k \in Slots : ~Live(k) /\ table[k].start_addr = NULL
  BY <1>1 DEF Live, EmptySlot
<1> QED
  BY <1>1, <1>3, <1>4 DEF AllocInv, SlotsConsistent, BitmapMatchesTable, NoDoubleBooking

(* init_alloc and cleanup leave an empty table and a clear bitmap.         *)
LEMMA ClearStateInv ==
  ASSUME ClearState, mapped' \in BOOLEAN, ret' \in Bytes \cup {NULL, 0, -1}
  PROVE  AllocInv'
  BY AllocAssumption DEF ClearState, AllocInv, TypeOK, SlotsConsistent, BitmapMatchesTable,
     NoDoubleBooking, Live, InSlot, EmptySlot, mem_info, Bytes

(* Booking free bytes in an unused slot, as alloc does on success.         *)
LEMMA BookInv ==
  ASSUME AllocInv, NEW i \in Bytes, NEW k \in Slots, NEW size \in Int,
         RoomAt(i, size), FirstSlot(k), Book(i, k, size), mapped' \in BOOLEAN
  PROVE  AllocInv'
<1> DEFINE new == [start_addr |-> i, length |-> size, alloc_or_not |-> 1]
<1>0. /\ table' = [table EXCEPT ![k] = new]
      /\ bit_stat' = [b \in Bytes |-> IF i <= b /\ b < i + size THEN 1 ELSE bit_stat[b]]
      /\ ~Live(k)
  BY DEF Book, FirstSlot, Live
<1>1. TypeOK'
  BY <1>0, AllocAssumption DEF Book, AllocInv, TypeOK, mem_info, Bytes
<1>2. /\ table'[k] = new
      /\ \A m \in Slots : m # k => table'[m] = table[m]
  BY <1>0 DEF AllocInv, TypeOK
<1>3. \A m \in Slots : m # k => (Live(m)' <=> Live(m)) /\ \A b \in Bytes : InSlot(b, m)' <=> InSlot(b, m)
  BY <1>2 DEF Live, InSlot
<1>4. Live(k)' /\ \A b \in Bytes : InSlot(b, k)' <=> i <= b /\ b < i + size
  BY <1>2, AllocAssumption DEF Live, InSlot, Bytes
<1>5. SlotsConsistent'
  BY <1>2, <1>3, <1>4, AllocAssumption DEF SlotsConsistent, AllocInv, Live, RoomAt, Bytes
<1>6. \A b \in Bytes : i <= b /\ b < i + size => \A m \in Slots : Live(m) => ~InSlot(b, m)
  BY DEF RoomAt, AllocInv, BitmapMatchesTable
<1>7. BitmapMatchesTable'
  BY <1>0, <1>3, <1>4 DEF AllocInv, BitmapMatchesTable
<1>8. NoDoubleBooking'
  BY <1>3, <1>4, <1>6 DEF AllocInv, NoDoubleBooking
<1> QED
  BY <1>1, <1>5, <1>7, <1>8 DEF AllocInv

(* Freeing the chunk of one slot, as dealloc does on a match.              *)
LEMMA UnbookInv ==
  ASSUME AllocInv, NEW k \in Slots, Unbook(k), mapped' \in BOOLEAN, ret' = NULL
  PROVE  AllocInv'
<1>1. TypeOK'
  BY AllocAssumption DEF Unbook, AllocInv, TypeOK, mem_info, EmptySlot
<1>2. /\ table'[k] = EmptySlot
      /\ \A m \in Slots : m # k => table'[m] = table[m]
  BY DEF Unbook, AllocInv, TypeOK
<1>3. \A m \in Slots : m # k => (Live(m)' <=> Live(m)) /\ \A b \in Bytes : InSlot(b, m)' <=> InSlot(b, m)
  BY <1>2 DEF Live, InSlot
<1>4. ~Live(k)' /\ \A b \in Bytes : ~InSlot(b, k)'
  BY <1>2 DEF Live, InSlot, EmptySlot
<1>5. SlotsConsistent'
  BY <1>2, <1>3, <1>4 DEF SlotsConsistent, AllocInv, Live, EmptySlot
<1>6. \A b \in Bytes : InSlot(b, k) => Live(k)
  BY DEF InSlot, AllocInv, SlotsConsistent
<1>7. BitmapMatchesTable'
  <2> SUFFICES ASSUME NEW b \in Bytes
               PROVE  bit_stat'[b] = 1 <=> \E m \in Slots : Live(m)' /\ InSlot(b, m)'
    BY DEF BitmapMatchesTable
  <2>1. bit_stat'[b] = IF InSlot(b, k) THEN 0 ELSE bit_stat[b]
    BY DEF Unbook
  <2>2. bit_stat[b] = 1 <=> \E m \in Slots : Live(m) /\ InSlot(b, m)
    BY DEF AllocInv, BitmapMatchesTable
  <2>3. \A m \in Slots : Live(m) /\ InSlot(b, m) /\ InSlot(b, k) => m = k
    BY <1>6 DEF AllocInv, NoDoubleBooking
  <2> QED
    BY <1>3, <1>4, <2>1, <2>2, <2>3
<1>8. NoDoubleBooking'
  BY <1>3, <1>4 DEF AllocInv, NoDoubleBooking
<1> QED
  BY <1>1, <1>5, <1>7, <1>8 DEF AllocInv

(* A call that changes neither structure keeps the invariant.              *)
LEMMA UntouchedInv ==
  ASSUME AllocInv, UNCHANGED <<bit_stat, table>>, mapped' \in BOOLEAN,
         ret' \in Bytes \cup {NULL, 0, -1}
  PROVE  AllocInv'
  BY DEF AllocInv, TypeOK, SlotsConsistent, BitmapMatchesTable, NoDoubleBooking, Live, InSlot

(* Every call keeps the invariant.                                         *)
LEMMA AllocStep == AllocInv /\ [Next]_vars => AllocInv'
<1> SUFFICES ASSUME AllocInv, [Next]_vars PROVE AllocInv'
  OBVIOUS
<1>0. mapped \in BOOLEAN /\ ret \in Bytes \cup {NULL, 0, -1}
  BY DEF AllocInv, TypeOK
<1>1. CASE init_alloc
  BY <1>0, <1>1, ClearStateInv, UntouchedInv DEF init_alloc
<1>2. CASE cleanup
  BY <1>2, ClearStateInv DEF cleanup
<1>3. ASSUME NEW size \in Sizes, alloc(size) PROVE AllocInv'
  <2>1. size \in Int
    BY AllocAssumption
  <2>2. CASE AllocSucceeds(size)
    BY <1>0, <1>3, <2>1, <2>2, BookInv DEF AllocSucceeds, FirstFit, alloc
  <2>3. CASE AllocFails(size)
    BY <1>0, <1>3, <2>3, UntouchedInv DEF AllocFails, alloc
  <2> QED
    BY <1>3, <2>2, <2>3 DEF alloc
<1>4. ASSUME NEW addr \in Bytes \cup {NULL}, dealloc(addr) PROVE AllocInv'
  BY <1>0, <1>4, UnbookInv, UntouchedInv DEF dealloc
<1>5. CASE UNCHANGED vars
  BY <1>0, <1>5, UntouchedInv DEF vars
<1> QED
  BY <1>1, <1>2, <1>3, <1>4, <1>5 DEF Next

(* alloc.c never corrupts its bookkeeping.                                 *)
THEOREM AllocInvariant == Spec => []AllocInv
  BY AllocInit, AllocStep, PTL DEF Spec

(* The handout's "do not double-book your memory", for every page size and *)
(* every sequence of calls to alloc and dealloc.                           *)
THEOREM AllocNoDoubleBooking == Spec => []NoDoubleBooking
  BY AllocInvariant, PTL DEF AllocInv

(* A byte is flagged exactly when a recorded chunk covers it: no sequence  *)
(* of calls leaks a byte or frees one that is in use.                      *)
THEOREM AllocBitmapMatchesTable == Spec => []BitmapMatchesTable
  BY AllocInvariant, PTL DEF AllocInv

----------------------------------------------------------------------------
(* The table never runs out before the page.  Sizes are positive: a chunk  *)
(* of no bytes takes a slot and no room, and as many of them as there are  *)
(* slots would fill the table of an empty page.                            *)

(* Every chunk has at least one granule.                                   *)
LongChunks == \A k \in Slots : Live(k) => table[k].length >= MINALLOC

(* A positive multiple of the granule is not shorter than it.              *)
LEMMA WholeGranules ==
  ASSUME NEW size \in Int, size > 0, size % MINALLOC = 0
  PROVE  size >= MINALLOC
<1>1. MINALLOC \in Nat /\ MINALLOC > 0
  BY AllocAssumption
<1> SUFFICES ASSUME size < MINALLOC PROVE FALSE
  BY <1>1
<1>2. size % MINALLOC = size
  BY <1>1
<1> QED
  BY <1>2

(* alloc books whole granules, so chunks are never shorter.                *)
LEMMA LongChunksInvariant ==
  ASSUME \A size \in Sizes : size > 0
  PROVE  Spec => []LongChunks
<1>1. Init => LongChunks
  BY DEF Init, LongChunks, Live, EmptySlot
<1>2. AllocInv /\ LongChunks /\ [Next]_vars => LongChunks'
  <2> SUFFICES ASSUME AllocInv, LongChunks, [Next]_vars PROVE LongChunks'
    OBVIOUS
  <2>0. table \in [Slots -> mem_info]
    BY DEF AllocInv, TypeOK
  <2>1. CASE ClearState
    BY <2>1 DEF ClearState, LongChunks, Live, EmptySlot
  <2>2. CASE table' = table
    BY <2>2 DEF LongChunks, Live
  <2>3. ASSUME NEW size \in Sizes, AllocSucceeds(size) PROVE LongChunks'
    <3>1. size \in Int /\ size > 0 /\ size % MINALLOC = 0
      BY <2>3, AllocAssumption DEF AllocSucceeds
    <3>2. size >= MINALLOC
      BY <3>1, WholeGranules
    <3>3. PICK i \in Bytes, k \in Slots : Book(i, k, size)
      BY <2>3 DEF AllocSucceeds
    <3>4. /\ table'[k].length = size
          /\ \A m \in Slots : m # k => table'[m] = table[m]
      BY <3>3, <2>0 DEF Book
    <3> QED
      BY <3>2, <3>4 DEF LongChunks, Live
  <2>4. ASSUME NEW k \in Slots, Unbook(k) PROVE LongChunks'
    <3>1. /\ table'[k] = EmptySlot
          /\ \A m \in Slots : m # k => table'[m] = table[m]
      BY <2>4, <2>0 DEF Unbook
    <3> QED
      BY <3>1 DEF LongChunks, Live, EmptySlot
  <2>5. CASE init_alloc \/ cleanup
    BY <2>1, <2>2, <2>5 DEF init_alloc, cleanup
  <2>6. ASSUME NEW size \in Sizes, alloc(size) PROVE LongChunks'
    BY <2>2, <2>3, <2>6 DEF alloc, AllocFails
  <2>7. ASSUME NEW addr \in Bytes \cup {NULL}, dealloc(addr) PROVE LongChunks'
    BY <2>2, <2>4, <2>7 DEF dealloc
  <2>8. CASE UNCHANGED vars
    BY <2>2, <2>8 DEF vars
  <2> QED
    BY <2>5, <2>6, <2>7, <2>8 DEF Next
<1> QED
  BY <1>1, <1>2, AllocInvariant, PTL DEF Spec

(* There are PAGESIZE \div MINALLOC slots, so one granule more than there  *)
(* are slots does not fit the page.                                        *)
LEMMA Pigeonhole ==
  ASSUME NEW N, N = PAGESIZE \div MINALLOC,
         NEW Start \in [0 .. N -> Bytes],
         \A k \in 0 .. N : Start[k] + MINALLOC <= PAGESIZE,
         \A k, m \in 0 .. N : \A b \in Bytes :
            /\ Start[k] <= b /\ b < Start[k] + MINALLOC
            /\ Start[m] <= b /\ b < Start[m] + MINALLOC
            => k = m
  PROVE  FALSE
<1> DEFINE G == 0 .. MINALLOC - 1
           D == (0 .. N) \X G
           f == [x \in D |-> Start[x[1]] + x[2]]
<1>1. MINALLOC \in Nat /\ MINALLOC > 0 /\ PAGESIZE \in Nat /\ PAGESIZE > 0
  BY AllocAssumption
<1>2. N \in Nat /\ PAGESIZE < (N + 1) * MINALLOC
  BY <1>1
<1>3. IsFiniteSet(0 .. N) /\ Cardinality(0 .. N) = N + 1
  BY <1>2, FS_Interval
<1>4. IsFiniteSet(G) /\ Cardinality(G) = MINALLOC
  BY <1>1, FS_Interval
<1>5. IsFiniteSet(Bytes) /\ Cardinality(Bytes) = PAGESIZE
  BY <1>1, FS_Interval DEF Bytes
<1>6. IsFiniteSet(D) /\ Cardinality(D) = (N + 1) * MINALLOC
  <2> HIDE DEF G
  <2> QED
    BY <1>3, <1>4, FS_Product
<1>7. ASSUME NEW x \in D
      PROVE  /\ f[x] = Start[x[1]] + x[2] /\ x[1] \in 0 .. N /\ x[2] \in 0 .. MINALLOC - 1
             /\ Start[x[1]] \in Bytes /\ f[x] \in Bytes
             /\ Start[x[1]] <= f[x] /\ f[x] < Start[x[1]] + MINALLOC
             /\ x = <<x[1], x[2]>>
  <2>1. x[1] \in 0 .. N /\ x[2] \in 0 .. MINALLOC - 1 /\ x = <<x[1], x[2]>> /\ f[x] = Start[x[1]] + x[2]
    OBVIOUS
  <2>2. Start[x[1]] \in Bytes /\ Start[x[1]] + MINALLOC <= PAGESIZE
    BY <2>1
  <2> QED
    BY <1>1, <2>1, <2>2 DEF Bytes
<1>8. f \in [D -> Bytes]
  BY <1>7
<1> HIDE DEF f, D, G
<1>9. ASSUME NEW x \in D, NEW y \in D, f[x] = f[y] PROVE x = y
  <2>1. x[1] = y[1]
    BY <1>7, <1>9
  <2>2. x[2] = y[2]
    BY <1>1, <1>7, <1>9, <2>1 DEF Bytes
  <2> QED
    BY <1>7, <2>1, <2>2
<1>10. f \in Injection(D, Bytes)
  BY <1>8, <1>9, Fun_IsInj
<1>11. Cardinality(D) <= Cardinality(Bytes)
  BY <1>5, <1>10, FS_Injection
<1> QED
  BY <1>1, <1>2, <1>5, <1>6, <1>11

(* While a free run is long enough for the request, alloc finds a slot for *)
(* it: the table has one per granule of the page, and no two chunks share  *)
(* a byte.                                                                 *)
THEOREM AllocRefusedOnlyWhenFull ==
  ASSUME \A size \in Sizes : size > 0
  PROVE  Spec => []RefusedOnlyWhenFull
<1>1. AllocInv /\ LongChunks => RefusedOnlyWhenFull
  <2> SUFFICES ASSUME AllocInv, LongChunks, NEW size \in Sizes, size % MINALLOC = 0,
                      NEW i \in Bytes, RoomAt(i, size), \A k \in Slots : Live(k)
               PROVE  FALSE
    BY DEF RefusedOnlyWhenFull
  <2> DEFINE N == PAGESIZE \div MINALLOC
             Start == [k \in 0 .. N |-> IF k = N THEN i ELSE table[k].start_addr]
             Covers(k, b) == Start[k] <= b /\ b < Start[k] + MINALLOC
  <2>1. size \in Int /\ size >= MINALLOC /\ MINALLOC \in Nat /\ PAGESIZE \in Nat /\ N \in Nat
    BY AllocAssumption, WholeGranules
  <2>2. ASSUME NEW k \in Slots
        PROVE  /\ k \in 0 .. N /\ k # N /\ Start[k] = table[k].start_addr
               /\ Start[k] \in Bytes /\ table[k].length \in Int /\ table[k].length >= MINALLOC
               /\ Start[k] + MINALLOC <= PAGESIZE
    <3>1. k \in 0 .. N /\ k # N /\ Start[k] = table[k].start_addr
      BY <2>1 DEF Slots
    <3>2. table[k] \in mem_info /\ Live(k)
      BY DEF AllocInv, TypeOK
    <3>3. table[k].start_addr \in Bytes /\ table[k].length \in Int
      BY <3>2 DEF mem_info, AllocInv, SlotsConsistent
    <3>4. table[k].length >= MINALLOC /\ table[k].start_addr + table[k].length <= PAGESIZE
      BY <3>2 DEF LongChunks, AllocInv, SlotsConsistent
    <3> HIDE DEF Start
    <3> QED
      BY <2>1, <3>1, <3>3, <3>4 DEF Bytes
  <2>3. N \in 0 .. N /\ Start[N] = i /\ Start[N] + MINALLOC <= PAGESIZE
    <3>1. N \in 0 .. N /\ Start[N] = i
      BY <2>1
    <3>2. i + size <= PAGESIZE
      BY DEF RoomAt
    <3> HIDE DEF Start
    <3> QED
      BY <2>1, <3>1, <3>2 DEF Bytes
  <2>4. \A k \in 0 .. N : k \in Slots \/ k = N
    BY <2>1 DEF Slots
  <2> HIDE DEF N
  <2>5. Start \in [0 .. N -> Bytes]
    <3>1. \A k \in 0 .. N : Start[k] \in Bytes
      BY <2>2, <2>3, <2>4
    <3> QED
      BY <3>1
  <2> HIDE DEF Start
  <2>6. ASSUME NEW k \in Slots, NEW b \in Bytes, Covers(k, b) PROVE InSlot(b, k) /\ bit_stat[b] = 1
    <3>1. InSlot(b, k)
      BY <2>1, <2>2, <2>6, AllocAssumption DEF InSlot, Bytes
    <3> QED
      BY <3>1 DEF AllocInv, BitmapMatchesTable
  <2>7. ASSUME NEW b \in Bytes, Covers(N, b) PROVE bit_stat[b] = 0
    BY <2>1, <2>3, <2>7 DEF RoomAt, Bytes
  <2>8. ASSUME NEW k \in 0 .. N, NEW m \in 0 .. N, NEW b \in Bytes, Covers(k, b), Covers(m, b)
        PROVE  k = m
    <3>1. CASE k \in Slots /\ m \in Slots
      BY <2>6, <2>8, <3>1 DEF AllocInv, NoDoubleBooking
    <3>2. CASE k \in Slots /\ m = N
      BY <2>6, <2>7, <2>8, <3>2
    <3>3. CASE k = N /\ m \in Slots
      BY <2>6, <2>7, <2>8, <3>3
    <3> QED
      BY <2>4, <3>1, <3>2, <3>3
  <2>9. \A k \in 0 .. N : Start[k] + MINALLOC <= PAGESIZE
    BY <2>2, <2>3, <2>4
  <2>10. N = PAGESIZE \div MINALLOC
    BY DEF N
  <2> QED
    BY <2>5, <2>8, <2>9, <2>10, Pigeonhole
<1> QED
  BY <1>1, AllocInvariant, LongChunksInvariant, PTL
=============================================================================
