------------------------------- MODULE Alloc -------------------------------
(***************************************************************************)
(* The one-page allocator of the memory-management lab                     *)
(* (Lab-Memory Management/malloc-code/alloc.c).                            *)
(*                                                                         *)
(* The allocator keeps, outside the page it manages, one flag per byte     *)
(* (bit_stat) and a table of chunks.  A pointer is the offset of its byte  *)
(* from page_start; NULL is no byte of the page.  The program is           *)
(* sequential: every call is one action.  The client calls init_alloc      *)
(* before it asks for memory, as test_alloc.c does, asks for any size in   *)
(* Sizes (zero, negative and ragged sizes are ints a caller may pass) and  *)
(* may pass any pointer to dealloc.                                        *)
(***************************************************************************)
EXTENDS Integers

CONSTANTS PAGESIZE,  \* bytes in the page
          MINALLOC,  \* allocation granularity
          Sizes,     \* the sizes the client asks for
          NULL

ASSUME AllocAssumption ==
    /\ PAGESIZE \in Nat \ {0}
    /\ MINALLOC \in Nat \ {0}
    /\ Sizes \subseteq Int
    /\ NULL \notin Int

VARIABLES mapped,    \* the page is mmapped: init_alloc returned 0, cleanup not yet called
          bit_stat,  \* per byte: 1 when it belongs to an allocated chunk
          table,     \* the chunk table
          ret        \* what the last call returned

vars == <<mapped, bit_stat, table, ret>>

Bytes == 0 .. PAGESIZE - 1
Slots == 0 .. (PAGESIZE \div MINALLOC) - 1

mem_info == [start_addr : Bytes \cup {NULL}, length : Int, alloc_or_not : {0, 1}]

EmptySlot == [start_addr |-> NULL, length |-> 0, alloc_or_not |-> 0]

ClearState ==
    /\ bit_stat' = [b \in Bytes |-> 0]
    /\ table' = [k \in Slots |-> EmptySlot]

Init ==
    /\ mapped = FALSE
    /\ bit_stat = [b \in Bytes |-> 0]
    /\ table = [k \in Slots |-> EmptySlot]
    /\ ret = NULL

----------------------------------------------------------------------------
(* init_alloc: mmap may fail, in which case nothing is reset.              *)
init_alloc ==
    /\ ~mapped
    /\ \/ /\ mapped' = TRUE
          /\ ClearState
          /\ ret' = 0
       \/ /\ ret' = -1
          /\ UNCHANGED <<mapped, bit_stat, table>>

cleanup ==
    /\ mapped
    /\ mapped' = FALSE
    /\ ClearState
    /\ ret' = 0

----------------------------------------------------------------------------
(* The scan of alloc stops at the first byte of each maximal free run: the *)
(* loop variable jumps to the run's last byte when the run is too short.   *)
ChunkStart(i) == bit_stat[i] = 0 /\ (i > 0 => bit_stat[i - 1] = 1)

\* mutant of RoomAt: the bitmap is not looked at
RoomUnchecked(i, size) == i + size <= PAGESIZE

\* the run that starts at i has room for size bytes
RoomAt(i, size) ==
    /\ i + size <= PAGESIZE
    /\ \A b \in Bytes : i <= b /\ b < i + size => bit_stat[b] = 0

\* the first free run of at least size bytes starts at i
FirstFit(i, size) ==
    /\ ChunkStart(i) /\ RoomAt(i, size)
    /\ \A j \in Bytes : j < i => ~(ChunkStart(j) /\ RoomAt(j, size))

\* k is the first slot of the table that is not in use
FirstSlot(k) ==
    /\ table[k].alloc_or_not = 0
    /\ \A m \in Slots : m < k => table[m].alloc_or_not = 1

Book(i, k, size) ==
    /\ table' = [table EXCEPT ![k] =
                   [start_addr |-> i, length |-> size, alloc_or_not |-> 1]]
    /\ bit_stat' = [b \in Bytes |-> IF i <= b /\ b < i + size THEN 1 ELSE bit_stat[b]]
    /\ ret' = i

AllocSucceeds(size) ==
    /\ size % MINALLOC = 0
    /\ \E i \in Bytes, k \in Slots :
          FirstFit(i, size) /\ FirstSlot(k) /\ Book(i, k, size)

AllocFails(size) ==
    /\ \/ size % MINALLOC # 0
       \/ \A i \in Bytes : ~(ChunkStart(i) /\ RoomAt(i, size))
       \/ \A k \in Slots : table[k].alloc_or_not = 1
    /\ ret' = NULL
    /\ UNCHANGED <<bit_stat, table>>

alloc(size) ==
    /\ mapped
    /\ AllocSucceeds(size) \/ AllocFails(size)
    /\ UNCHANGED mapped

----------------------------------------------------------------------------
\* k is the first slot whose start_addr is addr
FirstMatch(k, addr) ==
    /\ table[k].start_addr = addr
    /\ \A m \in Slots : m < k => table[m].start_addr # addr

InSlot(b, k) ==
    /\ table[k].start_addr # NULL
    /\ table[k].start_addr <= b
    /\ b < table[k].start_addr + table[k].length

\* mutants of Unbook: the last byte is not cleared, the slot is not given back
UnbookShort(k) ==
    /\ bit_stat' = [b \in Bytes |-> IF InSlot(b, k) /\ InSlot(b + 1, k) THEN 0 ELSE bit_stat[b]]
    /\ table' = [table EXCEPT ![k] = EmptySlot]
UnbookKeepsSlot(k) ==
    /\ bit_stat' = [b \in Bytes |-> IF InSlot(b, k) THEN 0 ELSE bit_stat[b]]
    /\ table' = [table EXCEPT ![k] = [EmptySlot EXCEPT !.alloc_or_not = 1]]

Unbook(k) ==
    /\ bit_stat' = [b \in Bytes |-> IF InSlot(b, k) THEN 0 ELSE bit_stat[b]]
    /\ table' = [table EXCEPT ![k] = EmptySlot]

\* A pointer that starts no chunk is ignored; NULL matches the first empty
\* slot, whose length is 0.
dealloc(addr) ==
    /\ mapped
    /\ \/ \E k \in Slots : FirstMatch(k, addr) /\ Unbook(k)
       \/ /\ \A k \in Slots : table[k].start_addr # addr
          /\ UNCHANGED <<bit_stat, table>>
    /\ ret' = NULL
    /\ UNCHANGED mapped

Next ==
    \/ init_alloc
    \/ cleanup
    \/ \E size \in Sizes : alloc(size)
    \/ \E addr \in Bytes \cup {NULL} : dealloc(addr)

Spec == Init /\ [][Next]_vars

----------------------------------------------------------------------------
(* Type correctness of the allocator's state.                              *)
TypeOK ==
    /\ mapped \in BOOLEAN
    /\ bit_stat \in [Bytes -> {0, 1}]
    /\ table \in [Slots -> mem_info]
    /\ ret \in Bytes \cup {NULL, 0, -1}

Live(k) == table[k].alloc_or_not = 1

(* The two data structures agree: a byte is flagged in bit_stat exactly    *)
(* when a chunk of the table covers it, so no byte leaks and none is lost  *)
(* through any sequence of alloc, dealloc and cleanup.                     *)
BitmapMatchesTable ==
    \A b \in Bytes : bit_stat[b] = 1 <=> \E k \in Slots : Live(k) /\ InSlot(b, k)

(* A slot is in use exactly when it records a pointer, and its chunk ends  *)
(* within the page: alloc never hands out bytes past PAGESIZE.             *)
SlotsConsistent ==
    \A k \in Slots :
        /\ Live(k) <=> table[k].start_addr # NULL
        /\ Live(k) => table[k].start_addr + table[k].length <= PAGESIZE

(* "Do not double-book your memory": no byte belongs to two chunks of the  *)
(* table, whatever alloc and dealloc did before.                           *)
NoDoubleBooking ==
    \A k, m \in Slots : \A b \in Bytes :
        Live(k) /\ Live(m) /\ InSlot(b, k) /\ InSlot(b, m) => k = m

(* A caller is refused memory only when no free run is long enough: the    *)
(* chunk table (PAGESIZE/MINALLOC slots) never runs out first.             *)
RefusedOnlyWhenFull ==
    mapped => \A size \in Sizes :
        (size % MINALLOC = 0 /\ \E i \in Bytes : ChunkStart(i) /\ RoomAt(i, size))
            => \E k \in Slots : ~Live(k)

(* The inductive invariant of the allocator.                               *)
AllocInv == TypeOK /\ SlotsConsistent /\ BitmapMatchesTable /\ NoDoubleBooking

=============================================================================
