------------------------------- MODULE Ealloc -------------------------------
(***************************************************************************)
(* The elastic allocator of the memory-management lab                      *)
(* (Lab-Memory Management/malloc-code/ealloc.c): up to four pages, each    *)
(* mapped when an allocation needs it, with a flag per byte and a table of *)
(* chunks per page.  A pointer is a page and an offset into it.  The       *)
(* client calls init_alloc before the first alloc and after cleanup.       *)
(***************************************************************************)
EXTENDS Integers, FiniteSets, FiniteSetsExt

CONSTANTS PAGESIZE, MINALLOC, NPAGES, Sizes, NULL

VARIABLES ready,       \* init_alloc has been called since the last cleanup
          page_start,  \* per page: NULL, or what mmap returned, "page" or "MAP_FAILED"
          page_bits,   \* bit_stat of each page
          page_table,  \* the table of each page: NULL or a chunk [addr, length]
          refused      \* the whole granules the last call asked for in vain, or NULL

evars == <<ready, page_start, page_bits, page_table, refused>>

Pages == 0 .. NPAGES - 1
Bytes == 0 .. PAGESIZE - 1
Slots == 0 .. PAGESIZE \div MINALLOC - 1

Zeroed(bits, tab) ==
    /\ bits = [i \in Pages |-> [b \in Bytes |-> 0]]
    /\ tab = [i \in Pages |-> [k \in Slots |-> NULL]]

Init ==
    /\ ready = FALSE /\ page_start = [i \in Pages |-> NULL] /\ refused = NULL
    /\ Zeroed(page_bits, page_table)

init_alloc ==
    /\ ~ready /\ ready' = TRUE /\ refused' = NULL
    /\ page_start' = [i \in Pages |-> NULL]
    /\ Zeroed(page_bits', page_table')

\* the pages are unmapped, but page_start keeps their addresses
cleanup ==
    /\ ready /\ ready' = FALSE /\ refused' = NULL
    /\ Zeroed(page_bits', page_table')
    /\ UNCHANGED page_start

----------------------------------------------------------------------------
\* the free bytes from offset j on
FreeFrom(i, j) == IF page_bits[i][j] = 1 THEN 0
    ELSE Min({k \in j .. PAGESIZE : k = PAGESIZE \/ page_bits[i][k] = 1}) - j

\* where a chunk of this size fits into page i
FitsAt(i, j, size) == page_bits[i][j] = 0 /\ FreeFrom(i, j) >= size
Fits(i, size) == {j \in Bytes : FitsAt(i, j, size)}

MappedEagerly(size) == {i \in Pages : page_start[i] = NULL /\ \A h \in 0 .. i - 1 : page_start[h] # NULL}

\* the pages an allocation maps: those before which nothing fits
Mapped(size) == {i \in Pages : page_start[i] = NULL /\ \A h \in 0 .. i - 1 : Fits(h, size) = {}}

Candidates(size) == {c \in Pages \X Bytes :
    (page_start[c[1]] # NULL \/ c[1] \in Mapped(size)) /\ FitsAt(c[1], c[2], size)}

\* the smallest free stretch, and among equals the first one
Best(size) == CHOOSE c \in Candidates(size) : \A d \in Candidates(size) :
    LET f == FreeFrom(c[1], c[2])
        g == FreeFrom(d[1], d[2]) IN
    f < g \/ (f = g /\ (c[1] < d[1] \/ (c[1] = d[1] /\ c[2] <= d[2])))

alloc_ragged(size) ==
    /\ ready /\ size % MINALLOC # 0
    /\ refused' = NULL /\ UNCHANGED <<ready, page_start, page_bits, page_table>>

\* a failed mmap ends the call; page_start keeps MAP_FAILED
alloc_mmap_fails(size) ==
    /\ ready /\ size % MINALLOC = 0
    /\ \E n \in Mapped(size) :
        page_start' = [i \in Pages |-> IF i = n THEN "MAP_FAILED" ELSE IF i \in Mapped(size) /\ i < n THEN "page" ELSE page_start[i]]
    /\ refused' = NULL /\ UNCHANGED <<ready, page_bits, page_table>>

Mmap(size) == page_start' = [i \in Pages |-> IF i \in Mapped(size) THEN "page" ELSE page_start[i]]

alloc_full(size) ==
    /\ ready /\ size % MINALLOC = 0 /\ Candidates(size) = {}
    /\ Mmap(size)
    /\ refused' = size /\ UNCHANGED <<ready, page_bits, page_table>>

alloc(size) ==
    /\ ready /\ size % MINALLOC = 0 /\ Candidates(size) # {}
    /\ Mmap(size)
    /\ LET i == Best(size)[1]
           j == Best(size)[2]
           k == Min({s \in Slots : page_table[i][s] = NULL}) IN
        /\ page_bits' = [page_bits EXCEPT ![i] = [b \in Bytes |-> IF b \in j .. j + size - 1 THEN 1 ELSE @[b]]]
        /\ page_table' = [page_table EXCEPT ![i][k] = [addr |-> j, length |-> size]]
    /\ refused' = NULL /\ UNCHANGED ready

\* clears n bytes of the chunk in slot k of page i
Release(i, k, n) ==
    /\ ready /\ page_table[i][k] # NULL
    /\ page_bits' = [page_bits EXCEPT ![i] = [b \in Bytes |->
           IF b \in page_table[i][k].addr .. page_table[i][k].addr + n - 1 THEN 0 ELSE @[b]]]
    /\ page_table' = [page_table EXCEPT ![i][k] = NULL]
    /\ refused' = NULL /\ UNCHANGED <<ready, page_start>>

dealloc_min(i, k) == Release(i, k, MINALLOC)

\* dealloc of the address of that chunk; NULL and other addresses change nothing
dealloc(i, k) == Release(i, k, page_table[i][k].length)

Next ==
    \/ init_alloc \/ cleanup
    \/ \E size \in Sizes : alloc_ragged(size) \/ alloc_mmap_fails(size) \/ alloc_full(size) \/ alloc(size)
    \/ \E i \in Pages, k \in Slots : dealloc(i, k)

Spec == Init /\ [][Next]_evars

----------------------------------------------------------------------------
Covering(i, b) == {k \in Slots : page_table[i][k] # NULL
    /\ b \in page_table[i][k].addr .. page_table[i][k].addr + page_table[i][k].length - 1}

ChunksAreMapped == ready /\ "MAP_FAILED" \notin {page_start[i] : i \in Pages} =>
    \A i \in Pages, k \in Slots : page_table[i][k] # NULL =>
        page_start[i] = "page" /\ page_table[i][k].addr + page_table[i][k].length <= PAGESIZE

\* A byte is marked as used exactly when one chunk of its page's table covers
\* it, so no two chunks overlap and no freed byte is lost (alloc, dealloc); and
\* every chunk lies in a page that mmap returned, unless an mmap has failed.
BytesMatchChunks == ChunksAreMapped /\ \A i \in Pages, b \in Bytes : Cardinality(Covering(i, b)) = page_bits[i][b]

NoRoom(i, size) == \A j \in Bytes : \E b \in j .. j + size - 1 : b >= PAGESIZE \/ page_bits[i][b] = 1

\* there is no room for what alloc has refused, and no page left to map
RefusedForGood == refused # NULL =>
    refused > PAGESIZE \/ \A i \in Pages : page_start[i] # NULL /\ NoRoom(i, refused)

\* what a step may do to the pages, and what a refusal must find
Grows ==
    /\ ready /\ ready' /\ page_start' # page_start => \E size \in Sizes :
          /\ alloc(size) \/ alloc_full(size) \/ alloc_mmap_fails(size)
          /\ \A i \in Pages : page_start[i] # NULL => NoRoom(i, size)
    /\ RefusedForGood'

\* A page is mapped only when no page that is mapped has room for the request
\* (the tests of the allocator watch the size of the process), and alloc answers
\* NULL to a request for whole granules only when there is no room and no page
\* left to map.
GrowsOnlyWhenFull == [][Grows]_evars
=============================================================================
