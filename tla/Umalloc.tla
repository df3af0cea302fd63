------------------------------ MODULE Umalloc -------------------------------
(***************************************************************************)
(* malloc and free of xv6's user library (umalloc.c): a circular list of   *)
(* free blocks in address order.  Addresses count Headers; base, in the    *)
(* data segment, is below the heap.  The program may call sbrk itself, so  *)
(* the regions malloc gets need not touch.                                 *)
(***************************************************************************)
EXTENDS Integers, FiniteSets, FiniteSetsExt

CONSTANTS CORE,     \* 4096: the least number of Headers morecore asks for
          LIMIT,    \* bound: where sbrk fails
          Requests, \* bound: the sizes programs ask for, in Headers
          MaxSbrk   \* bound: how much they sbrk themselves

VARIABLES list,   \* [size, ptr, freep]; freep = NIL before the first malloc
          brk,
          given,  \* what malloc has returned and free has not got back: header -> size
          own     \* the addresses malloc got from sbrk

uvars == <<list, brk, given, own>>

base == 0
NIL == -1
Addrs == base .. LIMIT

Init ==
    /\ list = [size |-> [x \in Addrs |-> 0], ptr |-> [x \in Addrs |-> NIL], freep |-> NIL]
    /\ brk = 1 /\ given = [x \in {} |-> 0] /\ own = {}

\* the k-th block after freep
At(l, k) == LET at[n \in 0 .. k] == IF n = 0 THEN l.freep ELSE l.ptr[at[n - 1]] IN at[k]

\* free stops at the first p between which and p->ptr the block belongs
Place(l, bp) == At(l, Min({k \in Addrs :
    LET p == At(l, k) IN
    (bp > p /\ bp < l.ptr[p]) \/ (p >= l.ptr[p] /\ (bp > p \/ bp < l.ptr[p]))}))

\* the block at bp goes into the list and is joined with its neighbours; what
\* was the header of a joined block is no header any more
Freed(l, bp) ==
    LET p == Place(l, bp)
        q == l.ptr[p]
        up == bp + l.size[bp] = q
        down == p + l.size[p] = bp
        head == IF down THEN p ELSE bp
        gone == (IF up THEN {q} ELSE {}) \cup (IF down THEN {bp} ELSE {})
        next == IF up THEN l.ptr[q] ELSE q
        size == (IF down THEN l.size[p] ELSE 0) + l.size[bp] + IF up THEN l.size[q] ELSE 0 IN
    [size |-> [x \in Addrs |-> CASE x = head -> size [] x \in gone -> 0 [] OTHER -> l.size[x]],
     ptr |-> [x \in Addrs |-> CASE x = head -> next [] x = p /\ ~down -> bp [] x \in gone -> NIL [] OTHER -> l.ptr[x]],
     freep |-> p]

\* the first block with room; malloc takes its tail
Fitting(l, n) == {k \in Addrs \ {0} : l.size[At(l, k)] >= n}

\* p->s.size is not reduced
TakeWhole(l, n) ==
    LET p == At(l, Min(Fitting(l, n)))
        rest == l.size[p] - n IN
    [block |-> p + rest, list |-> [l EXCEPT !.size[p + rest] = n]]

Take(l, n) ==
    LET k == Min(Fitting(l, n))
        p == At(l, k)
        prevp == At(l, k - 1)
        rest == l.size[p] - n IN
    IF rest = 0
    THEN [block |-> p, list |-> [l EXCEPT !.ptr = [l.ptr EXCEPT ![prevp] = l.ptr[p], ![p] = NIL], !.freep = prevp]]
    ELSE [block |-> p + rest, list |-> [l EXCEPT !.size = [l.size EXCEPT ![p] = rest, ![p + rest] = n], !.freep = prevp]]

Started == IF list.freep = NIL THEN [list EXCEPT !.ptr[base] = base, !.freep = base] ELSE list

Give(l, n) ==
    /\ list' = Take(l, n).list
    /\ given' = [x \in DOMAIN given \cup {Take(l, n).block} |-> IF x = Take(l, n).block THEN n ELSE given[x]]

malloc(n) ==
    /\ Fitting(Started, n) # {}
    /\ Give(Started, n)
    /\ UNCHANGED <<brk, own>>

Core(n) == Max({n, CORE})

malloc_morecore(n) ==
    /\ Fitting(Started, n) = {} /\ brk + Core(n) <= LIMIT
    /\ Give(Freed([Started EXCEPT !.size[brk] = Core(n)], brk), n)
    /\ own' = own \cup brk .. brk + Core(n) - 1
    /\ brk' = brk + Core(n)

malloc_fails(n) ==
    /\ Fitting(Started, n) = {} /\ brk + Core(n) > LIMIT
    /\ list' = Started
    /\ UNCHANGED <<brk, given, own>>

free(x) ==
    /\ list' = Freed(list, x)
    /\ given' = [y \in DOMAIN given \ {x} |-> given[y]]
    /\ UNCHANGED <<brk, own>>

sbrk(n) ==
    /\ brk + n <= LIMIT
    /\ brk' = brk + n
    /\ UNCHANGED <<list, given, own>>

\* a request of n Headers of data needs one more for itself
Next ==
    \/ \E n \in Requests : malloc(n + 1) \/ malloc_morecore(n + 1) \/ malloc_fails(n + 1)
    \/ \E x \in DOMAIN given : free(x)
    \/ \E n \in 1 .. MaxSbrk : sbrk(n)

Spec == Init /\ [][Next]_uvars

----------------------------------------------------------------------------
FreeBlocks == IF list.freep = NIL THEN {} ELSE {At(list, k) : k \in Addrs} \ {base}
Extent(x) == x .. x + list.size[x] - 1

\* Free blocks and the blocks programs have tile what malloc got from sbrk:
\* nothing is given out twice, nothing is lost, and every block still has the
\* size it was given out with.  The list is in address order with one step
\* back, and no two free blocks touch: free joins them, whichever side they are
\* on (malloc, free, morecore).
BlocksTileHeap ==
    /\ \A x, y \in FreeBlocks \cup DOMAIN given : x # y => Extent(x) \cap Extent(y) = {}
    /\ UNION {Extent(x) : x \in FreeBlocks \cup DOMAIN given} = own
    /\ \A x \in DOMAIN given : list.size[x] = given[x]
    /\ Cardinality({x \in FreeBlocks \cup {base} : list.freep # NIL /\ list.ptr[x] <= x}) <= 1
    /\ \A x, y \in FreeBlocks : x + list.size[x] # y
=============================================================================
