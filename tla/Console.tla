------------------------------ MODULE Console -------------------------------
(***************************************************************************)
(* Console input of xv6 (console.c): the interrupt handler edits a ring of *)
(* characters, readers take whole lines from it.  An action is what        *)
(* happens to one character under cons.lock; a reader holds the lock from  *)
(* "read" on, and also between its test of killed and its sleep.           *)
(***************************************************************************)
EXTENDS Integers, Sequences

CONSTANTS Procs,
          INPUT_BUF,
          UINT,       \* 2^32: the indices are unsigned and wrap
          Chars,      \* bound: what is typed, besides the keys below
          ReadSizes   \* bound: how much programs read

VARIABLES input,   \* [buf, r, w, e]
          rpc,     \* per process: "user", or where it is in consoleread
          n,       \* per process: how many characters it still wants
          got,     \* per process: what the current or last read has stored
          rkilled

cvars == <<input, rpc, n, got, rkilled>>

Init ==
    /\ input = [buf |-> [i \in 0 .. INPUT_BUF - 1 |-> "\n"], r |-> 0, w |-> 0, e |-> 0]
    /\ rpc = [p \in Procs |-> "user"] /\ n = [p \in Procs |-> 0]
    /\ got = [p \in Procs |-> <<>>] /\ rkilled = [p \in Procs |-> FALSE]

lock_free == \A p \in Procs : rpc[p] \notin {"read", "sleep"}

From(i, j) == (j - i) % UINT
At(i) == input.buf[(i % UINT) % INPUT_BUF]

Wakeup == rpc' = [p \in Procs |-> IF rpc[p] = "asleep" THEN "enter" ELSE rpc[p]]

----------------------------------------------------------------------------
(* consoleintr                                                             *)
Keystroke == lock_free /\ UNCHANGED <<n, got, rkilled>>

\* a line is handed over at its end, or when the ring is full
ends(c, e) == c \in {"\n", "^D"} \/ e = (input.r + INPUT_BUF) % UINT

\* mutant: readers are not woken
consoleintr_silent(c) ==
    LET e == (input.e + 1) % UINT IN
    /\ Keystroke /\ From(input.r, input.e) < INPUT_BUF
    /\ input' = [input EXCEPT !.buf[input.e % INPUT_BUF] = c, !.e = e, !.w = IF ends(c, e) THEN e ELSE @]
    /\ UNCHANGED rpc

\* any other key, if there is room; a carriage return is a newline
consoleintr(c) ==
    LET e == (input.e + 1) % UINT IN
    /\ Keystroke /\ From(input.r, input.e) < INPUT_BUF
    /\ input' = [input EXCEPT !.buf[input.e % INPUT_BUF] = c, !.e = e, !.w = IF ends(c, e) THEN e ELSE @]
    /\ IF ends(c, e) THEN Wakeup ELSE UNCHANGED rpc

\* mutant: erases what readers may already have
backspace_any == Keystroke /\ input.e # input.r /\ input' = [input EXCEPT !.e = (@ - 1) % UINT] /\ UNCHANGED rpc

\* C('H')
backspace == Keystroke /\ input.e # input.w /\ input' = [input EXCEPT !.e = (@ - 1) % UINT] /\ UNCHANGED rpc

\* C('U'): back to w, or to a newline, whichever comes first
kill_line ==
    /\ Keystroke
    /\ \E e \in 0 .. UINT - 1 :
        LET erased == 0 .. From(e, input.e) - 1 IN
        /\ From(e, input.e) <= From(input.w, input.e)
        /\ \A k \in erased : At(e + k) # "\n"
        /\ e = input.w \/ At(e - 1) = "\n"
        /\ input' = [input EXCEPT !.e = e]
    /\ UNCHANGED rpc

----------------------------------------------------------------------------
(* consoleread                                                             *)
Goto(p, l) == rpc' = [rpc EXCEPT ![p] = l]
Return(p) == Goto(p, "user") /\ n' = [n EXCEPT ![p] = 0]

sys_read(p, k) ==
    /\ rpc[p] = "user" /\ ~rkilled[p]
    /\ n' = [n EXCEPT ![p] = k] /\ got' = [got EXCEPT ![p] = <<>>]
    /\ Goto(p, "enter")
    /\ UNCHANGED <<input, rkilled>>

acquire(p) == rpc[p] = "enter" /\ lock_free /\ Goto(p, "read") /\ UNCHANGED <<input, n, got, rkilled>>

consoleread_char(p) ==
    LET c == At(input.r) IN
    /\ rpc[p] = "read" /\ input.r # input.w /\ c # "^D"
    /\ input' = [input EXCEPT !.r = (@ + 1) % UINT]
    /\ got' = [got EXCEPT ![p] = Append(@, c)]
    /\ IF c = "\n" \/ n[p] = 1 THEN Return(p) ELSE n' = [n EXCEPT ![p] = @ - 1] /\ UNCHANGED rpc
    /\ UNCHANGED rkilled

\* an end of file is left for the next read when this one has something
consoleread_eof(p) ==
    /\ rpc[p] = "read" /\ input.r # input.w /\ At(input.r) = "^D"
    /\ input' = IF got[p] = <<>> THEN [input EXCEPT !.r = (@ + 1) % UINT] ELSE input
    /\ Return(p)
    /\ UNCHANGED <<got, rkilled>>

consoleread_empty(p) ==
    /\ rpc[p] = "read" /\ input.r = input.w
    /\ IF rkilled[p] THEN Return(p) ELSE Goto(p, "sleep") /\ UNCHANGED n
    /\ UNCHANGED <<input, got, rkilled>>

sleep(p) == rpc[p] = "sleep" /\ Goto(p, "asleep") /\ UNCHANGED <<input, n, got, rkilled>>

\* elsewhere a kill does not concern the console
kill(p) ==
    /\ rpc[p] # "user"
    /\ rkilled' = [rkilled EXCEPT ![p] = TRUE]
    /\ IF rpc[p] = "asleep" THEN Goto(p, "enter") ELSE UNCHANGED rpc
    /\ UNCHANGED <<input, n, got>>

Next ==
    \/ \E c \in Chars \cup {"\n", "^D"} : consoleintr(c)
    \/ backspace \/ kill_line
    \/ \E p \in Procs :
        \/ \E k \in ReadSizes : sys_read(p, k)
        \/ acquire(p) \/ consoleread_char(p) \/ consoleread_eof(p) \/ consoleread_empty(p)
        \/ sleep(p) \/ kill(p)

Spec == Init /\ [][Next]_cvars

----------------------------------------------------------------------------
\* A reader sleeps only while no line is waiting, also when several readers
\* share the console and one of them leaves a part of a line (consoleread),
\* and a full ring can always be read from: typing never blocks for good
\* (consoleintr).
ReadersHaveReason ==
    /\ \A p \in Procs : rpc[p] \in {"sleep", "asleep"} => input.r = input.w
    /\ From(input.r, input.e) = INPUT_BUF => input.w = input.e

Ring(i, j) == [k \in 1 .. From(i, j) |-> At(i + k - 1)]

Lines == INSTANCE LineQueue WITH
    queue <- Ring(input.r, input.w), pending <- Ring(input.w, input.e),
    Chars <- Chars \cup {"\n", "^D"}, Ends <- {"\n", "^D"}, SIZE <- INPUT_BUF

\* The ring is a queue of lines: nothing a reader may take is erased, lost or
\* read twice, across every wrap of the indices (consoleintr, consoleread).
ImplementsLineQueue == Lines!Spec
=============================================================================
