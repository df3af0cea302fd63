----------------------------- MODULE LineQueue ------------------------------
(***************************************************************************)
(* What the console promises its readers: characters enter a queue as      *)
(* whole lines, can be erased only before that, and each is read once, in  *)
(* the order typed.                                                        *)
(***************************************************************************)
EXTENDS Integers, Sequences

CONSTANTS Procs, Chars, Ends, SIZE

VARIABLES queue,    \* what readers may take
          pending,  \* the line being typed
          got       \* per process: what its current or last read has taken

Init == queue = <<>> /\ pending = <<>> /\ got = [p \in Procs |-> <<>>]

Type(c) ==
    /\ Len(queue) + Len(pending) < SIZE
    /\ IF c \in Ends \/ Len(queue) + Len(pending) = SIZE - 1
       THEN queue' = queue \o Append(pending, c) /\ pending' = <<>>
       ELSE pending' = Append(pending, c) /\ UNCHANGED queue
    /\ UNCHANGED got

Erase(n) == pending' = SubSeq(pending, 1, n) /\ UNCHANGED <<queue, got>>

Start(p) == got' = [got EXCEPT ![p] = <<>>] /\ UNCHANGED <<queue, pending>>

\* the character is delivered, or is an end of file and is not
Take(p) ==
    /\ queue # <<>>
    /\ queue' = Tail(queue)
    /\ \/ Head(queue) # "^D" /\ got' = [got EXCEPT ![p] = Append(@, Head(queue))]
       \/ Head(queue) = "^D" /\ got[p] = <<>> /\ UNCHANGED got
    /\ UNCHANGED pending

Next ==
    \/ \E c \in Chars : Type(c)
    \/ \E n \in 0 .. Len(pending) : Erase(n)
    \/ \E p \in Procs : Start(p) \/ Take(p)

Spec == Init /\ [][Next]_<<queue, pending, got>>
=============================================================================
