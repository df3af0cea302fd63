----------------------------- MODULE ByteQueue -----------------------------
(***************************************************************************)
(* What a pipe promises: a bounded first-in first-out queue of bytes, with *)
(* an end of file once its writers are gone and it is empty.               *)
(***************************************************************************)
EXTENDS Sequences, Naturals

CONSTANTS Bytes, SIZE

VARIABLES q,        \* the bytes written and not yet read
          got,      \* the bytes the last read returned
          writers   \* whether the write end is open

Init == q = <<>> /\ got = <<>> /\ writers = TRUE

Write == /\ writers
         /\ \E k \in 1 .. SIZE - Len(q) : \E s \in [1 .. k -> Bytes] : q' = q \o s
         /\ UNCHANGED <<got, writers>>

Read == /\ \E k \in 1 .. Len(q) : got' = SubSeq(q, 1, k) /\ q' = SubSeq(q, k + 1, Len(q))
        /\ UNCHANGED writers

EndOfFile == q = <<>> /\ ~writers /\ got' = <<>> /\ UNCHANGED <<q, writers>>

Close == writers' = FALSE /\ UNCHANGED <<q, got>>

Next == Write \/ Read \/ EndOfFile \/ Close

Spec == Init /\ [][Next]_<<q, got, writers>>
=============================================================================
