----------------------------- MODULE FileStore ------------------------------
(***************************************************************************)
(* What reading and writing files promises: a file is a sequence, a write  *)
(* replaces or extends it at the file's offset and touches no other file.  *)
(***************************************************************************)
EXTENDS Integers, Sequences

CONSTANTS Files, Vals, Longest

VARIABLES content, off

Init == content = [i \in Files |-> <<>>] /\ off = [i \in Files |-> 0]

\* sequence s with n times v from offset o on
Written(s, o, n, v) == [k \in 1 .. IF o + n > Len(s) THEN o + n ELSE Len(s) |-> IF k \in o + 1 .. o + n THEN v ELSE s[k]]

Write(i, n, v) ==
    /\ content' = [content EXCEPT ![i] = Written(@, off[i], n, v)]
    /\ off' = [off EXCEPT ![i] = @ + n]

Seek(i, k) == k \in 0 .. Len(content[i]) /\ off' = [off EXCEPT ![i] = k] /\ UNCHANGED content

Remove(i) == content' = [content EXCEPT ![i] = <<>>] /\ off' = [off EXCEPT ![i] = 0]

\* a step changes one file
Next == \E i \in Files :
    /\ <<content'[i], off'[i]>> # <<content[i], off[i]>>
    /\ \/ Remove(i)
       \/ \E k \in 0 .. Longest : Seek(i, k)
       \/ \E n \in 1 .. Longest, v \in Vals : Write(i, n, v)

Spec == Init /\ [][Next]_<<content, off>>
=============================================================================
