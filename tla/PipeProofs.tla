----------------------------- MODULE PipeProofs -----------------------------
(***************************************************************************)
(* A pipe loses no wakeup, frees its page only when nobody is in pipe.c,   *)
(* and is a bounded first-in first-out queue, for every set of processes,  *)
(* ring size, counter width and program.                                   *)
(*                                                                         *)
(* PipeIInv is inductive.  SleepersHaveReason needs Ends: a writer without *)
(* readers leaves without waking anybody, and only because a sleeping      *)
(* reader holds a descriptor does readopen tell it that there is none.     *)
(* The ring's arithmetic needs that the counters are never further apart   *)
(* than the ring is long, modulo their width.                              *)
(***************************************************************************)
EXTENDS Pipe, TLAPS, SequenceTheorems

----------------------------------------------------------------------------
(* Division with remainder, as the ring's indices need it.                 *)

(* A number is its quotient times the divisor plus its remainder.          *)
LEMMA DivMod ==
  ASSUME NEW a \in Int, NEW m \in Nat \ {0}
  PROVE  a = m * (a \div m) + (a % m) /\ (a \div m) \in Int /\ (a % m) \in 0 .. m - 1
  BY Z3

(* The remainder is the only one.                                          *)
LEMMA ModUnique ==
  ASSUME NEW a \in Int, NEW m \in Nat \ {0}, NEW q \in Int, NEW r \in 0 .. m - 1, a = m * q + r
  PROVE  a % m = r
  BY Z3

(* A counter that runs over or under once.                                 *)
LEMMA ModSub ==
  ASSUME NEW m \in Nat \ {0}, NEW x \in 0 .. m - 1, NEW y \in 0 .. m - 1
  PROVE  (x - y) % m = IF y <= x THEN x - y ELSE x - y + m
  BY Z3

(* A counter that runs over at most once.                                  *)
LEMMA ModAdd ==
  ASSUME NEW m \in Nat \ {0}, NEW x \in 0 .. m - 1, NEW k \in 0 .. m
  PROVE  (x + k) % m = IF x + k < m THEN x + k ELSE x + k - m
  BY Z3

(* An index into the ring does not see the counter's wrap, because the     *)
(* counter's width is a multiple of the ring's size.                       *)
LEMMA ModMod ==
  ASSUME NEW a \in Int, NEW m \in Nat \ {0}, NEW k \in Nat \ {0}, m % k = 0
  PROVE  (a % m) % k = a % k
<1> DEFINE c == m \div k
           d == a \div m
           r == a % m
           e == r \div k
           s == r % k
<1>1. m = k * c /\ c \in Int
  BY DivMod, Z3
<1>2. a = m * d + r /\ r \in Int /\ d \in Int
  BY DivMod, Z3
<1>3. r = k * e + s /\ s \in 0 .. k - 1 /\ e \in Int
  BY <1>2, DivMod, Z3
<1> HIDE DEF c, d, r, e, s
<1>4. a = (k * c) * d + (k * e + s)
  BY <1>1, <1>2, <1>3
<1>5. (k * c) * d = k * (c * d) /\ k * (c * d + e) = k * (c * d) + k * e
  BY <1>1, <1>2, <1>3, Z3
<1>6. /\ (k * c) * d \in Int /\ k * (c * d) \in Int /\ k * (c * d + e) \in Int
      /\ k * e \in Int /\ c * d + e \in Int
  BY <1>1, <1>2, <1>3, Z3
<1>7. a = k * (c * d + e) + s
  BY <1>3, <1>4, <1>5, <1>6
<1>8. a % k = s
  BY <1>3, <1>6, <1>7, ModUnique
<1> QED
  BY <1>8 DEF r, s

(* An offset may be added before or after the counter wraps.              *)
LEMMA ModShift ==
  ASSUME NEW a \in Int, NEW m \in Nat \ {0}, NEW k \in Nat \ {0}, m % k = 0
  PROVE  (a - m) % k = a % k
<1> DEFINE c == m \div k
           e == a \div k
           s == a % k
<1>1. m = k * c /\ c \in Int
  BY DivMod, Z3
<1>2. a = k * e + s /\ s \in 0 .. k - 1 /\ e \in Int
  BY DivMod, Z3
<1> HIDE DEF c, e, s
<1>3. k * (e - c) = k * e - k * c /\ k * e \in Int /\ k * c \in Int /\ e - c \in Int
  BY <1>1, <1>2, Z3
<1>4. a - m = k * (e - c) + s /\ a - m \in Int
  BY <1>1, <1>2, <1>3
<1>5. (a - m) % k = s
  BY <1>2, <1>3, <1>4, ModUnique
<1> QED
  BY <1>5 DEF s

(* Two positions closer than the ring is long share no slot.               *)
LEMMA ModDistinct ==
  ASSUME NEW a \in Int, NEW b \in Int, NEW k \in Nat \ {0}, a % k = b % k, a - b < k, b - a < k
  PROVE  a = b
<1> DEFINE x == a \div k
           y == b \div k
           r == a % k
<1>1. a = k * x + r /\ b = k * y + r /\ x \in Int /\ y \in Int /\ r \in Int
  BY DivMod, Z3
<1> HIDE DEF x, y, r
<1>2. k * x - k * y = k * (x - y) /\ k * x \in Int /\ k * y \in Int
  BY <1>1, Z3
<1>3. k * (x - y) < k /\ -k < k * (x - y)
  BY <1>1, <1>2
<1>4. x = y
  <2>1. CASE x - y >= 1
    BY <1>1, <1>3, <2>1, Z3
  <2>2. CASE x - y <= -1
    BY <1>1, <1>3, <2>2, Z3
  <2> QED
    BY <1>1, <2>1, <2>2
<1> QED
  BY <1>1, <1>4

----------------------------------------------------------------------------
(* The descriptors justify who is in pipe.c: whoever reads or writes holds *)
(* that end, an end somebody holds is open, and it is closed once, by the  *)
(* one process that dropped its last descriptor.                           *)
Ends ==
    /\ \A p \in Procs : pc[p] \in {"read", "read_sleep", "read_asleep"} => "r" \in fd[p]
    /\ \A p \in Procs : pc[p] \in {"write", "write_sleep", "write_asleep"} => "w" \in fd[p]
    /\ \A p \in Procs : "r" \in fd[p] => readopen
    /\ \A p \in Procs : "w" \in fd[p] => writeopen
    /\ \A p \in Procs : pc[p] = "close_r" =>
          readopen /\ \A q \in Procs : "r" \notin fd[q] /\ (pc[q] = "close_r" => q = p)
    /\ \A p \in Procs : pc[p] = "close_w" =>
          writeopen /\ \A q \in Procs : "w" \notin fd[q] /\ (pc[q] = "close_w" => q = p)
    /\ freed => ~readopen /\ ~writeopen

(* Whoever reads wants as many bytes as its call asked for.                *)
Wanted == \A p \in Procs :
    pc[p] \in {"read", "read_sleep", "read_asleep"} => n[p] \in ReadSizes

(* The inductive invariant.                                                *)
PipeIInv == TypeOK /\ Used <= PIPESIZE /\ Ends /\ Wanted /\ SleepersHaveReason

----------------------------------------------------------------------------
(* The counters' distance is a number below the counters' width, zero when *)
(* the pipe is empty and PIPESIZE when it is full.                         *)
LEMMA Distance ==
  ASSUME NEW r \in 0 .. UINT - 1, NEW w \in 0 .. UINT - 1
  PROVE  /\ (w - r) % UINT \in 0 .. UINT - 1
         /\ (w - r) % UINT = IF r <= w THEN w - r ELSE w - r + UINT
         /\ r = w <=> (w - r) % UINT = 0
         /\ w = (r + PIPESIZE) % UINT <=> (w - r) % UINT = PIPESIZE
<1>1. UINT \in Nat \ {0} /\ PIPESIZE \in 0 .. UINT /\ PIPESIZE < UINT
  BY PipeAssumption
<1>2. (w - r) % UINT = IF r <= w THEN w - r ELSE w - r + UINT
  BY <1>1, ModSub, Zenon
<1>3. (r + PIPESIZE) % UINT = IF r + PIPESIZE < UINT THEN r + PIPESIZE ELSE r + PIPESIZE - UINT
  BY <1>1, ModAdd, Zenon
<1> QED
  BY <1>1, <1>2, <1>3

(* So it is for the pipe's own counters.                                   *)
LEMMA UsedRange ==
  ASSUME TypeOK
  PROVE  /\ Used \in 0 .. UINT - 1
         /\ Used = IF nread <= nwrite THEN nwrite - nread ELSE nwrite - nread + UINT
         /\ Empty <=> Used = 0
         /\ Full <=> Used = PIPESIZE
  BY Distance, Zenon DEF TypeOK, Used, Empty, Full

(* Reading k bytes makes the queue k bytes shorter.                        *)
LEMMA UsedAfterRead ==
  ASSUME TypeOK, NEW k \in 0 .. Used, nread' = (nread + k) % UINT, nwrite' = nwrite
  PROVE  nread' \in 0 .. UINT - 1 /\ Used' = Used - k
<1>1. nread \in 0 .. UINT - 1 /\ nwrite \in 0 .. UINT - 1 /\ UINT \in Nat \ {0}
  BY PipeAssumption DEF TypeOK
<1>2. /\ Used \in 0 .. UINT - 1
      /\ Used = IF nread <= nwrite THEN nwrite - nread ELSE nwrite - nread + UINT
  BY UsedRange
<1>3. nread' = IF nread + k < UINT THEN nread + k ELSE nread + k - UINT
  <2>1. k \in 0 .. UINT
    BY <1>1, <1>2
  <2> QED
    BY <1>1, <2>1, ModAdd, Zenon
<1>4. nread' \in 0 .. UINT - 1
  BY <1>1, <1>2, <1>3
<1>5. Used' = IF nread' <= nwrite THEN nwrite - nread' ELSE nwrite - nread' + UINT
  BY <1>1, <1>4, ModSub, Zenon DEF Used
<1> QED
  BY <1>1, <1>2, <1>3, <1>4, <1>5

(* Writing k bytes that fit makes it k bytes longer.                       *)
LEMMA UsedAfterWrite ==
  ASSUME TypeOK, NEW k \in Nat, Used + k <= PIPESIZE, nwrite' = (nwrite + k) % UINT, nread' = nread
  PROVE  nwrite' \in 0 .. UINT - 1 /\ Used' = Used + k
<1>1. nread \in 0 .. UINT - 1 /\ nwrite \in 0 .. UINT - 1 /\ UINT \in Nat \ {0}
  BY PipeAssumption DEF TypeOK
<1>2. /\ Used \in 0 .. UINT - 1
      /\ Used = IF nread <= nwrite THEN nwrite - nread ELSE nwrite - nread + UINT
  BY UsedRange
<1>3. nwrite' = IF nwrite + k < UINT THEN nwrite + k ELSE nwrite + k - UINT
  <2>1. k \in 0 .. UINT
    BY <1>1, <1>2, PipeAssumption
  <2> QED
    BY <1>1, <2>1, ModAdd, Zenon
<1>4. nwrite' \in 0 .. UINT - 1
  BY <1>1, <1>2, <1>3, PipeAssumption
<1>5. Used' = IF nread <= nwrite' THEN nwrite' - nread ELSE nwrite' - nread + UINT
  BY <1>1, <1>4, ModSub, Zenon DEF Used
<1> QED
  BY <1>1, <1>2, <1>3, <1>4, <1>5, PipeAssumption

(* A function on the first u numbers is a sequence.                        *)
LEMMA FunctionIsSeq ==
  ASSUME NEW S, NEW u \in Nat, NEW s \in [1 .. u -> S]
  PROVE  s \in Seq(S) /\ Len(s) = u
  OBVIOUS

(* The index of a byte in the ring: the wrap of the counter cannot be seen *)
(* in it.                                                                  *)
LEMMA RingIndex ==
  ASSUME NEW r \in 0 .. UINT - 1, NEW i \in Int
  PROVE  /\ ((r + i - 1) % UINT) % PIPESIZE = (r + i - 1) % PIPESIZE
         /\ (r + i - 1) % PIPESIZE \in 0 .. PIPESIZE - 1
<1>1. UINT \in Nat \ {0} /\ PIPESIZE \in Nat \ {0} /\ UINT % PIPESIZE = 0
  BY PipeAssumption
<1>2. r + i - 1 \in Int
  BY <1>1
<1> QED
  BY <1>1, <1>2, DivMod, ModMod, Zenon

(* The bytes in the pipe, without the wrap of the counter.                 *)
QueueIsSeq ==
    /\ Queue \in Seq(Bytes)
    /\ Len(Queue) = Used
    /\ \A i \in 1 .. Used : Queue[i] = data[(nread + i - 1) % PIPESIZE]

(* They are a sequence.                                                    *)
LEMMA QueueSeq == TypeOK => QueueIsSeq
<1> SUFFICES ASSUME TypeOK PROVE QueueIsSeq
  OBVIOUS
<1>1. Used \in Nat
  BY UsedRange
<1>2. data \in [0 .. PIPESIZE - 1 -> Bytes] /\ nread \in 0 .. UINT - 1
  BY DEF TypeOK
<1>3. Queue = [i \in 1 .. Used |-> data[((nread + i - 1) % UINT) % PIPESIZE]]
  BY DEF Queue
<1>4. \A i \in 1 .. Used : i \in Int
  BY <1>1
<1>5. \A i \in 1 .. Used : Queue[i] = data[(nread + i - 1) % PIPESIZE]
  BY <1>2, <1>3, <1>4, RingIndex, Zenon
<1>6. \A i \in 1 .. Used : data[(nread + i - 1) % PIPESIZE] \in Bytes
  BY <1>2, <1>4, RingIndex, Zenon
<1>7. Queue \in [1 .. Used -> Bytes]
  BY <1>3, <1>5, <1>6, Zenon
<1> QED
  BY <1>1, <1>5, <1>7, FunctionIsSeq, Zenon DEF QueueIsSeq

(* The number of bytes a write copies is what fits.                        *)
LEMMA CopiedRange ==
  ASSUME TypeOK, Used <= PIPESIZE, NEW p \in Procs
  PROVE  /\ Len(addr[p]) \in Nat
         /\ Copied(p) \in 0 .. Len(addr[p])
         /\ Used + Copied(p) <= PIPESIZE
         /\ Copied(p) < Len(addr[p]) => Used + Copied(p) = PIPESIZE
<1>1. addr[p] \in Seq(Bytes)
  BY DEF TypeOK
<1>2. Len(addr[p]) \in Nat
  BY <1>1
<1>3. Used \in Nat
  BY UsedRange
<1> QED
  BY <1>2, <1>3, PipeAssumption DEF Copied

(* Copying into the ring keeps its type and its length within the ring.    *)
LEMMA StoreType ==
  ASSUME TypeOK, Used <= PIPESIZE, NEW p \in Procs, Store(p, Copied(p)), nread' = nread
  PROVE  /\ data' \in [0 .. PIPESIZE - 1 -> Bytes]
         /\ nwrite' \in 0 .. UINT - 1
         /\ Used' = Used + Copied(p)
<1> DEFINE k == Copied(p)
<1>1. /\ k \in Nat /\ k <= Len(addr[p]) /\ Used + k <= PIPESIZE
      /\ addr[p] \in Seq(Bytes) /\ Len(addr[p]) \in Nat
  BY CopiedRange DEF TypeOK
<1> HIDE DEF k
<1>2. \A i \in 0 .. k - 1 : addr[p][i + 1] \in Bytes
  <2> SUFFICES ASSUME NEW i \in 0 .. k - 1 PROVE addr[p][i + 1] \in Bytes
    OBVIOUS
  <2>1. i + 1 \in 1 .. Len(addr[p])
    BY <1>1
  <2> QED
    BY <1>1, <2>1
<1>3. data' = [j \in DOMAIN data |->
          IF \E i \in 0 .. k - 1 : Slot(i) = j
          THEN addr[p][(CHOOSE i \in 0 .. k - 1 : Slot(i) = j) + 1]
          ELSE data[j]]
  BY DEF Store, k
<1>4. ASSUME NEW j \in DOMAIN data PROVE data'[j] \in Bytes
  <2>1. CASE \E i \in 0 .. k - 1 : Slot(i) = j
    <3> DEFINE c == CHOOSE i \in 0 .. k - 1 : Slot(i) = j
    <3>1. c \in 0 .. k - 1
      BY <2>1, Zenon
    <3>2. data'[j] = addr[p][c + 1]
      BY <1>3, <1>4, <2>1, Zenon
    <3> QED
      BY <1>2, <3>1, <3>2, Zenon
  <2>2. CASE ~\E i \in 0 .. k - 1 : Slot(i) = j
    <3>1. data'[j] = data[j]
      BY <1>3, <1>4, <2>2, Zenon
    <3> QED
      BY <1>4, <3>1 DEF TypeOK
  <2> QED
    BY <2>1, <2>2
<1>5. data' \in [0 .. PIPESIZE - 1 -> Bytes]
  <2>1. DOMAIN data = 0 .. PIPESIZE - 1
    BY DEF TypeOK
  <2>2. data' = [j \in DOMAIN data |-> data'[j]]
    BY <1>3, Zenon
  <2> QED
    BY <1>4, <2>1, <2>2, Zenon
<1>6. nwrite' = (nwrite + k) % UINT
  BY DEF Store, k
<1> QED
  BY <1>1, <1>5, <1>6, UsedAfterWrite DEF k

----------------------------------------------------------------------------
(* Where the processes are after a step that sends p to l and wakes the    *)
(* sleepers at w.                                                          *)
LEMMA GotoPc ==
  ASSUME TypeOK, NEW p \in Procs, NEW w,
         NEW l \in {"user", "read", "read_sleep", "read_asleep", "write",
                    "write_sleep", "write_asleep", "close_r", "close_w"},
         Goto(p, l, w)
  PROVE  /\ pc' \in [Procs -> {"user", "read", "read_sleep", "read_asleep", "write",
                               "write_sleep", "write_asleep", "close_r", "close_w"}]
         /\ pc'[p] = l
         /\ \A q \in Procs : q # p => pc'[q] = IF pc[q] = w THEN Awake(w) ELSE pc[q]
  BY DEF Goto, Awake, TypeOK

(* Nobody is in pipe.c at first.                                           *)
LEMMA PipeInit == Init => PipeIInv
<1> SUFFICES ASSUME Init PROVE PipeIInv
  OBVIOUS
<1>1. TypeOK
  <2>1. data \in [0 .. PIPESIZE - 1 -> Bytes]
    BY Zenon DEF Init
  <2>2. readopen \in BOOLEAN /\ writeopen \in BOOLEAN /\ freed \in BOOLEAN
    BY Zenon DEF Init
  <2>3. killed \in [Procs -> BOOLEAN]
    BY Zenon DEF Init
  <2>4. /\ nread \in 0 .. UINT - 1 /\ nwrite \in 0 .. UINT - 1
        /\ fd \in [Procs -> SUBSET {"r", "w"}]
        /\ n \in [Procs -> ReadSizes \cup {0}]
        /\ addr \in [Procs -> Seq(Bytes)]
        /\ got \in Seq(Bytes)
    BY PipeAssumption DEF Init
  <2>5. pc \in [Procs -> {"user", "read", "read_sleep", "read_asleep", "write",
                         "write_sleep", "write_asleep", "close_r", "close_w"}]
    BY DEF Init
  <2> QED
    BY <2>1, <2>2, <2>3, <2>4, <2>5 DEF TypeOK
<1>2. Used = 0
  BY <1>1, UsedRange, PipeAssumption DEF Init, Empty
<1>3. /\ \A p \in Procs : pc[p] = "user"
      /\ readopen /\ writeopen /\ ~freed
  BY Zenon DEF Init
<1>4. Ends
  BY <1>3 DEF Ends
<1> QED
  BY <1>1, <1>2, <1>3, <1>4, PipeAssumption DEF PipeIInv, Wanted, SleepersHaveReason

(* A program calls read.                                                   *)
LEMMA SysReadStep ==
  ASSUME PipeIInv, NEW p \in Procs, NEW k \in ReadSizes, sys_read(p, k)
  PROVE  PipeIInv'
<1>0. TypeOK /\ Used <= PIPESIZE /\ Ends /\ Wanted /\ SleepersHaveReason
  BY DEF PipeIInv
<1>1. /\ pc[p] = "user" /\ "r" \in fd[p]
      /\ n' = [n EXCEPT ![p] = k]
      /\ Goto(p, "read", "none")
      /\ UNCHANGED <<data, nread, nwrite, readopen, writeopen, freed, fd, addr, killed, got>>
  BY DEF sys_read, User, ring, open
<1>2. /\ pc' \in [Procs -> {"user", "read", "read_sleep", "read_asleep", "write",
                               "write_sleep", "write_asleep", "close_r", "close_w"}]
      /\ pc'[p] = "read" /\ \A q \in Procs : q # p => pc'[q] = pc[q]
  BY <1>0, <1>1, GotoPc DEF TypeOK
<1>3. TypeOK'
  BY <1>0, <1>1, <1>2 DEF TypeOK
<1>4. Used' <= PIPESIZE
  BY <1>0, <1>1 DEF Used
<1>5. Ends'
  BY <1>0, <1>1, <1>2 DEF Ends
<1>6. Wanted'
  BY <1>0, <1>1, <1>2 DEF Wanted, TypeOK
<1>7. SleepersHaveReason'
  BY <1>0, <1>1, <1>2 DEF SleepersHaveReason, Empty, Full
<1> QED
  BY <1>3, <1>4, <1>5, <1>6, <1>7 DEF PipeIInv

(* A program calls write.                                                  *)
LEMMA SysWriteStep ==
  ASSUME PipeIInv, NEW p \in Procs, NEW s \in Messages, sys_write(p, s)
  PROVE  PipeIInv'
<1>0. TypeOK /\ Used <= PIPESIZE /\ Ends /\ Wanted /\ SleepersHaveReason
  BY DEF PipeIInv
<1>1. /\ pc[p] = "user" /\ "w" \in fd[p]
      /\ addr' = [addr EXCEPT ![p] = s]
      /\ Goto(p, "write", "none")
      /\ UNCHANGED <<data, nread, nwrite, readopen, writeopen, freed, fd, n, killed, got>>
  BY DEF sys_write, User, ring, open
<1>2. /\ pc' \in [Procs -> {"user", "read", "read_sleep", "read_asleep", "write",
                               "write_sleep", "write_asleep", "close_r", "close_w"}]
      /\ pc'[p] = "write" /\ \A q \in Procs : q # p => pc'[q] = pc[q]
  BY <1>0, <1>1, GotoPc DEF TypeOK
<1>3. TypeOK'
  BY <1>0, <1>1, <1>2, PipeAssumption DEF TypeOK
<1>4. Used' <= PIPESIZE
  BY <1>0, <1>1 DEF Used
<1>5. Ends'
  BY <1>0, <1>1, <1>2 DEF Ends
<1>6. Wanted'
  BY <1>0, <1>1, <1>2 DEF Wanted
<1>7. SleepersHaveReason'
  BY <1>0, <1>1, <1>2 DEF SleepersHaveReason, Empty, Full
<1> QED
  BY <1>3, <1>4, <1>5, <1>6, <1>7 DEF PipeIInv

(* A read takes bytes and wakes the writers: with the lock free, all of    *)
(* them are asleep and none is on its way there.                           *)
LEMMA ReadStep ==
  ASSUME PipeIInv, NEW p \in Procs, piperead(p)
  PROVE  PipeIInv'
<1>0. TypeOK /\ Used <= PIPESIZE /\ Ends /\ Wanted /\ SleepersHaveReason
  BY DEF PipeIInv
<1> DEFINE k == IF n[p] < Used THEN n[p] ELSE Used
<1>1. /\ pc[p] = "read" /\ lock_free /\ (~Empty \/ ~writeopen)
      /\ got' = SubSeq(Queue, 1, k)
      /\ nread' = (nread + k) % UINT
      /\ n' = [n EXCEPT ![p] = 0]
      /\ Goto(p, "user", "write_asleep")
      /\ UNCHANGED <<data, nwrite, readopen, writeopen, freed, fd, addr, killed>>
  BY DEF piperead, open
<1>2. /\ pc' \in [Procs -> {"user", "read", "read_sleep", "read_asleep", "write",
                               "write_sleep", "write_asleep", "close_r", "close_w"}]
      /\ pc'[p] = "user"
      /\ \A q \in Procs : q # p => pc'[q] = IF pc[q] = "write_asleep" THEN "write" ELSE pc[q]
  BY <1>0, <1>1, GotoPc DEF Awake
<1>3. k \in 0 .. Used /\ Used \in Nat
  <2>1. n[p] \in Nat
    <3>1. n[p] \in ReadSizes \cup {0}
      BY <1>0 DEF TypeOK
    <3>2. ReadSizes \subseteq Nat
      BY PipeAssumption, Zenon
    <3>3. \A x \in ReadSizes \cup {0} : x \in Nat
      BY <3>2
    <3> QED
      BY <3>1, <3>3, Zenon
  <2>2. Used \in Nat
    BY <1>0, UsedRange
  <2> QED
    BY <2>1, <2>2
<1>4. nread' \in 0 .. UINT - 1 /\ Used' = Used - k
  BY <1>0, <1>1, <1>3, UsedAfterRead
<1>5. got' \in Seq(Bytes)
  BY <1>0, <1>1, <1>3, QueueSeq DEF QueueIsSeq
<1> HIDE DEF k
<1>6. TypeOK'
  BY <1>0, <1>1, <1>2, <1>4, <1>5 DEF TypeOK
<1>7. Used' <= PIPESIZE
  BY <1>0, <1>3, <1>4, PipeAssumption
<1>8. Ends'
  BY <1>0, <1>1, <1>2 DEF Ends
<1>9. Wanted'
  BY <1>0, <1>1, <1>2 DEF Wanted, TypeOK
<1>10. SleepersHaveReason'
  <2> SUFFICES ASSUME NEW q \in Procs
               PROVE  /\ pc'[q] \in {"read_sleep", "read_asleep"} =>
                            writeopen' /\ (Empty' \/ \E r \in Procs : killed'[r])
                      /\ pc'[q] \notin {"write_sleep", "write_asleep"}
    BY DEF SleepersHaveReason
  <2>1. pc'[q] \notin {"write_sleep", "write_asleep"}
    BY <1>1, <1>2 DEF lock_free
  <2>2. ASSUME pc'[q] \in {"read_sleep", "read_asleep"}
        PROVE  writeopen' /\ \E r \in Procs : killed'[r]
    <3>1. pc[q] = pc'[q]
      BY <1>2, <2>2
    <3>2. writeopen /\ (Empty \/ \E r \in Procs : killed[r])
      BY <1>0, <2>2, <3>1 DEF SleepersHaveReason
    <3> QED
      BY <1>1, <3>2
  <2> QED
    BY <2>1, <2>2
<1> QED
  BY <1>6, <1>7, <1>8, <1>9, <1>10 DEF PipeIInv

(* A reader that finds the pipe empty.                                     *)
LEMMA ReadEmptyStep ==
  ASSUME PipeIInv, NEW p \in Procs, piperead_empty(p)
  PROVE  PipeIInv'
<1>0. TypeOK /\ Used <= PIPESIZE /\ Ends /\ Wanted /\ SleepersHaveReason
  BY DEF PipeIInv
<1>1. /\ pc[p] = "read" /\ Empty /\ writeopen
      /\ n' = n \/ n' = [n EXCEPT ![p] = 0]
      /\ UNCHANGED <<data, nread, nwrite, readopen, writeopen, freed, fd, addr, killed, got>>
  BY DEF piperead_empty, ring, open
<1>2. /\ pc' \in [Procs -> {"user", "read", "read_sleep", "read_asleep", "write",
                               "write_sleep", "write_asleep", "close_r", "close_w"}]
      /\ pc'[p] = "user" \/ (pc'[p] = "read_sleep" /\ n' = n)
      /\ \A q \in Procs : q # p => pc'[q] = pc[q]
  <2>1. CASE Goto(p, "user", "none")
    BY <1>0, <2>1, GotoPc DEF TypeOK
  <2>2. CASE Goto(p, "read_sleep", "none") /\ n' = n
    BY <1>0, <2>2, GotoPc DEF TypeOK
  <2> QED
    BY <2>1, <2>2 DEF piperead_empty
<1>3. TypeOK'
  BY <1>0, <1>1, <1>2 DEF TypeOK
<1>4. Used' <= PIPESIZE
  BY <1>0, <1>1 DEF Used
<1>5. Ends'
  BY <1>0, <1>1, <1>2 DEF Ends
<1>6. Wanted'
  BY <1>0, <1>1, <1>2 DEF Wanted, TypeOK
<1>7. SleepersHaveReason'
  BY <1>0, <1>1, <1>2 DEF SleepersHaveReason, Empty, Full
<1> QED
  BY <1>3, <1>4, <1>5, <1>6, <1>7 DEF PipeIInv

(* A write copies what fits.  It leaves a sleeping reader in two ways: it  *)
(* wakes it, or it gives up, and then there is no reader or it is killed.  *)
(* With a writer asleep the ring is full and nothing is copied.            *)
LEMMA WriteStep ==
  ASSUME PipeIInv, NEW p \in Procs, pipewrite(p) \/ pipewrite_full(p) \/ pipewrite_gives_up(p)
  PROVE  PipeIInv'
<1>0. TypeOK /\ Used <= PIPESIZE /\ Ends /\ Wanted /\ SleepersHaveReason
  BY DEF PipeIInv
<1>1. /\ pc[p] = "write" /\ lock_free
      /\ Store(p, Copied(p))
      /\ UNCHANGED <<nread, readopen, writeopen, freed, fd, n, killed, got>>
  BY DEF pipewrite, pipewrite_full, pipewrite_gives_up, open
<1>2. /\ data' \in [0 .. PIPESIZE - 1 -> Bytes] /\ nwrite' \in 0 .. UINT - 1
      /\ Used' = Used + Copied(p)
  BY <1>0, <1>1, StoreType
<1>3. /\ Len(addr[p]) \in Nat /\ Copied(p) \in 0 .. Len(addr[p]) /\ Used \in Nat
      /\ Used + Copied(p) <= PIPESIZE
      /\ Copied(p) < Len(addr[p]) => Used + Copied(p) = PIPESIZE
  BY <1>0, CopiedRange, UsedRange
<1>4. addr' \in [Procs -> Seq(Bytes)]
  <2>1. addr \in [Procs -> Seq(Bytes)] /\ <<>> \in Seq(Bytes)
    BY <1>0 DEF TypeOK
  <2>2. SubSeq(addr[p], Copied(p) + 1, Len(addr[p])) \in Seq(Bytes)
    <3>1. addr[p] \in Seq(Bytes)
      BY <2>1
    <3> HIDE DEF Copied
    <3> QED
      BY <1>3, <3>1
  <2>3. \E s \in Seq(Bytes) : addr' = [addr EXCEPT ![p] = s]
    BY <2>1, <2>2, Zenon DEF pipewrite, pipewrite_full, pipewrite_gives_up
  <2> QED
    BY <2>1, <2>3
<1>5. \/ pipewrite(p) /\ Goto(p, "user", "read_asleep")
      \/ pipewrite_full(p) /\ Goto(p, "write_sleep", "read_asleep")
      \/ pipewrite_gives_up(p) /\ Goto(p, "user", "none")
  BY DEF pipewrite, pipewrite_full, pipewrite_gives_up
<1>6. /\ pc' \in [Procs -> {"user", "read", "read_sleep", "read_asleep", "write",
                               "write_sleep", "write_asleep", "close_r", "close_w"}]
      /\ pc'[p] = "user" \/ (pc'[p] = "write_sleep" /\ pipewrite_full(p))
      /\ \/ \A q \in Procs : q # p => pc'[q] = IF pc[q] = "read_asleep" THEN "read" ELSE pc[q]
         \/ pipewrite_gives_up(p) /\ \A q \in Procs : q # p => pc'[q] = pc[q]
  <2>1. CASE pipewrite(p) /\ Goto(p, "user", "read_asleep")
    BY <1>0, <2>1, GotoPc DEF Awake
  <2>2. CASE pipewrite_full(p) /\ Goto(p, "write_sleep", "read_asleep")
    BY <1>0, <2>2, GotoPc DEF Awake
  <2>3. CASE pipewrite_gives_up(p) /\ Goto(p, "user", "none")
    <3>1. \A q \in Procs : pc[q] # "none"
      BY <1>0 DEF TypeOK
    <3> QED
      BY <1>0, <2>3, <3>1, GotoPc
  <2> QED
    BY <1>5, <2>1, <2>2, <2>3
<1>7. TypeOK'
  BY <1>0, <1>1, <1>2, <1>4, <1>6 DEF TypeOK
<1>8. Used' <= PIPESIZE
  BY <1>2, <1>3
<1>9. Ends'
  BY <1>0, <1>1, <1>6 DEF Ends
<1>10. Wanted'
  BY <1>0, <1>1, <1>6 DEF Wanted
<1>11. ASSUME NEW q \in Procs, pc'[q] \in {"read_sleep", "read_asleep"}
       PROVE  writeopen' /\ (Empty' \/ \E r \in Procs : killed'[r])
  <2>1. pc[q] = "read_asleep" /\ pipewrite_gives_up(p)
    BY <1>1, <1>6, <1>11 DEF lock_free
  <2>2. writeopen /\ readopen
    BY <1>0, <2>1 DEF SleepersHaveReason, Ends
  <2>3. killed[p]
    BY <2>1, <2>2 DEF pipewrite_gives_up
  <2> QED
    BY <1>1, <2>2, <2>3
<1>12. ASSUME NEW q \in Procs, pc'[q] \in {"write_sleep", "write_asleep"}
       PROVE  Full' /\ readopen'
  <2>1. Used' = PIPESIZE /\ readopen
    <3>1. CASE q = p
      BY <1>2, <1>3, <1>6, <1>12, <3>1 DEF pipewrite_full
    <3>2. CASE q # p
      <4>1. pc[q] \in {"write_sleep", "write_asleep"}
        BY <1>6, <1>12, <3>2
      <4>2. Full /\ readopen
        BY <1>0, <4>1 DEF SleepersHaveReason
      <4>3. Used = PIPESIZE
        BY <1>0, <4>2, UsedRange
      <4>4. Copied(p) = 0
        BY <1>3, <4>3, PipeAssumption
      <4> QED
        BY <1>2, <1>3, <4>2, <4>3, <4>4
    <3> QED
      BY <3>1, <3>2
  <2>2. Full' <=> Used' = PIPESIZE
    <3>1. nread' \in 0 .. UINT - 1 /\ nwrite' \in 0 .. UINT - 1
      BY <1>7 DEF TypeOK
    <3> QED
      BY <3>1, Distance, Zenon DEF Used, Full
  <2> QED
    BY <1>1, <2>1, <2>2
<1>13. SleepersHaveReason'
  BY <1>11, <1>12 DEF SleepersHaveReason
<1> QED
  BY <1>7, <1>8, <1>9, <1>10, <1>13 DEF PipeIInv

(* A process that has announced its sleep goes to sleep.                   *)
LEMMA SleepStep ==
  ASSUME PipeIInv, NEW p \in Procs, sleep(p)
  PROVE  PipeIInv'
<1>0. TypeOK /\ Used <= PIPESIZE /\ Ends /\ Wanted /\ SleepersHaveReason
  BY DEF PipeIInv
<1>1. UNCHANGED <<data, nread, nwrite, readopen, writeopen, freed, fd, addr, n, killed, got>>
  BY DEF sleep, ring, open
<1>2. /\ pc' \in [Procs -> {"user", "read", "read_sleep", "read_asleep", "write",
                               "write_sleep", "write_asleep", "close_r", "close_w"}]
      /\ \/ pc[p] = "read_sleep" /\ pc'[p] = "read_asleep"
         \/ pc[p] = "write_sleep" /\ pc'[p] = "write_asleep"
      /\ \A q \in Procs : q # p => pc'[q] = pc[q]
  <2>1. \A q \in Procs : pc[q] # "none"
    BY <1>0 DEF TypeOK
  <2>2. CASE pc[p] = "read_sleep" /\ Goto(p, "read_asleep", "none")
    BY <1>0, <2>1, <2>2, GotoPc
  <2>3. CASE pc[p] = "write_sleep" /\ Goto(p, "write_asleep", "none")
    BY <1>0, <2>1, <2>3, GotoPc
  <2> QED
    BY <2>2, <2>3 DEF sleep
<1>3. TypeOK'
  BY <1>0, <1>1, <1>2 DEF TypeOK
<1>4. Used' <= PIPESIZE
  BY <1>0, <1>1 DEF Used
<1>5. Ends'
  BY <1>0, <1>1, <1>2 DEF Ends
<1>6. Wanted'
  BY <1>0, <1>1, <1>2 DEF Wanted
<1>7. SleepersHaveReason'
  BY <1>0, <1>1, <1>2 DEF SleepersHaveReason, Empty, Full
<1> QED
  BY <1>3, <1>4, <1>5, <1>6, <1>7 DEF PipeIInv

(* Dropping a descriptor: whoever drops the last one of an end closes it.  *)
LEMMA FilecloseStep ==
  ASSUME PipeIInv, NEW p \in Procs, NEW end \in {"r", "w"}, fileclose(p, end)
  PROVE  PipeIInv'
<1>0. TypeOK /\ Used <= PIPESIZE /\ Ends /\ Wanted /\ SleepersHaveReason
  BY DEF PipeIInv
<1>1. /\ pc[p] = "user" /\ end \in fd[p]
      /\ fd' = [fd EXCEPT ![p] = @ \ {end}]
      /\ UNCHANGED <<data, nread, nwrite, readopen, writeopen, freed, addr, n, killed, got>>
  BY DEF fileclose, ring, open
<1>2. /\ fd' \in [Procs -> SUBSET {"r", "w"}]
      /\ fd'[p] = fd[p] \ {end} /\ \A q \in Procs : q # p => fd'[q] = fd[q]
  BY <1>0, <1>1 DEF TypeOK
<1>3. /\ pc' \in [Procs -> {"user", "read", "read_sleep", "read_asleep", "write",
                               "write_sleep", "write_asleep", "close_r", "close_w"}]
      /\ \/ pc'[p] = "user"
         \/ pc'[p] = "close_r" /\ end = "r" /\ \A q \in Procs \ {p} : end \notin fd[q]
         \/ pc'[p] = "close_w" /\ end = "w" /\ \A q \in Procs \ {p} : end \notin fd[q]
      /\ \A q \in Procs : q # p => pc'[q] = pc[q]
  <2>1. \A q \in Procs : pc[q] # "none"
    BY <1>0 DEF TypeOK
  <2>2. CASE Goto(p, "user", "none")
    BY <1>0, <2>1, <2>2, GotoPc
  <2>3. CASE ~(\E q \in Procs \ {p} : end \in fd[q]) /\ end = "r" /\ Goto(p, "close_r", "none")
    BY <1>0, <2>1, <2>3, GotoPc
  <2>4. CASE ~(\E q \in Procs \ {p} : end \in fd[q]) /\ end = "w" /\ Goto(p, "close_w", "none")
    BY <1>0, <2>1, <2>4, GotoPc
  <2> QED
    BY <2>2, <2>3, <2>4 DEF fileclose
<1>4. TypeOK'
  BY <1>0, <1>1, <1>2, <1>3 DEF TypeOK
<1>5. Used' <= PIPESIZE
  BY <1>0, <1>1 DEF Used
<1>6. Ends'
  BY <1>0, <1>1, <1>2, <1>3 DEF Ends
<1>7. Wanted'
  BY <1>0, <1>1, <1>3 DEF Wanted
<1>8. SleepersHaveReason'
  BY <1>0, <1>1, <1>3 DEF SleepersHaveReason, Empty, Full
<1> QED
  BY <1>4, <1>5, <1>6, <1>7, <1>8 DEF PipeIInv

(* Closing an end: nobody holds it or is in pipe.c on its behalf, and the  *)
(* sleepers of the other end are woken.                                    *)
LEMMA PipecloseStep ==
  ASSUME PipeIInv, NEW p \in Procs, pipeclose(p)
  PROVE  PipeIInv'
<1>0. TypeOK /\ Used <= PIPESIZE /\ Ends /\ Wanted /\ SleepersHaveReason
  BY DEF PipeIInv
<1>1. /\ lock_free
      /\ freed' = (~readopen' /\ ~writeopen')
      /\ UNCHANGED <<data, nread, nwrite, fd, addr, n, killed, got>>
  BY DEF pipeclose, ring
<1>2. /\ pc' \in [Procs -> {"user", "read", "read_sleep", "read_asleep", "write",
                               "write_sleep", "write_asleep", "close_r", "close_w"}]
      /\ pc'[p] = "user"
      /\ \/ /\ pc[p] = "close_w" /\ writeopen' = FALSE /\ readopen' = readopen
            /\ \A q \in Procs : q # p => pc'[q] = IF pc[q] = "read_asleep" THEN "read" ELSE pc[q]
         \/ /\ pc[p] = "close_r" /\ readopen' = FALSE /\ writeopen' = writeopen
            /\ \A q \in Procs : q # p => pc'[q] = IF pc[q] = "write_asleep" THEN "write" ELSE pc[q]
  <2>1. CASE /\ pc[p] = "close_w" /\ writeopen' = FALSE /\ readopen' = readopen
             /\ Goto(p, "user", "read_asleep")
    BY <1>0, <2>1, GotoPc DEF Awake
  <2>2. CASE /\ pc[p] = "close_r" /\ readopen' = FALSE /\ writeopen' = writeopen
             /\ Goto(p, "user", "write_asleep")
    BY <1>0, <2>2, GotoPc DEF Awake
  <2> QED
    BY <2>1, <2>2 DEF pipeclose
<1>3. /\ readopen' \in BOOLEAN /\ writeopen' \in BOOLEAN
  BY <1>0, <1>2, Zenon DEF TypeOK
<1>4. freed' \in BOOLEAN
  BY <1>1, Zenon
<1>5. TypeOK'
  BY <1>0, <1>1, <1>2, <1>3, <1>4 DEF TypeOK
<1>6. Used' <= PIPESIZE
  BY <1>0, <1>1 DEF Used
<1>7. Ends'
  <2>1. freed' => ~readopen' /\ ~writeopen'
    BY <1>1, Zenon
  <2>2. CASE /\ pc[p] = "close_w" /\ writeopen' = FALSE /\ readopen' = readopen
             /\ \A q \in Procs : q # p => pc'[q] = IF pc[q] = "read_asleep" THEN "read" ELSE pc[q]
    <3>1. \A q \in Procs : "w" \notin fd[q] /\ (pc[q] = "close_w" => q = p)
      BY <1>0, <2>2 DEF Ends
    <3> QED
      BY <1>0, <1>1, <1>2, <2>1, <2>2, <3>1 DEF Ends
  <2>3. CASE /\ pc[p] = "close_r" /\ readopen' = FALSE /\ writeopen' = writeopen
             /\ \A q \in Procs : q # p => pc'[q] = IF pc[q] = "write_asleep" THEN "write" ELSE pc[q]
    <3>1. \A q \in Procs : "r" \notin fd[q] /\ (pc[q] = "close_r" => q = p)
      BY <1>0, <2>3 DEF Ends
    <3> QED
      BY <1>0, <1>1, <1>2, <2>1, <2>3, <3>1 DEF Ends
  <2> QED
    BY <1>2, <2>2, <2>3
<1>8. Wanted'
  BY <1>0, <1>1, <1>2 DEF Wanted
<1>9. SleepersHaveReason'
  BY <1>0, <1>1, <1>2 DEF SleepersHaveReason, Empty, Full, lock_free
<1> QED
  BY <1>5, <1>6, <1>7, <1>8, <1>9 DEF PipeIInv

(* A kill wakes its victim.                                                *)
LEMMA KillStep ==
  ASSUME PipeIInv, NEW p \in Procs, kill(p)
  PROVE  PipeIInv'
<1>0. TypeOK /\ Used <= PIPESIZE /\ Ends /\ Wanted /\ SleepersHaveReason
  BY DEF PipeIInv
<1>1. /\ killed' = [killed EXCEPT ![p] = TRUE]
      /\ pc' = [pc EXCEPT ![p] = Awake(@)]
      /\ UNCHANGED <<data, nread, nwrite, readopen, writeopen, freed, fd, addr, n, got>>
  BY DEF kill, ring, open
<1>2. /\ pc' \in [Procs -> {"user", "read", "read_sleep", "read_asleep", "write",
                               "write_sleep", "write_asleep", "close_r", "close_w"}]
      /\ pc'[p] = Awake(pc[p]) /\ \A q \in Procs : q # p => pc'[q] = pc[q]
  BY <1>0, <1>1 DEF TypeOK, Awake
<1>3. /\ killed' \in [Procs -> BOOLEAN] /\ \A q \in Procs : killed[q] => killed'[q]
  BY <1>0, <1>1, Zenon DEF TypeOK
<1>4. TypeOK'
  BY <1>0, <1>1, <1>2, <1>3 DEF TypeOK
<1>5. Used' <= PIPESIZE
  BY <1>0, <1>1 DEF Used
<1>6. Ends'
  BY <1>0, <1>1, <1>2 DEF Ends, Awake
<1>7. Wanted'
  BY <1>0, <1>1, <1>2 DEF Wanted, Awake
<1>8. SleepersHaveReason'
  BY <1>0, <1>1, <1>2, <1>3 DEF SleepersHaveReason, Empty, Full, Awake
<1> QED
  BY <1>4, <1>5, <1>6, <1>7, <1>8 DEF PipeIInv

(* Every step keeps the invariant.                                         *)
LEMMA PipeStep == PipeIInv /\ [Next]_vars => PipeIInv'
<1> SUFFICES ASSUME PipeIInv, [Next]_vars PROVE PipeIInv'
  OBVIOUS
<1>1. ASSUME NEW p \in Procs, Kernel(p) PROVE PipeIInv'
  <2>1. CASE piperead(p) \/ piperead_empty(p) \/ sleep(p) \/ pipeclose(p)
    BY <2>1, ReadStep, ReadEmptyStep, SleepStep, PipecloseStep
  <2>2. CASE pipewrite(p) \/ pipewrite_full(p) \/ pipewrite_gives_up(p)
    BY <2>2, WriteStep
  <2>3. CASE exit(p)
    <3>1. PICK end \in fd[p] : fileclose(p, end)
      BY <2>3 DEF exit
    <3>2. end \in {"r", "w"}
      BY <3>1 DEF PipeIInv, TypeOK
    <3> QED
      BY <3>1, <3>2, FilecloseStep
  <2> QED
    BY <1>1, <2>1, <2>2, <2>3 DEF Kernel
<1>2. ASSUME NEW p \in Procs, Program(p) PROVE PipeIInv'
  BY <1>2, SysReadStep, SysWriteStep, FilecloseStep DEF Program, sys_close
<1>3. ASSUME NEW p \in Procs, kill(p) PROVE PipeIInv'
  BY <1>3, KillStep
<1>4. CASE UNCHANGED vars
  BY <1>4 DEF vars, ring, open, PipeIInv, TypeOK, Used, Ends, Wanted, SleepersHaveReason, Empty, Full
<1> QED
  BY <1>1, <1>2, <1>3, <1>4 DEF Next

(* What holds in every reachable state of a pipe.                          *)
LEMMA PipeInductive == Spec => []PipeIInv
  BY PipeInit, PipeStep, PTL DEF Spec

(* No wakeup is missed and the counters stay within their width: a reader  *)
(* sleeps only while the pipe is empty and can still be written, a writer  *)
(* only while it is full and can still be read, whoever writes, reads,     *)
(* closes or is killed in between.                                         *)
THEOREM NoMissedWakeup == Spec => []PipeInv
<1>1. PipeIInv => PipeInv
  BY DEF PipeIInv, PipeInv
<1> QED
  BY <1>1, PipeInductive, PTL

(* pipeclose frees the page only when no process has an end open or is in  *)
(* pipe.c, and nobody gets there afterwards.                               *)
THEOREM NoUseAfterFree == Spec => []FreedIsUnused
<1>1. PipeIInv => FreedIsUnused
  <2> SUFFICES ASSUME PipeIInv, freed, NEW p \in Procs PROVE pc[p] = "user" /\ fd[p] = {}
    BY DEF FreedIsUnused
  <2>1. TypeOK /\ Ends
    BY DEF PipeIInv
  <2>2. "r" \notin fd[p] /\ "w" \notin fd[p] /\ pc[p] # "close_r" /\ pc[p] # "close_w"
    BY <2>1 DEF Ends
  <2>3. fd[p] \subseteq {"r", "w"}
    BY <2>1 DEF TypeOK
  <2>4. pc[p] = "user"
    BY <2>1, <2>2 DEF Ends, TypeOK
  <2> QED
    BY <2>2, <2>3, <2>4
<1> QED
  BY <1>1, PipeInductive, PTL

----------------------------------------------------------------------------
(* Byte i after k bytes were read is in the slot of byte i + k.            *)
LEMMA ReadSlot ==
  ASSUME NEW r \in 0 .. UINT - 1, NEW k \in 0 .. UINT, NEW i \in Int
  PROVE  (((r + k) % UINT) + i - 1) % PIPESIZE = (r + (i + k) - 1) % PIPESIZE
<1> DEFINE x == (r + k) % UINT
           a == r + (i + k) - 1
<1>1. UINT \in Nat \ {0} /\ PIPESIZE \in Nat \ {0} /\ UINT % PIPESIZE = 0
  BY PipeAssumption
<1>2. x = IF r + k < UINT THEN r + k ELSE r + k - UINT
  BY <1>1, ModAdd, Zenon
<1> HIDE DEF x
<1>3. a \in Int /\ (x + i - 1 = a \/ x + i - 1 = a - UINT)
  <2>1. UINT \in Nat /\ r \in Int /\ k \in Int
    BY <1>1
  <2> QED
    BY <1>2, <2>1
<1>4. (a - UINT) % PIPESIZE = a % PIPESIZE
  <2> HIDE DEF a
  <2> QED
    BY <1>1, <1>3, ModShift, Zenon
<1>5. (x + i - 1) % PIPESIZE = a % PIPESIZE
  BY <1>3, <1>4, Zenon
<1> QED
  BY <1>5 DEF x

(* Bounds of what is read.                                                 *)
LEMMA ReadBounds ==
  ASSUME NEW u \in 0 .. UINT - 1, NEW k \in 0 .. u
  PROVE  u - k \in Nat /\ u \in Nat /\ k \in Nat /\ k \in 0 .. UINT
<1>1. UINT \in Nat
  BY PipeAssumption
<1> QED
  BY <1>1

(* Reading k bytes removes the k oldest ones.                              *)
LEMMA ReadTakes ==
  ASSUME TypeOK, TypeOK', NEW k \in 0 .. Used, nread' = (nread + k) % UINT, UNCHANGED <<data, nwrite>>
  PROVE  Queue' = SubSeq(Queue, k + 1, Len(Queue))
<1>1. nread' \in 0 .. UINT - 1 /\ Used' = Used - k /\ Used \in 0 .. UINT - 1
  BY UsedAfterRead, UsedRange
<1>2. Used' \in Nat /\ Used \in Nat /\ k \in Nat /\ k \in 0 .. UINT
  BY <1>1, ReadBounds
<1>4. /\ Queue' \in Seq(Bytes) /\ Len(Queue') = Used'
      /\ \A i \in 1 .. Used' : Queue'[i] = data'[(nread' + i - 1) % PIPESIZE]
  <2>1. QueueIsSeq'
    BY QueueSeq, PTL
  <2> QED
    BY <2>1 DEF QueueIsSeq
<1>5. /\ Queue \in Seq(Bytes) /\ Len(Queue) = Used
      /\ \A i \in 1 .. Used : Queue[i] = data[(nread + i - 1) % PIPESIZE]
  BY QueueSeq DEF QueueIsSeq
<1>6. ASSUME NEW i \in 1 .. Used - k PROVE Queue'[i] = Queue[i + k]
  <2>1. i \in 1 .. Used' /\ i + k \in 1 .. Used /\ i \in Int
    BY <1>1, <1>2
  <2>2. nread \in 0 .. UINT - 1
    BY DEF TypeOK
  <2>3. (nread' + i - 1) % PIPESIZE = (nread + (i + k) - 1) % PIPESIZE
    BY <1>2, <2>1, <2>2, ReadSlot, Zenon
  <2> QED
    BY <1>4, <1>5, <2>1, <2>3, Zenon
<1>7. /\ SubSeq(Queue, k + 1, Len(Queue)) \in Seq(Bytes)
      /\ Len(SubSeq(Queue, k + 1, Len(Queue))) = Used - k
      /\ \A i \in 1 .. Used - k : SubSeq(Queue, k + 1, Len(Queue))[i] = Queue[i + k]
  <2>1. /\ k + 1 \in 1 .. Len(Queue) + 1 /\ Len(Queue) \in (k + 1) - 1 .. Len(Queue)
        /\ Len(Queue) - (k + 1) + 1 = Used - k
        /\ \A i \in 1 .. Used - k : (k + 1) + i - 1 = i + k
    BY <1>1, <1>5
  <2> HIDE DEF Queue
  <2> QED
    BY <1>1, <1>5, <2>1
<1>8. \A i \in 1 .. Len(Queue') : Queue'[i] = SubSeq(Queue, k + 1, Len(Queue))[i]
  BY <1>1, <1>4, <1>6, <1>7
<1> QED
  BY <1>1, <1>4, <1>7, <1>8, SeqEqual

(* Byte j of a write goes behind the bytes in the ring.                    *)
LEMMA WriteSlot ==
  ASSUME TypeOK, NEW j \in Int
  PROVE  Slot(j) = (nread + Used + j) % PIPESIZE
<1>1. /\ UINT \in Nat \ {0} /\ PIPESIZE \in Nat \ {0} /\ UINT % PIPESIZE = 0
      /\ nread \in Int /\ nwrite \in Int
  BY PipeAssumption DEF TypeOK
<1>2. /\ Used \in Int
      /\ Used = IF nread <= nwrite THEN nwrite - nread ELSE nwrite - nread + UINT
  BY UsedRange
<1> DEFINE a == nread + Used + j
<1>3. a \in Int /\ nwrite + j \in Int /\ (nwrite + j = a \/ nwrite + j = a - UINT)
  <2>1. UINT \in Int
    BY <1>1
  <2>2. nread \in Int /\ nwrite \in Int
    BY <1>1
  <2> QED
    BY <1>2, <2>1, <2>2
<1>4. (a - UINT) % PIPESIZE = a % PIPESIZE
  <2> HIDE DEF a
  <2> QED
    BY <1>1, <1>3, ModShift, Zenon
<1>5. (nwrite + j) % PIPESIZE = a % PIPESIZE
  BY <1>3, <1>4, Zenon
<1>6. ((nwrite + j) % UINT) % PIPESIZE = (nwrite + j) % PIPESIZE
  BY <1>1, <1>3, ModMod, Zenon
<1> QED
  BY <1>5, <1>6, Zenon DEF Slot

(* Two offsets less than the ring's size apart have different slots.       *)
LEMMA SlotsDiffer ==
  ASSUME NEW r \in Int, NEW i \in 0 .. PIPESIZE - 1, NEW j \in 0 .. PIPESIZE - 1,
         (r + i) % PIPESIZE = (r + j) % PIPESIZE
  PROVE  i = j
<1>1. PIPESIZE \in Nat \ {0}
  BY PipeAssumption
<1> DEFINE a == r + i
           b == r + j
<1>2. a \in Int /\ b \in Int /\ a - b < PIPESIZE /\ b - a < PIPESIZE /\ (a = b => i = j)
  <2>1. PIPESIZE \in Int /\ i \in Int /\ j \in Int /\ i >= 0 /\ j >= 0 /\ i < PIPESIZE /\ j < PIPESIZE
    BY <1>1
  <2>2. (r + i) - (r + j) = i - j /\ (r + j) - (r + i) = j - i /\ r + i \in Int /\ r + j \in Int
    BY <2>1
  <2> QED
    BY <2>1, <2>2
<1>3. a % PIPESIZE = b % PIPESIZE
  OBVIOUS
<1> HIDE DEF a, b
<1>4. a = b
  BY <1>1, <1>2, <1>3, ModDistinct, Zenon
<1> QED
  BY <1>2, <1>4

(* A write appends the bytes that fit: each goes to a slot of its own, and *)
(* none to a slot whose byte has not been read.                            *)
LEMMA StoreAppends ==
  ASSUME TypeOK, TypeOK', Used <= PIPESIZE, NEW p \in Procs,
         Store(p, Copied(p)), nread' = nread
  PROVE  Queue' = Queue \o SubSeq(addr[p], 1, Copied(p))
<1> DEFINE k == Copied(p)
           u == Used
           s == SubSeq(addr[p], 1, k)
<1>1. /\ k \in Nat /\ k <= Len(addr[p]) /\ u + k <= PIPESIZE /\ u \in Nat
      /\ addr[p] \in Seq(Bytes) /\ Len(addr[p]) \in Nat /\ nread \in Int /\ PIPESIZE \in Nat
  BY CopiedRange, UsedRange, PipeAssumption DEF TypeOK
<1>2. Used' = u + k
  BY StoreType
<1>3. /\ Queue' \in Seq(Bytes) /\ Len(Queue') = u + k
      /\ \A i \in 1 .. u + k : Queue'[i] = data'[(nread + i - 1) % PIPESIZE]
  <2>1. QueueIsSeq'
    BY QueueSeq, PTL
  <2> QED
    BY <1>2, <2>1 DEF QueueIsSeq
<1>4. /\ Queue \in Seq(Bytes) /\ Len(Queue) = u
      /\ \A i \in 1 .. u : Queue[i] = data[(nread + i - 1) % PIPESIZE]
  BY QueueSeq DEF QueueIsSeq
<1>5. data' = [j \in DOMAIN data |->
          IF \E i \in 0 .. k - 1 : Slot(i) = j
          THEN addr[p][(CHOOSE i \in 0 .. k - 1 : Slot(i) = j) + 1]
          ELSE data[j]]
  BY DEF Store
<1>6. \A j \in Int : Slot(j) = (nread + Used + j) % PIPESIZE
  BY WriteSlot
<1>7. \A r \in Int : r % PIPESIZE \in DOMAIN data
  <2>1. DOMAIN data = 0 .. PIPESIZE - 1 /\ PIPESIZE \in Nat \ {0}
    BY PipeAssumption DEF TypeOK
  <2> QED
    BY <2>1, DivMod, Zenon
<1> HIDE DEF k, u
<1>8. /\ s \in Seq(Bytes) /\ Len(s) = k
      /\ \A i \in 1 .. k : s[i] = addr[p][i]
  <2>1. \A i \in 1 .. k : addr[p][i] \in Bytes /\ 1 + i - 1 = i
    BY <1>1
  <2>2. Len(s) = k
    BY <1>1
  <2>3. s \in Seq(Bytes)
    BY <1>1
  <2>4. \A i \in 1 .. k : s[i] = addr[p][i]
    BY <1>1
  <2> QED
    BY <2>2, <2>3, <2>4
<1>9. ASSUME NEW i \in 1 .. u PROVE Queue'[i] = Queue[i]
  <2> DEFINE x == (nread + i - 1) % PIPESIZE
  <2>1. i \in 1 .. u + k /\ nread + i - 1 \in Int
    BY <1>1
  <2>2. ~\E j \in 0 .. k - 1 : Slot(j) = x
    <3> SUFFICES ASSUME NEW j \in 0 .. k - 1, Slot(j) = x PROVE FALSE
      OBVIOUS
    <3>1. /\ j \in Int /\ i - 1 \in 0 .. PIPESIZE - 1 /\ u + j \in 0 .. PIPESIZE - 1 /\ i - 1 # u + j
          /\ nread + (i - 1) = nread + i - 1 /\ nread + (u + j) = nread + u + j
      BY <1>1
    <3>2. (nread + (u + j)) % PIPESIZE = (nread + (i - 1)) % PIPESIZE
      BY <1>6, <3>1, Zenon DEF u
    <3> QED
      BY <1>1, <3>1, <3>2, SlotsDiffer, Zenon
  <2>3. data'[x] = data[x]
    BY <1>5, <1>7, <2>1, <2>2, Zenon
  <2> QED
    BY <1>3, <1>4, <2>1, <2>3, Zenon
<1>10. ASSUME NEW i \in 1 .. k PROVE Queue'[u + i] = addr[p][i]
  <2> DEFINE x == (nread + (u + i) - 1) % PIPESIZE
             c == CHOOSE j \in 0 .. k - 1 : Slot(j) = x
  <2>1. /\ u + i \in 1 .. u + k /\ nread + (u + i) - 1 \in Int /\ i - 1 \in 0 .. k - 1 /\ i - 1 \in Int
        /\ nread + u + (i - 1) = nread + (u + i) - 1
    BY <1>1
  <2>2. Slot(i - 1) = x
    BY <1>6, <2>1, Zenon DEF u
  <2>3. c \in 0 .. k - 1 /\ Slot(c) = x
    BY <2>1, <2>2, Zenon
  <2> HIDE DEF c
  <2>4. c + 1 = i
    <3>1. /\ c \in Int /\ u + (i - 1) \in 0 .. PIPESIZE - 1 /\ u + c \in 0 .. PIPESIZE - 1
          /\ nread + (u + c) = nread + u + c /\ nread + (u + (i - 1)) = nread + (u + i) - 1
      BY <1>1, <2>3
    <3>2. (nread + (u + c)) % PIPESIZE = (nread + (u + (i - 1))) % PIPESIZE
      BY <1>6, <2>3, <3>1, Zenon DEF u
    <3>3. u + c = u + (i - 1)
      BY <1>1, <3>1, <3>2, SlotsDiffer, Zenon
    <3> QED
      BY <1>1, <3>1, <3>3
  <2>5. data'[x] = addr[p][c + 1]
    BY <1>5, <1>7, <2>1, <2>2, Zenon DEF c
  <2> QED
    BY <1>3, <2>1, <2>4, <2>5, Zenon
<1> HIDE DEF s
<1>11. /\ Queue \o s \in Seq(Bytes) /\ Len(Queue \o s) = u + k
       /\ \A i \in 1 .. u + k : (Queue \o s)[i] = IF i <= u THEN Queue[i] ELSE s[i - u]
  BY <1>4, <1>8, ConcatProperties
<1>12. \A i \in 1 .. u + k : Queue'[i] = (Queue \o s)[i]
  <2> SUFFICES ASSUME NEW i \in 1 .. u + k PROVE Queue'[i] = (Queue \o s)[i]
    OBVIOUS
  <2>1. CASE i <= u
    <3>1. i \in 1 .. u
      BY <1>1, <2>1
    <3> QED
      BY <1>9, <1>11, <2>1, <3>1
  <2>2. CASE ~(i <= u)
    <3>1. i - u \in 1 .. k /\ u + (i - u) = i
      BY <1>1, <2>2
    <3>2. Queue'[i] = s[i - u]
      BY <1>8, <1>10, <3>1, Zenon
    <3> QED
      BY <1>11, <2>2, <3>2
  <2> QED
    BY <2>1, <2>2
<1>13. Queue' = Queue \o s
  BY <1>3, <1>11, <1>12, SeqEqual
<1> QED
  BY <1>13 DEF s, k

(* An empty pipe is an empty queue.                                        *)
LEMMA FifoInit == Init => Fifo!Init
<1> SUFFICES ASSUME Init PROVE Fifo!Init
  OBVIOUS
<1>1. TypeOK /\ Used <= PIPESIZE
  BY PipeInit DEF PipeIInv
<1>2. Used = 0
  BY <1>1, UsedRange DEF Init, Empty
<1>3. Queue \in Seq(Bytes) /\ Len(Queue) = 0
  BY <1>1, <1>2, QueueSeq DEF QueueIsSeq
<1>4. Queue = <<>>
  BY <1>3
<1>5. got = <<>> /\ writeopen = TRUE
  BY Zenon DEF Init
<1> QED
  BY <1>4, <1>5 DEF Fifo!Init

(* What a write appends is a write of the queue, or nothing.               *)
LEMMA FifoWrite ==
  ASSUME PipeIInv, PipeIInv', NEW p \in Procs,
         pipewrite(p) \/ pipewrite_full(p) \/ pipewrite_gives_up(p)
  PROVE  Fifo!Write \/ UNCHANGED <<Queue, got, writeopen>>
<1>0. TypeOK /\ TypeOK' /\ Used <= PIPESIZE /\ Ends
  BY DEF PipeIInv
<1>1. /\ pc[p] = "write"
      /\ Store(p, Copied(p))
      /\ UNCHANGED <<nread, writeopen, got>>
  BY DEF pipewrite, pipewrite_full, pipewrite_gives_up, open
<1> DEFINE k == Copied(p)
           s == SubSeq(addr[p], 1, k)
<1>2. Queue' = Queue \o s
  BY <1>0, <1>1, StoreAppends
<1>3. /\ k \in Nat /\ k <= Len(addr[p]) /\ Used + k <= PIPESIZE /\ Used \in Nat
      /\ addr[p] \in Seq(Bytes) /\ Len(addr[p]) \in Nat /\ PIPESIZE \in Nat
  BY <1>0, CopiedRange, UsedRange, PipeAssumption DEF TypeOK
<1>4. Queue \in Seq(Bytes) /\ Len(Queue) = Used
  BY <1>0, QueueSeq DEF QueueIsSeq
<1> HIDE DEF k
<1>5. s \in [1 .. k -> Bytes] /\ s \in Seq(Bytes) /\ Len(s) = k
  <2>1. s \in Seq(Bytes) /\ Len(s) = k
    BY <1>3
  <2> HIDE DEF s
  <2> QED
    BY <2>1
<1> HIDE DEF s
<1>6. writeopen
  BY <1>0, <1>1 DEF Ends
<1>7. CASE k = 0
  <2>1. s = <<>>
    BY <1>5, <1>7
  <2>2. Queue' = Queue
    BY <1>2, <1>4, <2>1
  <2> QED
    BY <1>1, <2>2
<1>8. CASE k # 0
  <2>1. k \in 1 .. PIPESIZE - Len(Queue)
    BY <1>3, <1>4, <1>8
  <2> QED
    BY <1>1, <1>2, <1>5, <1>6, <2>1, Zenon DEF Fifo!Write
<1> QED
  BY <1>7, <1>8

(* A read takes what is there, or sees the end of the file.                *)
LEMMA FifoRead ==
  ASSUME 0 \notin ReadSizes, PipeIInv, PipeIInv', NEW p \in Procs, piperead(p)
  PROVE  Fifo!Read \/ Fifo!EndOfFile
<1>0. TypeOK /\ TypeOK' /\ Wanted
  BY DEF PipeIInv
<1> DEFINE k == IF n[p] < Used THEN n[p] ELSE Used
<1>1. /\ pc[p] = "read" /\ (~Empty \/ ~writeopen)
      /\ got' = SubSeq(Queue, 1, k)
      /\ nread' = (nread + k) % UINT
      /\ UNCHANGED <<data, nwrite, writeopen>>
  BY DEF piperead, open
<1>2. n[p] \in Nat /\ n[p] # 0
  <2>1. n[p] \in ReadSizes
    BY <1>0, <1>1 DEF Wanted
  <2>2. ReadSizes \subseteq Nat
    BY PipeAssumption, Zenon
  <2> QED
    BY <2>1, <2>2, Zenon
<1>3. Used \in Nat /\ (Empty <=> Used = 0)
  BY <1>0, UsedRange
<1>4. k \in 0 .. Used /\ (k = 0 => Used = 0)
  BY <1>2, <1>3
<1> HIDE DEF k
<1>5. Queue' = SubSeq(Queue, k + 1, Len(Queue))
  BY <1>0, <1>1, <1>4, ReadTakes
<1>6. Queue \in Seq(Bytes) /\ Len(Queue) = Used
  BY <1>0, QueueSeq DEF QueueIsSeq
<1>7. CASE k = 0
  <2>1. Used = 0 /\ ~writeopen
    BY <1>1, <1>3, <1>4, <1>7
  <2>2. Queue = <<>>
    BY <1>6, <2>1
  <2>3. Queue' = <<>> /\ got' = <<>>
    BY <1>1, <1>5, <1>7, <2>2
  <2> QED
    BY <1>1, <2>1, <2>2, <2>3 DEF Fifo!EndOfFile
<1>8. CASE k # 0
  <2>1. k \in 1 .. Len(Queue)
    BY <1>3, <1>4, <1>6, <1>8
  <2> QED
    BY <1>1, <1>5, <2>1, Zenon DEF Fifo!Read
<1> QED
  BY <1>7, <1>8

(* A pipe implements the bounded queue of ByteQueue: reads return the      *)
(* written bytes in order, each once, across every wrap of the ring and of *)
(* its counters, and an end of file only when no writer is left.  A read   *)
(* of zero bytes is excluded: it too returns nothing.                      *)
THEOREM PipeIsFifo ==
  ASSUME 0 \notin ReadSizes
  PROVE  Spec => ImplementsByteQueue
<1>1. ASSUME PipeIInv, PipeIInv', [Next]_vars
      PROVE  [Fifo!Next]_<<Queue, got, writeopen>>
  <2>1. ASSUME NEW p \in Procs, Kernel(p) PROVE [Fifo!Next]_<<Queue, got, writeopen>>
    <3>1. CASE piperead(p)
      BY <1>1, <3>1, FifoRead DEF Fifo!Next
    <3>2. CASE pipewrite(p) \/ pipewrite_full(p) \/ pipewrite_gives_up(p)
      BY <1>1, <3>2, FifoWrite DEF Fifo!Next
    <3>3. CASE pipeclose(p)
      BY <3>3 DEF pipeclose, ring, Queue, Used, Fifo!Next, Fifo!Close
    <3>4. CASE piperead_empty(p) \/ sleep(p) \/ exit(p)
      BY <3>4 DEF piperead_empty, sleep, exit, fileclose, ring, open, Queue, Used
    <3> QED
      BY <2>1, <3>1, <3>2, <3>3, <3>4 DEF Kernel
  <2>2. ASSUME NEW p \in Procs, Program(p) \/ kill(p) PROVE UNCHANGED <<Queue, got, writeopen>>
    BY <2>2 DEF Program, kill, sys_read, sys_write, sys_close, fileclose, ring, open, Queue, Used
  <2>3. CASE UNCHANGED vars
    BY <2>3 DEF vars, ring, open, Queue, Used
  <2> QED
    BY <1>1, <2>1, <2>2, <2>3 DEF Next
<1> QED
  BY <1>1, FifoInit, PipeInductive, PTL DEF Spec, ImplementsByteQueue, Fifo!Spec
=============================================================================
