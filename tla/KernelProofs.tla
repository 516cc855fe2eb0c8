---------------------------- MODULE KernelProofs ----------------------------
(***************************************************************************)
(* Proofs about the other parts MCKernel puts side by side: the pipe, for  *)
(* every number of processes and every size of its ring; the console, for  *)
(* every number of readers; the counters of both may have any width that   *)
(* the ring divides; and the counts of inodes, for every finite number of  *)
(* processes, inodes and names.  That one part moves and the others stay   *)
(* carries the invariant of the driver over from DiskStackProofs.          *)
(***************************************************************************)
EXTENDS MCKernel, Integers, FiniteSetTheorems, SequenceTheorems, WellFoundedInduction, TLAPS

Holders(e) == {p \in Procs : e \in ends[p]}
Writing == {"write", "full", "wsleep"}
Reading == {"read", "empty", "rsleep", "copy"}
Inside == {"write", "full", "read", "empty", "copy"}
Final == {"closer", "closew", "kfree"}

(* Who has the lock, and who is in a system call.                          *)
Places ==
  /\ \A p \in Procs : at[p] \in Inside <=> plock = p
  /\ \A p \in Procs : at[p] \in Writing => "w" \in ends[p]
  /\ \A p \in Procs : at[p] \in Reading => "r" \in ends[p]
  /\ \A p \in Procs : at[p] = "unborn" => ends[p] = {}

(* The references to the two files, and what follows the last of them:     *)
(* one process closes an end, and one gives the page back.                 *)
Counted == \A e \in {"r", "w"} : ref[e] = Cardinality(Holders(e))
Closing ==
  /\ \A p \in Procs : ends[p] \subseteq openEnds
  /\ \A p \in Procs : at[p] = "closer" => "r" \in openEnds /\ Holders("r") = {}
  /\ \A p \in Procs : at[p] = "closew" => "w" \in openEnds /\ Holders("w") = {}
  /\ \A p, q \in Procs : at[p] \in Final /\ at[q] = at[p] => p = q
  /\ \A p \in Procs : at[p] = "kfree" => openEnds = {} /\ ~kfreed
  /\ kfreed => openEnds = {}

(* A sleeper may miss what he waits for only until the holder of the lock  *)
(* wakes him: a writer on his way out, or a reader that copies.            *)
Sleepers ==
  /\ \A p \in asleep : at[p] \in {"rsleep", "wsleep"}
  /\ \A p \in asleep : at[p] = "rsleep" =>
       \/ cut \/ (P!Empty /\ "w" \in openEnds)
       \/ \E q \in Procs : plock = q /\ at[q] = "write"
  /\ \A p \in asleep : at[p] = "wsleep" =>
       \/ P!Full /\ "r" \in openEnds
       \/ \E q \in Procs : plock = q /\ at[q] = "copy"
  /\ \A p \in Procs : at[p] = "full" => P!Full /\ "r" \in openEnds
  /\ \A p \in Procs : at[p] = "empty" => P!Empty /\ "w" \in openEnds

(* The bytes inside.                                                       *)
Count == (nwrite + UINT - nread) % UINT
Ring == Count <= PIPESIZE

PipeInv == P!PipeTypeOK /\ Places /\ Counted /\ Closing /\ Sleepers /\ Ring
-----------------------------------------------------------------------------
(* Cardinality is the same in the module of the pipe and in this one.      *)
LEMMA SameSize ==
  /\ \A S : P!Cardinality(S) = Cardinality(S)
  /\ \A S : P!IsFiniteSet(S) <=> IsFiniteSet(S)
BY DEF P!Cardinality, Cardinality, P!IsFiniteSet, IsFiniteSet

(* A remainder is below the divisor.                                       *)
LEMMA RemainderType ==
  ASSUME NEW n \in Nat, n > 0, NEW x \in Int
  PROVE  x % n \in 0..(n - 1)
OBVIOUS

(* Division.                                                               *)
LEMMA Quotient ==
  ASSUME NEW n \in Nat, n > 0, NEW x \in Int
  PROVE  \E q \in Int : x = q * n + (x % n)
OBVIOUS

(* A product is at least a factor.                                         *)
LEMMA Multiple ==
  ASSUME NEW n \in Nat, n > 0, NEW k \in Int, k >= 1
  PROVE  k * n >= n
OBVIOUS

(* The remainder is determined by a quotient.                              *)
LEMMA RemainderUnique ==
  ASSUME NEW n \in Nat, n > 0, NEW x \in Int, NEW q \in Int, NEW r \in 0..(n - 1),
         x = q * n + r
  PROVE  x % n = r
<1>1. PICK k \in Int : x = k * n + (x % n)
  BY Quotient
<1>2. x % n \in 0..(n - 1)
  BY RemainderType
<1>3. (q - k) * n = (x % n) - r /\ (k - q) * n = r - (x % n)
  BY <1>1, <1>2
<1>4. ~(q - k >= 1)
  BY <1>2, <1>3, Multiple
<1>5. ~(k - q >= 1)
  BY <1>2, <1>3, Multiple
<1>6. q = k
  BY <1>4, <1>5
<1> QED BY <1>1, <1>2, <1>6

(* Numbers that differ by a multiple have the same remainder.              *)
LEMMA RemainderShift ==
  ASSUME NEW n \in Nat, n > 0, NEW x \in Int, NEW m \in Int, m % n = 0
  PROVE  (x + m) % n = x % n
<1>1. PICK q \in Int : x = q * n + (x % n)
  BY Quotient
<1>2. PICK k \in Int : m = k * n + (m % n)
  BY Quotient
<1>3. x % n \in 0..(n - 1) /\ k * n \in Int /\ q * n \in Int
  BY RemainderType
<1>4. x + m = (q + k) * n + (x % n)
  BY <1>1, <1>2, <1>3
<1> QED BY <1>3, <1>4, RemainderUnique

(* Numbers less than n apart have different remainders.                    *)
LEMMA RemainderApart ==
  ASSUME NEW n \in Nat, n > 0, NEW x \in Int, NEW y \in Int, x < y, y < x + n
  PROVE  x % n # y % n
<1> SUFFICES ASSUME x % n = y % n
             PROVE  FALSE
  OBVIOUS
<1>1. PICK q \in Int : x = q * n + (x % n)
  BY Quotient
<1>2. PICK k \in Int : y = k * n + (y % n)
  BY Quotient
<1>3. x % n \in Int
  BY RemainderType
<1>4. (k - q) * n = y - x
  BY <1>1, <1>2, <1>3
<1>5. k - q >= 1
  <2>1. ~(k - q <= 0)
    BY <1>4
  <2> QED BY <2>1
<1> QED BY <1>4, <1>5, Multiple

(* The remainder of a number below twice the divisor.                      *)
LEMMA RemainderOnce ==
  ASSUME NEW n \in Nat, n > 0, NEW x \in Nat, x < n + n
  PROVE  x % n = IF x < n THEN x ELSE x - n
<1>1. CASE x < n
  BY <1>1
<1>2. CASE x >= n
  BY <1>2
<1> QED BY <1>1, <1>2

(* A wrap of the counter does not move the index into the ring.            *)
LEMMA Index ==
  ASSUME P!PipeConstants, NEW x \in Int
  PROVE  (x + UINT) % PIPESIZE = x % PIPESIZE
<1>0. PIPESIZE \in Nat /\ PIPESIZE > 0 /\ UINT \in Int /\ UINT % PIPESIZE = 0
  BY DEF P!PipeConstants
<1> QED BY <1>0, RemainderShift, Zenon

(* The next value of a counter.                                            *)
LEMMA Successor ==
  ASSUME P!PipeConstants, NEW c \in 0..(UINT - 1)
  PROVE  (c + 1) % UINT = IF c < UINT - 1 THEN c + 1 ELSE 0
BY RemainderOnce DEF P!PipeConstants

(* How far a counter is ahead of another one.                              *)
LEMMA Ahead ==
  ASSUME P!PipeConstants, NEW w \in 0..(UINT - 1), NEW r \in 0..(UINT - 1)
  PROVE  (w + UINT - r) % UINT = IF w >= r THEN w - r ELSE w + UINT - r
<1>1. w + UINT - r \in Nat /\ w + UINT - r < UINT + UINT /\ UINT \in Nat /\ UINT > 0
  BY DEF P!PipeConstants
<1>2. (w + UINT - r) % UINT = IF w + UINT - r < UINT THEN w + UINT - r ELSE w + UINT - r - UINT
  BY <1>1, RemainderOnce
<1> QED BY <1>1, <1>2

(* Full and empty, by the number of bytes.                                 *)
LEMMA Levels ==
  ASSUME P!PipeConstants, P!PipeTypeOK
  PROVE  /\ Count \in 0..(UINT - 1)
         /\ Count = IF nwrite >= nread THEN nwrite - nread ELSE nwrite + UINT - nread
         /\ P!Empty <=> Count = 0
         /\ P!Full <=> Count = PIPESIZE
<1>1. nread \in 0..(UINT - 1) /\ nwrite \in 0..(UINT - 1) /\ UINT \in Nat
      /\ PIPESIZE \in Nat /\ PIPESIZE < UINT /\ PIPESIZE > 0
  BY DEF P!PipeConstants, P!PipeTypeOK
<1>2. Count = IF nwrite >= nread THEN nwrite - nread ELSE nwrite + UINT - nread
  BY <1>1, Ahead DEF Count
<1>3. (nread + PIPESIZE) % UINT = IF nread + PIPESIZE < UINT THEN nread + PIPESIZE ELSE nread + PIPESIZE - UINT
  BY <1>1, RemainderOnce
<1> QED BY <1>1, <1>2, <1>3 DEF P!Empty, P!Full

(* A byte is written only if there is room, and read only if there is one. *)
LEMMA PipeRingStep ==
  ASSUME P!PipeConstants, P!PipeTypeOK, Ring, [P!Next]_pipeVars, P!PipeTypeOK'
  PROVE  Ring'
<1> USE DEF P!fileVars, P!ringVars
<1>0. /\ Count' = (IF nwrite' >= nread' THEN nwrite' - nread' ELSE nwrite' + UINT - nread')
      /\ nread \in 0..(UINT - 1) /\ nwrite \in 0..(UINT - 1)
      /\ UINT \in Nat /\ PIPESIZE \in Nat /\ PIPESIZE < UINT
  <2>1. nread' \in 0..(UINT - 1) /\ nwrite' \in 0..(UINT - 1)
    BY DEF P!PipeTypeOK
  <2>2. Count' = (nwrite' + UINT - nread') % UINT
    BY DEF Count
  <2> QED BY <2>1, <2>2, Ahead DEF P!PipeConstants, P!PipeTypeOK
<1>1. CASE nwrite' = nwrite /\ nread' = nread
  BY <1>1, Levels DEF Ring, Count
<1>2. ASSUME NEW p \in Procs, P!WriteByte(p), ~(nwrite' = nwrite /\ nread' = nread)
      PROVE  Ring'
  <2>1. ~P!Full /\ nwrite' = (nwrite + 1) % UINT /\ nread' = nread
    BY <1>2 DEF P!WriteByte
  <2>2. Count < PIPESIZE /\ Count = IF nwrite >= nread THEN nwrite - nread ELSE nwrite + UINT - nread
    BY <1>0, <2>1, Levels DEF Ring
  <2>3. nwrite' = IF nwrite < UINT - 1 THEN nwrite + 1 ELSE 0
    BY <1>0, <2>1, Successor
  <2>4. Count' <= PIPESIZE
    BY <1>0, <2>1, <2>2, <2>3
  <2> QED BY <2>4 DEF Ring
<1>3. ASSUME NEW p \in Procs, P!Copy(p), ~(nwrite' = nwrite /\ nread' = nread)
      PROVE  Ring'
  <2>1. ~P!Empty /\ nread' = (nread + 1) % UINT /\ nwrite' = nwrite
    BY <1>3 DEF P!Copy
  <2> QED BY <1>0, <2>1, Levels, Successor DEF Ring
<1>4. \/ nwrite' = nwrite /\ nread' = nread
      \/ \E p \in Procs : P!WriteByte(p) \/ P!Copy(p)
  <2>1. ASSUME NEW p \in Procs, P!Locked(p)
        PROVE  \/ nwrite' = nwrite /\ nread' = nread
               \/ P!WriteByte(p) \/ P!Copy(p)
    BY <2>1 DEF P!Locked, P!Written, P!WriteCut, P!WriteFull, P!WriteByte, P!Sleep, P!Read, P!Copy
  <2>2. ASSUME NEW p \in Procs,
               \/ P!Call(p, "w", "write") \/ P!Call(p, "r", "read") \/ P!Resume(p)
               \/ \E e \in {"r", "w"} : P!FileClose(p, e)
               \/ P!PipeClose(p) \/ P!Kfree(p) \/ P!Kill(p) \/ \E q \in Procs : P!Fork(p, q)
        PROVE  nwrite' = nwrite /\ nread' = nread
    BY <2>2 DEF P!Call, P!Resume, P!FileClose, P!PipeClose, P!Kfree, P!Kill, P!Fork
  <2>3. CASE UNCHANGED pipeVars
    BY <2>3 DEF pipeVars
  <2> QED BY <2>1, <2>2, <2>3 DEF P!Next
<1> QED BY <1>1, <1>2, <1>3, <1>4
-----------------------------------------------------------------------------
(* filedup and fileclose count the descriptors.                            *)
LEMMA CountedStep ==
  ASSUME P!PipeConstants, PipeInv, [P!Next]_pipeVars
  PROVE  Counted'
<1> USE DEF P!fileVars, P!ringVars
<1>t. P!PipeTypeOK /\ Places /\ Counted
  BY DEF PipeInv
<1>1. CASE ends' = ends /\ ref' = ref
  BY <1>1, <1>t DEF Counted, Holders
<1>2. ASSUME NEW p \in Procs, NEW e \in {"r", "w"}, P!FileClose(p, e)
      PROVE  Counted'
  <2>1. ASSUME NEW f \in {"r", "w"}
        PROVE  ref'[f] = Cardinality(Holders(f)')
    <3>1. CASE f = e
      <4>1. Holders(f)' = Holders(f) \ {p} /\ p \in Holders(f)
        BY <1>2, <1>t, <3>1 DEF P!FileClose, Holders, P!PipeTypeOK
      <4>2. IsFiniteSet(Holders(f))
        BY SameSize, FS_Subset DEF Holders, P!PipeConstants
      <4>3. Cardinality(Holders(f)') = Cardinality(Holders(f)) - 1
        BY <4>1, <4>2, FS_RemoveElement
      <4>4. ref'[f] = ref[f] - 1
        BY <1>2, <1>t, <3>1 DEF P!FileClose, P!PipeTypeOK
      <4> QED BY <1>t, <4>3, <4>4 DEF Counted
    <3>2. CASE f # e
      <4>1. Holders(f)' = Holders(f) /\ ref'[f] = ref[f]
        BY <1>2, <1>t, <3>2 DEF P!FileClose, Holders, P!PipeTypeOK
      <4> QED BY <1>t, <4>1 DEF Counted
    <3> QED BY <3>1, <3>2
  <2> QED BY <2>1 DEF Counted
<1>3. ASSUME NEW p \in Procs, NEW q \in Procs, P!Fork(p, q)
      PROVE  Counted'
  <2>1. ASSUME NEW f \in {"r", "w"}
        PROVE  ref'[f] = Cardinality(Holders(f)')
    <3>0. q \notin Holders(f) /\ \A u \in Procs : ends'[u] = IF u = q THEN ends[p] ELSE ends[u]
      BY <1>3, <1>t DEF P!Fork, Places, Holders, P!PipeTypeOK
    <3>1. CASE f \in ends[p]
      <4>1. Holders(f)' = Holders(f) \cup {q}
        BY <3>0, <3>1 DEF Holders
      <4>2. IsFiniteSet(Holders(f))
        BY SameSize, FS_Subset DEF Holders, P!PipeConstants
      <4>3. Cardinality(Holders(f)') = Cardinality(Holders(f)) + 1
        BY <3>0, <4>1, <4>2, FS_AddElement
      <4>4. ref'[f] = ref[f] + 1
        BY <1>3, <3>1 DEF P!Fork
      <4> QED BY <1>t, <4>3, <4>4 DEF Counted
    <3>2. CASE f \notin ends[p]
      <4>1. Holders(f)' = Holders(f)
        BY <3>0, <3>2 DEF Holders
      <4>2. ref'[f] = ref[f]
        BY <1>3, <3>2 DEF P!Fork
      <4> QED BY <1>t, <4>1, <4>2 DEF Counted
    <3> QED BY <3>1, <3>2
  <2> QED BY <2>1 DEF Counted
<1>4. \/ ends' = ends /\ ref' = ref
      \/ \E p \in Procs : \/ \E e \in {"r", "w"} : P!FileClose(p, e)
                          \/ \E q \in Procs : P!Fork(p, q)
  <2>1. ASSUME NEW p \in Procs, P!Locked(p)
        PROVE  ends' = ends /\ ref' = ref
    BY <2>1 DEF P!Locked, P!Written, P!WriteCut, P!WriteFull, P!WriteByte, P!Sleep, P!Read, P!Copy
  <2>2. ASSUME NEW p \in Procs,
               \/ P!Call(p, "w", "write") \/ P!Call(p, "r", "read") \/ P!Resume(p)
               \/ P!PipeClose(p) \/ P!Kfree(p) \/ P!Kill(p)
        PROVE  ends' = ends /\ ref' = ref
    BY <2>2 DEF P!Call, P!Resume, P!PipeClose, P!Kfree, P!Kill
  <2>3. CASE UNCHANGED pipeVars
    BY <2>3 DEF pipeVars
  <2> QED BY <2>1, <2>2, <2>3 DEF P!Next
<1> QED BY <1>1, <1>2, <1>3, <1>4

(* Every variable keeps its type; a file has no more references than there *)
(* are processes.                                                          *)
LEMMA TypeStep ==
  ASSUME P!PipeConstants, PipeInv, [P!Next]_pipeVars
  PROVE  P!PipeTypeOK'
<1> USE DEF P!fileVars, P!ringVars
<1>t. P!PipeTypeOK /\ Ring
  BY DEF PipeInv
<1>c. /\ UINT \in Nat /\ PIPESIZE \in Nat /\ PIPESIZE > 0 /\ UINT > 0 /\ MaxN \in Nat
      /\ nread \in 0..(UINT - 1) /\ nwrite \in 0..(UINT - 1)
      /\ \A n \in 0..MaxN : n > 0 => n - 1 \in 0..MaxN
  BY <1>t DEF P!PipeConstants, P!PipeTypeOK
<1>r. /\ nwrite % PIPESIZE \in 0..(PIPESIZE - 1)
      /\ (nwrite + 1) % UINT \in 0..(UINT - 1) /\ (nread + 1) % UINT \in 0..(UINT - 1)
  BY <1>c, RemainderType
<1>1. ref' \in [{"r", "w"} -> 0..Cardinality(Procs)]
  <2>1. \A e \in {"r", "w"} : Cardinality(Holders(e)') \in 0..Cardinality(Procs)
    <3>1. \A S : S \subseteq Procs => Cardinality(S) \in 0..Cardinality(Procs)
      BY SameSize, FS_Subset, FS_CardinalityType DEF P!PipeConstants
    <3> QED BY <3>1 DEF Holders
  <2>2. \A e \in {"r", "w"} : ref'[e] \in 0..Cardinality(Procs)
    BY <2>1, CountedStep DEF Counted
  <2>3. \E g : ref' = [e \in {"r", "w"} |-> g[e]]
    <3>1. ref = [e \in {"r", "w"} |-> ref[e]]
      BY <1>t DEF P!PipeTypeOK
    <3>2. ASSUME NEW p \in Procs, NEW e \in {"r", "w"}, P!FileClose(p, e)
          PROVE  ref' = [f \in {"r", "w"} |-> ref'[f]]
      BY <1>t, <3>2 DEF P!FileClose, P!PipeTypeOK
    <3>3. ASSUME NEW p \in Procs, NEW q \in Procs, P!Fork(p, q)
          PROVE  ref' = [f \in {"r", "w"} |-> ref'[f]]
      BY <3>3 DEF P!Fork
    <3>4. \/ ref' = ref
          \/ \E p \in Procs : \/ \E e \in {"r", "w"} : P!FileClose(p, e)
                              \/ \E q \in Procs : P!Fork(p, q)
      <4>1. ASSUME NEW p \in Procs, P!Locked(p)
            PROVE  ref' = ref
        BY <4>1 DEF P!Locked, P!Written, P!WriteCut, P!WriteFull, P!WriteByte, P!Sleep, P!Read, P!Copy
      <4>2. ASSUME NEW p \in Procs,
                   \/ P!Call(p, "w", "write") \/ P!Call(p, "r", "read") \/ P!Resume(p)
                   \/ P!PipeClose(p) \/ P!Kfree(p) \/ P!Kill(p)
            PROVE  ref' = ref
        BY <4>2 DEF P!Call, P!Resume, P!PipeClose, P!Kfree, P!Kill
      <4> QED BY <4>1, <4>2 DEF P!Next, pipeVars
    <3> QED BY <3>1, <3>2, <3>3, <3>4
  <2> QED BY <2>2, <2>3
<1>2. ASSUME NEW p \in Procs, P!Call(p, "w", "write") \/ P!Call(p, "r", "read")
      PROVE  P!PipeTypeOK'
  <2>1. PICK n \in 1..MaxN : left' = [left EXCEPT ![p] = n]
    BY <1>2 DEF P!Call
  <2>2. n \in 0..MaxN
    BY <1>c
  <2>3. left' \in [Procs -> 0..MaxN]
    BY <1>t, <2>1, <2>2 DEF P!PipeTypeOK
  <2> QED BY <1>2, <1>1, <1>t, <2>3 DEF P!Call, P!Goto, P!PipeTypeOK
<1>3. ASSUME NEW p \in Procs, P!Resume(p)
      PROVE  P!PipeTypeOK'
  BY <1>3, <1>1, <1>t, <1>c DEF P!Resume, P!Goto, P!PipeTypeOK
<1>4. ASSUME NEW p \in Procs, P!Written(p) \/ P!WriteFull(p)
      PROVE  P!PipeTypeOK'
  BY <1>4, <1>1, <1>t, <1>c DEF P!Written, P!WriteFull, P!WakeReaders, P!Awake, P!Leave, P!Goto, P!PipeTypeOK
<1>5. ASSUME NEW p \in Procs, P!WriteCut(p)
      PROVE  P!PipeTypeOK'
  BY <1>5, <1>1, <1>t, <1>c DEF P!WriteCut, P!Leave, P!Goto, P!PipeTypeOK
<1>6. ASSUME NEW p \in Procs, P!WriteByte(p)
      PROVE  P!PipeTypeOK'
  <2>1. /\ pdata' \in [0..(PIPESIZE - 1) -> P!Bytes] /\ nwrite' \in 0..(UINT - 1)
        /\ left' \in [Procs -> 0..MaxN]
    <3>1. left[p] \in 0..MaxN /\ left[p] > 0
      BY <1>6, <1>t DEF P!WriteByte, P!PipeTypeOK
    <3>2. left[p] - 1 \in 0..MaxN /\ 0 \in 0..MaxN
      BY <1>c, <3>1
    <3>3. left' \in [Procs -> 0..MaxN]
      BY <1>6, <1>t, <3>2 DEF P!WriteByte, P!Leave, P!PipeTypeOK
    <3>4. pdata' \in [0..(PIPESIZE - 1) -> P!Bytes]
      BY <1>6, <1>t, <1>c DEF P!WriteByte, P!Bytes, P!PipeTypeOK
    <3>5. nwrite' \in 0..(UINT - 1)
      BY <1>6, <1>c, <1>r DEF P!WriteByte
    <3> QED BY <3>3, <3>4, <3>5
  <2> QED BY <1>6, <1>1, <1>t, <2>1 DEF P!WriteByte, P!WakeReaders, P!Awake, P!Leave, P!Goto, P!PipeTypeOK
<1>7. ASSUME NEW p \in Procs, P!Sleep(p)
      PROVE  P!PipeTypeOK'
  BY <1>7, <1>1, <1>t, <1>c DEF P!Sleep, P!Goto, P!PipeTypeOK
<1>8. ASSUME NEW p \in Procs, P!Read(p)
      PROVE  P!PipeTypeOK'
  BY <1>8, <1>1, <1>t, <1>c DEF P!Read, P!Leave, P!Goto, P!PipeTypeOK
<1>9. ASSUME NEW p \in Procs, P!Copy(p)
      PROVE  P!PipeTypeOK'
  <2>1. nread' \in 0..(UINT - 1) /\ left' \in [Procs -> 0..MaxN]
    BY <1>9, <1>t, <1>c, <1>r DEF P!Copy, P!Leave, P!PipeTypeOK
  <2> QED BY <1>9, <1>1, <1>t, <2>1 DEF P!Copy, P!Awake, P!Leave, P!Goto, P!PipeTypeOK
<1>10. ASSUME NEW p \in Procs, NEW e \in {"r", "w"}, P!FileClose(p, e)
      PROVE  P!PipeTypeOK'
  BY SameSize, <1>10, <1>1, <1>t, <1>c DEF P!FileClose, P!Goto, P!PipeTypeOK
<1>11. ASSUME NEW p \in Procs, P!PipeClose(p)
      PROVE  P!PipeTypeOK'
  BY <1>11, <1>1, <1>t, <1>c DEF P!PipeClose, P!WakeReaders, P!Awake, P!Goto, P!PipeTypeOK
<1>12. ASSUME NEW p \in Procs, P!Kfree(p) \/ P!Kill(p)
      PROVE  P!PipeTypeOK'
  BY <1>12, <1>1, <1>t, <1>c DEF P!Kfree, P!Kill, P!Goto, P!PipeTypeOK
<1>13. ASSUME NEW p \in Procs, NEW q \in Procs, P!Fork(p, q)
      PROVE  P!PipeTypeOK'
  BY SameSize, <1>13, <1>1, <1>t, <1>c DEF P!Fork, P!Goto, P!PipeTypeOK
<1>14. CASE UNCHANGED pipeVars
  BY <1>14, <1>t DEF pipeVars, P!PipeTypeOK
<1> QED BY <1>2, <1>3, <1>4, <1>5, <1>6, <1>7, <1>8, <1>9, <1>10, <1>11, <1>12, <1>13, <1>14 DEF P!Next, P!Locked

(* The lock is taken and given back on the way in and out.                 *)
LEMMA PlacesStep ==
  ASSUME P!PipeConstants, PipeInv, [P!Next]_pipeVars
  PROVE  Places'
<1> USE DEF P!fileVars, P!ringVars, Inside, Reading, Writing
<1>t. P!PipeTypeOK /\ Places /\ Nobody \notin Procs
  BY DEF PipeInv, P!PipeConstants
<1>1. CASE UNCHANGED pipeVars
  BY <1>1, <1>t DEF pipeVars, Places
<1>2. ASSUME NEW p \in Procs, P!Call(p, "w", "write") \/ P!Call(p, "r", "read")
      PROVE  Places'
  <2>1. /\ at[p] = "user" /\ plock = Nobody /\ plock' = p /\ ends' = ends
        /\ \/ "w" \in ends[p] /\ at' = [at EXCEPT ![p] = "write"]
           \/ "r" \in ends[p] /\ at' = [at EXCEPT ![p] = "read"]
    BY <1>2 DEF P!Call, P!Goto
  <2> QED BY <1>t, <2>1 DEF Places, P!PipeTypeOK
<1>3. ASSUME NEW p \in Procs, P!Resume(p)
      PROVE  Places'
  BY <1>3, <1>t DEF P!Resume, P!Goto, Places, P!PipeTypeOK
<1>4. ASSUME NEW p \in Procs, plock = p, P!Written(p) \/ P!WriteCut(p) \/ P!WriteFull(p)
      PROVE  Places'
  <2>1. CASE P!Written(p)
    BY <1>4, <2>1, <1>t DEF P!Written, P!Leave, P!Goto, Places, P!PipeTypeOK
  <2>2. CASE P!WriteCut(p)
    BY <1>4, <2>2, <1>t DEF P!WriteCut, P!Leave, P!Goto, Places, P!PipeTypeOK
  <2>3. CASE P!WriteFull(p)
    BY <1>4, <2>3, <1>t DEF P!WriteFull, P!Goto, Places, P!PipeTypeOK
  <2> QED BY <1>4, <2>1, <2>2, <2>3
<1>5. ASSUME NEW p \in Procs, plock = p, P!WriteByte(p)
      PROVE  Places'
  BY <1>5, <1>t DEF P!WriteByte, P!WakeReaders, P!Leave, P!Goto, Places, P!PipeTypeOK
<1>6. ASSUME NEW p \in Procs, plock = p, P!Sleep(p) \/ P!Read(p) \/ P!Copy(p)
      PROVE  Places'
  <2>1. CASE P!Sleep(p)
    BY <1>6, <2>1, <1>t DEF P!Sleep, P!Goto, Places, P!PipeTypeOK
  <2>2. CASE P!Read(p)
    <3>1. \/ plock' = Nobody /\ at' = [at EXCEPT ![p] = "user"]
          \/ plock' = p /\ \E s \in {"empty", "copy"} : at' = [at EXCEPT ![p] = s]
      BY <1>6, <2>2 DEF P!Read, P!Leave, P!Goto
    <3>2. ends' = ends /\ at[p] = "read"
      BY <2>2 DEF P!Read
    <3>3. CASE plock' = Nobody /\ at' = [at EXCEPT ![p] = "user"]
      BY <1>6, <1>t, <3>2, <3>3 DEF Places, P!PipeTypeOK
    <3>4. ASSUME plock' = p, NEW s \in {"empty", "copy"}, at' = [at EXCEPT ![p] = s]
          PROVE  Places'
      BY <1>6, <1>t, <3>2, <3>4 DEF Places, P!PipeTypeOK
    <3> QED BY <3>1, <3>3, <3>4
  <2>3. CASE P!Copy(p)
    <3>1. \/ plock' = Nobody /\ at' = [at EXCEPT ![p] = "user"]
          \/ plock' = plock /\ at' = at
      BY <2>3 DEF P!Copy, P!Leave, P!Goto
    <3>2. ends' = ends /\ at[p] = "copy"
      BY <2>3 DEF P!Copy
    <3>3. CASE plock' = Nobody /\ at' = [at EXCEPT ![p] = "user"]
      BY <1>6, <1>t, <3>2, <3>3 DEF Places, P!PipeTypeOK
    <3>4. CASE plock' = plock /\ at' = at
      BY <1>t, <3>2, <3>4 DEF Places
    <3> QED BY <3>1, <3>3, <3>4
  <2> QED BY <1>6, <2>1, <2>2, <2>3
<1>7. ASSUME NEW p \in Procs, NEW e \in {"r", "w"}, P!FileClose(p, e)
      PROVE  Places'
  BY <1>7, <1>t DEF P!FileClose, P!Goto, Places, P!PipeTypeOK
<1>8. ASSUME NEW p \in Procs, P!PipeClose(p) \/ P!Kfree(p) \/ P!Kill(p)
      PROVE  Places'
  BY <1>8, <1>t DEF P!PipeClose, P!Kfree, P!Kill, P!Goto, Places, P!PipeTypeOK
<1>9. ASSUME NEW p \in Procs, NEW q \in Procs, P!Fork(p, q)
      PROVE  Places'
  BY <1>9, <1>t DEF P!Fork, P!Goto, Places, P!PipeTypeOK
<1> QED BY <1>1, <1>2, <1>3, <1>4, <1>5, <1>6, <1>7, <1>8, <1>9 DEF P!Next, P!Locked

(* The last reference to an end is closed by one process; after the second *)
(* end is closed nobody has either, and one process gives the page back.   *)
LEMMA ClosingStep ==
  ASSUME P!PipeConstants, PipeInv, [P!Next]_pipeVars
  PROVE  Closing'
<1> USE DEF P!fileVars, P!ringVars, Final
<1>t. P!PipeTypeOK /\ Places /\ Counted /\ Closing /\ IsFiniteSet(Procs)
  BY SameSize DEF PipeInv, P!PipeConstants
<1>0. ASSUME NEW p \in Procs, ends' = ends, openEnds' = openEnds, kfreed' = kfreed,
             at' = at \/ \E s : at' = [at EXCEPT ![p] = s] /\ s \notin Final
      PROVE  Closing'
  BY <1>0, <1>t DEF Closing, Holders, P!PipeTypeOK
<1>1. CASE UNCHANGED pipeVars
  BY <1>1, <1>t DEF pipeVars, Closing, Holders
<1>2. ASSUME NEW p \in Procs, P!Call(p, "w", "write") \/ P!Call(p, "r", "read") \/ P!Resume(p) \/ P!Kill(p)
      PROVE  Closing'
  BY <1>2, <1>0 DEF P!Call, P!Resume, P!Kill, P!Goto
<1>3. ASSUME NEW p \in Procs, P!Written(p) \/ P!WriteCut(p) \/ P!WriteFull(p) \/ P!WriteByte(p)
      PROVE  Closing'
  BY <1>3, <1>0 DEF P!Written, P!WriteCut, P!WriteFull, P!WriteByte, P!Leave, P!Goto
<1>4. ASSUME NEW p \in Procs, P!Sleep(p) \/ P!Read(p) \/ P!Copy(p)
      PROVE  Closing'
  <2>1. ends' = ends /\ openEnds' = openEnds /\ kfreed' = kfreed
    BY <1>4 DEF P!Sleep, P!Read, P!Copy
  <2>2. CASE P!Sleep(p)
    <3>1. at' = [at EXCEPT ![p] = "wsleep"] \/ at' = [at EXCEPT ![p] = "rsleep"]
      BY <2>2 DEF P!Sleep, P!Goto
    <3>2. \E s : at' = [at EXCEPT ![p] = s] /\ s \notin Final
      BY <3>1
    <3> QED BY <1>0, <2>1, <3>2
  <2>3. CASE P!Read(p)
    <3>1. \E s : at' = [at EXCEPT ![p] = s] /\ s \notin Final
      BY <2>3 DEF P!Read, P!Leave, P!Goto
    <3> QED BY <1>0, <2>1, <3>1
  <2>4. CASE P!Copy(p)
    <3>1. at' = at \/ \E s : at' = [at EXCEPT ![p] = s] /\ s \notin Final
      BY <2>4 DEF P!Copy, P!Leave, P!Goto
    <3> QED BY <1>0, <2>1, <3>1
  <2> QED BY <1>4, <2>2, <2>3, <2>4
<1>5. ASSUME NEW p \in Procs, NEW e \in {"r", "w"}, P!FileClose(p, e)
      PROVE  Closing'
  <2>1. /\ \A q \in Procs : ends'[q] = IF q = p THEN ends[p] \ {e} ELSE ends[q]
        /\ openEnds' = openEnds /\ kfreed' = kfreed /\ e \in ends[p] /\ at[p] = "user"
    BY <1>5, <1>t DEF P!FileClose, P!PipeTypeOK
  <2>2. e \in openEnds /\ openEnds # {}
    BY <1>t, <2>1 DEF Closing
  <2>3. \A f \in {"r", "w"} : Holders(f)' \subseteq Holders(f)
    BY <2>1 DEF Holders
  <2>4. CASE ref[e] > 1
    <3>1. at' = at
      BY <1>5, <2>4 DEF P!FileClose
    <3> QED BY <1>t, <2>1, <2>3, <3>1 DEF Closing
  <2>5. CASE ~(ref[e] > 1)
    <3>1. \A q \in Procs : at'[q] = IF q = p THEN (IF e = "w" THEN "closew" ELSE "closer") ELSE at[q]
      BY <1>5, <1>t, <2>5 DEF P!FileClose, P!Goto, P!PipeTypeOK
    <3>2. Holders(e)' = {}
      <4>1. Holders(e)' = Holders(e) \ {p} /\ p \in Holders(e) /\ IsFiniteSet(Holders(e))
        BY <1>t, <2>1, FS_Subset DEF Holders
      <4>2. Cardinality(Holders(e)) = ref[e] /\ ref[e] \in Nat
        BY <1>t, FS_CardinalityType DEF Counted, P!PipeTypeOK
      <4>3. Cardinality(Holders(e)') <= 0 /\ IsFiniteSet(Holders(e)')
        BY <2>5, <4>1, <4>2, FS_RemoveElement
      <4> QED BY <4>3, FS_EmptySet, FS_CardinalityType
    <3>3. \A q \in Procs : at[q] # IF e = "w" THEN "closew" ELSE "closer"
      BY <1>t, <2>1 DEF Closing, Holders
    <3>4. e = "w" \/ e = "r"
      OBVIOUS
    <3> QED BY <1>t, <2>1, <2>2, <2>3, <3>1, <3>2, <3>3, <3>4 DEF Closing
  <2> QED BY <2>4, <2>5
<1>6. ASSUME NEW p \in Procs, P!PipeClose(p)
      PROVE  Closing'
  <2>1. PICK e \in {"r", "w"} : /\ at[p] = (IF e = "w" THEN "closew" ELSE "closer")
                                /\ openEnds' = openEnds \ {e}
    BY <1>6 DEF P!PipeClose
  <2>2. e \in openEnds /\ Holders(e) = {} /\ \A q \in Procs : e \notin ends[q]
    BY <1>t, <2>1 DEF Closing, Holders
  <2>3. ends' = ends /\ kfreed' = kfreed
        /\ \A q \in Procs : at'[q] = IF q # p THEN at[q] ELSE IF openEnds' = {} THEN "kfree" ELSE "user"
    BY <1>6, <1>t DEF P!PipeClose, P!Goto, P!PipeTypeOK
  <2>4. ~kfreed /\ \A q \in Procs : at[q] # "kfree"
    BY <1>t, <2>2 DEF Closing
  <2>5. \A q \in Procs \ {p} : at[q] # at[p]
    BY <1>t, <2>1 DEF Closing
  <2>6. \A f \in {"r", "w"} : Holders(f)' = Holders(f)
    BY <2>3 DEF Holders
  <2>7. \A q \in Procs : ends'[q] \subseteq openEnds'
    BY <1>t, <2>1, <2>2, <2>3 DEF Closing
  <2> QED BY <1>t, <2>1, <2>2, <2>3, <2>4, <2>5, <2>6, <2>7 DEF Closing
<1>7. ASSUME NEW p \in Procs, P!Kfree(p)
      PROVE  Closing'
  <2>1. openEnds' = {} /\ ends' = ends /\ openEnds = {}
        /\ \A q \in Procs : at'[q] = IF q = p THEN "user" ELSE at[q]
    BY <1>7, <1>t DEF P!Kfree, P!Goto, Closing, P!PipeTypeOK
  <2>2. \A q \in Procs : at'[q] \notin Final
    BY <1>7, <1>t, <2>1 DEF P!Kfree, Closing
  <2> QED BY <1>t, <2>1, <2>2 DEF Closing
<1>8. ASSUME NEW p \in Procs, NEW q \in Procs, P!Fork(p, q)
      PROVE  Closing'
  <2>1. /\ \A u \in Procs : ends'[u] = IF u = q THEN ends[p] ELSE ends[u]
        /\ \A u \in Procs : at'[u] = IF u = q THEN "user" ELSE at[u]
        /\ openEnds' = openEnds /\ kfreed' = kfreed
    BY <1>8, <1>t DEF P!Fork, P!Goto, P!PipeTypeOK
  <2>2. \A f \in {"r", "w"} : Holders(f) = {} => Holders(f)' = {}
    BY <2>1 DEF Holders
  <2> QED BY <1>t, <2>1, <2>2 DEF Closing
<1> QED BY <1>1, <1>2, <1>3, <1>4, <1>5, <1>6, <1>7, <1>8 DEF P!Next, P!Locked

(* A step that leaves the ring and the open ends alone, moves nobody into  *)
(* a wait, and wakes whom its process would have woken later.              *)
LEMMA SleepersStep ==
  ASSUME P!PipeConstants, PipeInv, [P!Next]_pipeVars
  PROVE  Sleepers'
<1> USE DEF P!fileVars, P!ringVars
<1>t. P!PipeTypeOK /\ Places /\ Sleepers /\ Nobody \notin Procs /\ asleep \subseteq Procs
  BY DEF PipeInv, P!PipeConstants, P!PipeTypeOK
<1>o. /\ \A p \in Procs : at[p] = "write" => "w" \in openEnds
      /\ \A p, q \in Procs : at[p] \in Inside /\ at[q] \in Inside => p = q
      /\ plock = Nobody => \A p \in Procs : at[p] \notin Inside
      /\ \A p \in Procs : at[p] \in Inside <=> plock = p
  BY <1>t DEF PipeInv, Closing, Places, Writing, Inside
<1>s. asleep' \subseteq Procs
  BY TypeStep DEF P!PipeTypeOK
<1>1. CASE UNCHANGED pipeVars
  BY <1>1, <1>t DEF pipeVars, Sleepers, P!Empty, P!Full
<1>2. ASSUME NEW p \in Procs, P!Call(p, "w", "write") \/ P!Call(p, "r", "read") \/ P!Resume(p)
      PROVE  Sleepers'
  <2>1. /\ nread' = nread /\ nwrite' = nwrite /\ openEnds' = openEnds /\ cut' = cut
        /\ asleep' = asleep /\ p \notin asleep /\ plock = Nobody
    BY <1>2, <1>t DEF P!Call, P!Resume, Sleepers
  <2>2. \A q \in Procs : at'[q] = IF q = p THEN at'[p] ELSE at[q]
    BY <1>2, <1>t DEF P!Call, P!Resume, P!Goto, P!PipeTypeOK
  <2>3. at'[p] \in {"write", "read"}
    BY <1>2, <1>t DEF P!Call, P!Resume, P!Goto, P!PipeTypeOK
  <2>4. \A q \in Procs : plock # q
    BY <1>t, <2>1
  <2> QED BY <1>t, <2>1, <2>2, <2>3, <2>4 DEF Sleepers, P!Empty, P!Full
<1>3. ASSUME NEW p \in Procs, at[p] = "write",
             P!Written(p) \/ P!WriteFull(p) \/ (P!WriteByte(p) /\ P!Leave(p) /\ P!WakeReaders /\ nwrite' = nwrite)
      PROVE  Sleepers'
  <2>1. /\ nread' = nread /\ nwrite' = nwrite /\ openEnds' = openEnds
        /\ \A q \in Procs : at'[q] = IF q = p THEN at'[p] ELSE at[q]
        /\ at'[p] = "user" \/ (at'[p] = "full" /\ P!Full /\ "r" \in openEnds)
        /\ asleep' = asleep \ {q \in Procs : at[q] = "rsleep"}
    BY <1>3, <1>t DEF P!Written, P!WriteFull, P!WriteByte, P!WakeReaders, P!Awake, P!Leave, P!Goto, P!PipeTypeOK
  <2>2. \A q \in Procs \ {p} : at[q] \notin Inside
    BY <1>3, <1>o DEF Inside
  <2>3. \A q \in asleep' : at[q] = "wsleep" /\ q # p /\ P!Full /\ "r" \in openEnds
    BY <1>3, <1>t, <2>1, <2>2 DEF Sleepers, Inside
  <2> QED BY <1>s, <2>1, <2>2, <2>3 DEF Sleepers, Inside, P!Empty, P!Full
<1>4. ASSUME NEW p \in Procs, plock = p, P!WriteCut(p)
      PROVE  Sleepers'
  <2>1. /\ nread' = nread /\ nwrite' = nwrite /\ openEnds' = openEnds /\ asleep' = asleep
        /\ \A q \in Procs : at'[q] = IF q = p THEN "user" ELSE at[q]
        /\ cut' = (cut \/ ~P!Empty) /\ at[p] = "write"
    BY <1>4, <1>t DEF P!WriteCut, P!Leave, P!Goto, P!PipeTypeOK
  <2>2. \A q \in Procs \ {p} : at[q] \notin Inside
    BY <2>1, <1>o DEF Inside
  <2>3. "w" \in openEnds /\ p \notin asleep
    BY <2>1, <1>o, <1>t DEF Sleepers
  <2>4. \A q \in asleep : at[q] = "wsleep" => P!Full /\ "r" \in openEnds
    BY <1>t, <2>1, <2>2 DEF Sleepers, Inside
  <2>5. \A q \in asleep : at[q] = "rsleep" => cut' \/ P!Empty
    BY <2>1
  <2> QED BY <1>t, <2>1, <2>2, <2>3, <2>4, <2>5 DEF Sleepers, Inside, P!Empty, P!Full
<1>5. ASSUME NEW p \in Procs, plock = p, P!WriteByte(p), UNCHANGED <<plock, at, asleep, cut>>
      PROVE  Sleepers'
  <2>1. at[p] = "write" /\ ~P!Full /\ openEnds' = openEnds
    BY <1>5 DEF P!WriteByte
  <2>2. \A q \in Procs \ {p} : at[q] \notin Inside
    BY <2>1, <1>o DEF Inside
  <2>3. \A q \in asleep : at[q] = "rsleep"
    BY <1>t, <2>1, <2>2 DEF Sleepers, Inside
  <2>4. \E q \in Procs : plock' = q /\ at'[q] = "write"
    BY <1>5, <2>1
  <2>5. \A q \in Procs : at[q] # "full" /\ at[q] # "empty"
    BY <2>1, <2>2 DEF Inside
  <2> QED BY <1>5, <1>t, <2>1, <2>3, <2>4, <2>5 DEF Sleepers
<1>6. ASSUME NEW p \in Procs, plock = p, P!Sleep(p)
      PROVE  Sleepers'
  <2>1. /\ nread' = nread /\ nwrite' = nwrite /\ openEnds' = openEnds /\ cut' = cut
        /\ asleep' = asleep \cup {p} /\ at[p] \in {"full", "empty"}
        /\ \A q \in Procs : at'[q] = IF q # p THEN at[q] ELSE IF at[p] = "full" THEN "wsleep" ELSE "rsleep"
    BY <1>6, <1>t DEF P!Sleep, P!Goto, P!PipeTypeOK
  <2>2. \A q \in Procs \ {p} : at[q] \notin Inside
    BY <2>1, <1>o DEF Inside
  <2>3. \A q \in asleep : /\ at[q] = "rsleep" => cut \/ (P!Empty /\ "w" \in openEnds)
                          /\ at[q] = "wsleep" => P!Full /\ "r" \in openEnds
    BY <1>t, <2>1, <2>2 DEF Sleepers, Inside
  <2>4. /\ at[p] = "full" => P!Full /\ "r" \in openEnds
        /\ at[p] = "empty" => P!Empty /\ "w" \in openEnds
    BY <1>t DEF Sleepers
  <2>5. p \notin asleep /\ \A q \in asleep : at[q] \in {"rsleep", "wsleep"}
    BY <1>t, <2>1 DEF Sleepers
  <2> QED BY <1>t, <2>1, <2>2, <2>3, <2>4, <2>5 DEF Sleepers, Inside, P!Empty, P!Full
<1>7. ASSUME NEW p \in Procs, plock = p, P!Read(p)
      PROVE  Sleepers'
  <2>1. /\ nread' = nread /\ nwrite' = nwrite /\ openEnds' = openEnds /\ cut' = cut
        /\ asleep' = asleep /\ at[p] = "read"
        /\ \A q \in Procs : at'[q] = IF q = p THEN at'[p] ELSE at[q]
        /\ at'[p] \in {"user", "copy"} \/ (at'[p] = "empty" /\ P!Empty /\ "w" \in openEnds)
    BY <1>7, <1>t DEF P!Read, P!Leave, P!Goto, P!PipeTypeOK
  <2>2. \A q \in Procs \ {p} : at[q] \notin Inside
    BY <2>1, <1>o DEF Inside
  <2>3. \A q \in asleep : /\ at[q] = "rsleep" => cut \/ (P!Empty /\ "w" \in openEnds)
                          /\ at[q] = "wsleep" => P!Full /\ "r" \in openEnds
    BY <1>t, <2>1, <2>2 DEF Sleepers, Inside
  <2>4. p \notin asleep /\ \A q \in asleep : at[q] \in {"rsleep", "wsleep"}
    BY <1>t, <2>1 DEF Sleepers
  <2> QED BY <1>t, <2>1, <2>2, <2>3, <2>4 DEF Sleepers, Inside, P!Empty, P!Full
<1>8. ASSUME NEW p \in Procs, plock = p, P!Copy(p)
      PROVE  Sleepers'
  <2>1. nwrite' = nwrite /\ openEnds' = openEnds /\ cut' = cut /\ at[p] = "copy"
    BY <1>8 DEF P!Copy
  <2>2. \A q \in Procs \ {p} : at[q] \notin Inside
    BY <2>1, <1>o DEF Inside
  <2>3. \A q \in asleep : at[q] = "rsleep" => cut \/ (P!Empty /\ "w" \in openEnds)
    BY <1>t, <2>1, <2>2 DEF Sleepers, Inside
  <2>4. p \notin asleep /\ \A q \in asleep : at[q] \in {"rsleep", "wsleep"}
    BY <1>t, <2>1 DEF Sleepers
  <2>5. CASE ~P!Empty /\ UNCHANGED <<plock, at, asleep>>
    <3>1. \A q \in asleep : at[q] = "rsleep" => cut
      BY <2>3, <2>5
    <3>2. \A q \in Procs : at[q] # "full" /\ at[q] # "empty"
      BY <2>1, <2>2 DEF Inside
    <3>3. \E q \in Procs : plock' = q /\ at'[q] = "copy"
      BY <1>8, <2>1, <2>5
    <3> QED BY <1>t, <2>1, <2>4, <2>5, <3>1, <3>2, <3>3 DEF Sleepers
  <2>6. CASE P!Awake("wsleep") /\ P!Leave(p) /\ nread' = nread
    <3>1. \A q \in Procs : at'[q] = IF q = p THEN "user" ELSE at[q]
      BY <1>t, <2>6 DEF P!Leave, P!Goto, P!PipeTypeOK
    <3>2. \A q \in asleep' : at[q] = "rsleep" /\ q # p /\ q \in asleep
      BY <1>t, <2>4, <2>6 DEF P!Awake
    <3> QED BY <1>s, <2>1, <2>2, <2>3, <2>6, <3>1, <3>2 DEF Sleepers, Inside, P!Empty
  <2> QED BY <1>8, <2>5, <2>6 DEF P!Copy
<1>9. ASSUME NEW p \in Procs, NEW s, s \notin {"rsleep", "wsleep", "full", "empty"},
             /\ UNCHANGED <<nread, nwrite, openEnds, cut, plock>> /\ at[p] \notin Inside
             /\ \A q \in Procs : at'[q] = IF q = p THEN s ELSE at[q]
             /\ asleep' = asleep /\ p \notin asleep
      PROVE  Sleepers'
  BY <1>9, <1>t DEF Sleepers, Inside, P!Empty, P!Full
<1>10. ASSUME NEW p \in Procs, NEW e \in {"r", "w"}, P!FileClose(p, e)
       PROVE  Sleepers'
  <2>1. at[p] = "user" /\ p \notin asleep
    BY <1>10, <1>t DEF P!FileClose, Sleepers
  <2>2. PICK s \in {"user", "closew", "closer"} : \A q \in Procs : at'[q] = IF q = p THEN s ELSE at[q]
    BY <1>10, <1>t, <2>1 DEF P!FileClose, P!Goto, P!PipeTypeOK
  <2> QED BY <1>10, <2>1, <2>2, <1>9 DEF P!FileClose, Inside
<1>11. ASSUME NEW p \in Procs, P!Kfree(p)
       PROVE  Sleepers'
  <2>1. at[p] = "kfree" /\ p \notin asleep
    BY <1>11, <1>t DEF P!Kfree, Sleepers
  <2>2. \A q \in Procs : at'[q] = IF q = p THEN "user" ELSE at[q]
    BY <1>11, <1>t DEF P!Kfree, P!Goto, P!PipeTypeOK
  <2> QED BY <1>11, <2>1, <2>2, <1>9 DEF P!Kfree, Inside
<1>12. ASSUME NEW p \in Procs, NEW q \in Procs, P!Fork(p, q)
       PROVE  Sleepers'
  <2>1. at[q] = "unborn" /\ q \notin asleep
    BY <1>12, <1>t DEF P!Fork, Sleepers
  <2>2. \A u \in Procs : at'[u] = IF u = q THEN "user" ELSE at[u]
    BY <1>12, <1>t DEF P!Fork, P!Goto, P!PipeTypeOK
  <2> QED BY <1>12, <2>1, <2>2, <1>9 DEF P!Fork, Inside
<1>13. ASSUME NEW p \in Procs, P!Kill(p)
       PROVE  Sleepers'
  BY <1>13, <1>t DEF P!Kill, Sleepers, P!Empty, P!Full
<1>14. ASSUME NEW p \in Procs, P!PipeClose(p)
       PROVE  Sleepers'
  <2>1. /\ nread' = nread /\ nwrite' = nwrite /\ plock = Nobody /\ at[p] \in {"closer", "closew"}
        /\ openEnds' = openEnds \ {IF at[p] = "closew" THEN "w" ELSE "r"}
        /\ asleep' = asleep \ {q \in Procs : at[q] = IF at[p] = "closew" THEN "rsleep" ELSE "wsleep"}
        /\ at[p] = "closer" => cut' = cut
    BY <1>14 DEF P!PipeClose, P!WakeReaders, P!Awake
  <2>2. PICK s \in {"kfree", "user"} : \A q \in Procs : at'[q] = IF q = p THEN s ELSE at[q]
    BY <1>14, <1>t DEF P!PipeClose, P!Goto, P!PipeTypeOK
  <2>3. \A q \in Procs : at[q] \notin Inside
    BY <1>o, <2>1
  <2>4. \A q \in asleep : /\ at[q] = "rsleep" => cut \/ (P!Empty /\ "w" \in openEnds)
                          /\ at[q] = "wsleep" => P!Full /\ "r" \in openEnds
    BY <1>t, <2>3 DEF Sleepers, Inside
  <2>5. p \notin asleep /\ \A q \in asleep : at[q] \in {"rsleep", "wsleep"}
    BY <1>t, <2>1 DEF Sleepers
  <2>6. CASE at[p] = "closew"
    <3>1. \A q \in asleep' : q # p /\ at[q] = "wsleep" /\ P!Full /\ "r" \in openEnds'
      BY <1>t, <2>1, <2>4, <2>5, <2>6
    <3> QED BY <1>s, <2>1, <2>2, <2>3, <3>1 DEF Sleepers, Inside, P!Full
  <2>7. CASE at[p] = "closer"
    <3>1. \A q \in asleep' : q # p /\ at[q] = "rsleep" /\ (cut' \/ (P!Empty /\ "w" \in openEnds'))
      <4>1. cut' = cut /\ openEnds' = openEnds \ {"r"}
        BY <2>1, <2>7
      <4>2. \A q \in asleep' : q \in asleep /\ q # p /\ at[q] = "rsleep"
        BY <1>t, <2>1, <2>5, <2>7
      <4>3. "w" \in openEnds => "w" \in openEnds'
        BY <4>1
      <4>4. \A q \in asleep' : cut \/ (P!Empty /\ "w" \in openEnds)
        BY <2>4, <4>2
      <4>5. cut => cut'
        BY <4>1
      <4> QED BY <4>2, <4>3, <4>4, <4>5
    <3> QED BY <1>s, <2>1, <2>2, <2>3, <3>1 DEF Sleepers, Inside, P!Empty
  <2> QED BY <2>1, <2>6, <2>7
<1>15. ASSUME NEW p \in Procs, P!Locked(p)
       PROVE  Sleepers'
  <2>1. CASE P!Written(p) \/ P!WriteFull(p)
    BY <2>1, <1>3 DEF P!Written, P!WriteFull
  <2>2. CASE P!WriteByte(p)
    <3>1. \/ UNCHANGED <<plock, at, asleep, cut>>
          \/ P!Leave(p) /\ P!WakeReaders /\ nwrite' = nwrite
      BY <2>2 DEF P!WriteByte
    <3> QED BY <2>2, <3>1, <1>3, <1>5, <1>15 DEF P!WriteByte, P!Locked
  <2> QED BY <2>1, <2>2, <1>4, <1>6, <1>7, <1>8, <1>15 DEF P!Locked
<1> QED BY <1>1, <1>2, <1>10, <1>11, <1>12, <1>13, <1>14, <1>15 DEF P!Next
-----------------------------------------------------------------------------
(* The invariant holds after pipe().                                       *)
LEMMA PipeInvInit ==
  ASSUME P!PipeConstants, P!Init
  PROVE  PipeInv
<1> DEFINE first == CHOOSE p \in Procs : TRUE
<1>0. first \in Procs /\ UINT \in Nat /\ UINT > 0 /\ PIPESIZE \in Nat /\ MaxN \in Nat
  BY DEF P!PipeConstants
<1>1. /\ ends = [p \in Procs |-> IF p = first THEN {"r", "w"} ELSE {}]
      /\ at = [p \in Procs |-> IF p = first THEN "user" ELSE "unborn"]
      /\ ref = [e \in {"r", "w"} |-> 1] /\ openEnds = {"r", "w"}
      /\ plock = Nobody /\ asleep = {} /\ ~kfreed /\ nread = 0 /\ nwrite = 0
  BY DEF P!Init
<1> HIDE DEF first
<1>2. \A e \in {"r", "w"} : Cardinality(Holders(e)) = 1
  <2>1. \A e \in {"r", "w"} : Holders(e) = {first}
    BY <1>0, <1>1 DEF Holders
  <2> QED BY <2>1, FS_Singleton
<1>3. 1 \in 0..Cardinality(Procs)
  <2>1. Cardinality({first}) = 1 /\ Cardinality({first}) <= Cardinality(Procs)
    BY SameSize, <1>0, FS_Singleton, FS_Subset DEF P!PipeConstants
  <2> QED BY SameSize, <2>1, FS_CardinalityType DEF P!PipeConstants
<1>4. P!PipeTypeOK
  <2>1. 0 \in P!Bytes /\ 0 \in 0..(UINT - 1) /\ 0 \in 0..MaxN
    BY <1>0 DEF P!Bytes
  <2>2. pdata \in [0..(PIPESIZE - 1) -> P!Bytes] /\ left \in [Procs -> 0..MaxN]
    BY <2>1 DEF P!Init
  <2>3. ref \in [{"r", "w"} -> 0..Cardinality(Procs)]
    BY <1>1, <1>3
  <2>4. kfreed \in BOOLEAN /\ cut \in BOOLEAN /\ doomed = {}
    BY DEF P!Init
  <2> QED BY SameSize, <1>1, <2>1, <2>2, <2>3, <2>4 DEF P!PipeTypeOK
<1>5. Places /\ Closing /\ Sleepers
  BY <1>0, <1>1 DEF Places, Closing, Sleepers, Inside, Writing, Reading, Final, P!PipeConstants
<1>6. Counted
  BY <1>1, <1>2 DEF Counted
<1>7. Ring
  BY <1>0, <1>1, <1>4, Levels DEF Ring, P!Empty
<1> QED BY <1>4, <1>5, <1>6, <1>7 DEF PipeInv

(* Every step keeps it.                                                    *)
LEMMA PipeInvStep ==
  ASSUME P!PipeConstants, PipeInv, [P!Next]_pipeVars
  PROVE  PipeInv'
BY CountedStep, TypeStep, PlacesStep, ClosingStep, SleepersStep, PipeRingStep DEF PipeInv

(* Then the pipe is safe.                                                  *)
LEMMA PipeInvSafe ==
  ASSUME P!PipeConstants, PipeInv
  PROVE  P!PipeSafe
<1>1. P!PipeTypeOK /\ Places /\ Counted /\ Closing /\ Sleepers /\ Nobody \notin Procs
  BY DEF PipeInv, P!PipeConstants
<1>2. P!PipeSleepers
  BY <1>1 DEF P!PipeSleepers, Sleepers, P!PipeTypeOK
<1>3. ASSUME kfreed, NEW p \in Procs
      PROVE  ends[p] = {} /\ at[p] \in {"unborn", "user"}
  <2>1. openEnds = {} /\ ends[p] = {}
    BY <1>1, <1>3 DEF Closing
  <2>2. at[p] \notin Writing \cup Reading \cup Final
    BY <1>1, <1>3, <2>1 DEF Places, Closing, Writing, Reading, Final
  <2> QED BY <1>1, <2>1, <2>2 DEF P!PipeTypeOK, Writing, Reading, Final
<1>4. Cardinality({p \in Procs : at[p] = "kfree"}) <= 1
  <2>1. CASE \E p \in Procs : at[p] = "kfree"
    <3>1. PICK p \in Procs : at[p] = "kfree"
      BY <2>1
    <3>2. {q \in Procs : at[q] = "kfree"} = {p}
      BY <1>1, <3>1 DEF Closing, Final
    <3>3. Cardinality({p}) = 1
      BY FS_Singleton
    <3> QED BY <3>2, <3>3
  <2>2. CASE ~\E p \in Procs : at[p] = "kfree"
    <3>1. {q \in Procs : at[q] = "kfree"} = {}
      BY <2>2
    <3> QED BY <3>1, FS_EmptySet
  <2> QED BY <2>1, <2>2
<1> QED BY SameSize, <1>1, <1>2, <1>3, <1>4 DEF P!PipeSafe, P!PipeNotFreed, Counted, Holders

(* Every index into the ring exists.                                       *)
LEMMA InRing ==
  ASSUME P!PipeConstants, NEW n \in Nat, NEW r \in Nat
  PROVE  \A i \in 1..n : (r + i - 1) % PIPESIZE \in 0..(PIPESIZE - 1)
<1>1. \A i \in 1..n : r + i - 1 \in Int
  OBVIOUS
<1>2. PIPESIZE \in Nat /\ PIPESIZE > 0
  BY DEF P!PipeConstants
<1> QED BY <1>1, <1>2, RemainderType

(* The bytes inside are a sequence.                                        *)
LEMMA ItemsType ==
  ASSUME P!PipeConstants, P!PipeTypeOK
  PROVE  /\ P!Items \in Seq(P!Bytes) /\ Len(P!Items) = Count
         /\ \A i \in 1..Count : P!Items[i] = pdata[(nread + i - 1) % PIPESIZE]
<1>1. Count \in Nat /\ nread \in Nat /\ pdata \in [0..(PIPESIZE - 1) -> P!Bytes]
  BY Levels DEF P!PipeTypeOK
<1>2. P!Items = [i \in 1..Count |-> pdata[(nread + i - 1) % PIPESIZE]]
  BY DEF P!Items, Count
<1>3. \A i \in 1..Count : (nread + i - 1) % PIPESIZE \in 0..(PIPESIZE - 1)
  BY <1>1, InRing
<1>4. P!Items \in [1..Count -> P!Bytes]
  BY <1>1, <1>2, <1>3
<1> QED BY <1>1, <1>2, <1>4

(* And so they are after a step.                                           *)
LEMMA ItemsNext ==
  ASSUME P!PipeConstants, P!PipeTypeOK'
  PROVE  /\ P!Items' \in Seq(P!Bytes) /\ Len(P!Items') = Count' /\ Count' \in Nat
         /\ \A i \in 1..Count' : P!Items'[i] = pdata'[(nread' + i - 1) % PIPESIZE]
<1>1. Count' \in Nat /\ nread' \in Nat /\ pdata' \in [0..(PIPESIZE - 1) -> P!Bytes]
  <2>1. nread' \in 0..(UINT - 1) /\ nwrite' \in 0..(UINT - 1)
    BY DEF P!PipeTypeOK
  <2>2. UINT \in Nat /\ UINT > 0
    BY DEF P!PipeConstants
  <2>3. nwrite' + UINT - nread' \in Int
    BY <2>1, <2>2
  <2>4. Count' \in 0..(UINT - 1)
    BY <2>2, <2>3, RemainderType DEF Count
  <2> QED BY <2>1, <2>2, <2>4 DEF P!PipeTypeOK
<1>2. P!Items' = [i \in 1..Count' |-> pdata'[(nread' + i - 1) % PIPESIZE]]
  BY DEF P!Items, Count
<1>3. \A i \in 1..Count' : (nread' + i - 1) % PIPESIZE \in 0..(PIPESIZE - 1)
  BY <1>1, InRing
<1>4. P!Items' \in [1..Count' -> P!Bytes]
  BY <1>1, <1>2, <1>3
<1> QED BY <1>1, <1>2, <1>4

(* A byte that is written comes after those that are there.                *)
LEMMA WritePuts ==
  ASSUME P!PipeConstants, PipeInv, P!PipeTypeOK', NEW p \in Procs, P!WriteByte(p),
         nwrite' = (nwrite + 1) % UINT, pdata' = [pdata EXCEPT ![nwrite % PIPESIZE] = nwrite]
  PROVE  P!PipeFifo!Put(nwrite)
<1>t. P!PipeTypeOK /\ Ring
  BY DEF PipeInv
<1>c. /\ UINT \in Nat /\ PIPESIZE \in Nat /\ PIPESIZE > 0 /\ UINT > PIPESIZE
      /\ nread \in 0..(UINT - 1) /\ nwrite \in 0..(UINT - 1)
  BY <1>t DEF P!PipeConstants, P!PipeTypeOK
<1>1. ~P!Full /\ "r" \in openEnds /\ openEnds' = openEnds /\ nread' = nread
  BY DEF P!WriteByte, P!fileVars
<1>2. Count \in Nat /\ Count < PIPESIZE
      /\ Count = IF nwrite >= nread THEN nwrite - nread ELSE nwrite + UINT - nread
  BY <1>c, <1>t, <1>1, Levels DEF Ring
<1>3. Count' = Count + 1
  <2>1. nwrite' = IF nwrite < UINT - 1 THEN nwrite + 1 ELSE 0
    BY <1>c, Successor
  <2>2. Count' = IF nwrite' >= nread THEN nwrite' - nread ELSE nwrite' + UINT - nread
    <3>1. nwrite' \in 0..(UINT - 1)
      BY <1>c, <2>1
    <3>2. Count' = (nwrite' + UINT - nread) % UINT
      BY <1>1 DEF Count
    <3> QED BY <1>c, <3>1, <3>2, Ahead
  <2> QED BY <1>c, <1>2, <2>1, <2>2
<1>4. (nread + Count) % PIPESIZE = nwrite % PIPESIZE
  <2>1. CASE nread + Count = nwrite
    BY <2>1
  <2>2. CASE nread + Count = nwrite + UINT
    BY <1>c, <2>2, Index
  <2> QED BY <1>c, <1>2, <2>1, <2>2
<1>5. \A i \in 1..Count : (nread + i - 1) % PIPESIZE # nwrite % PIPESIZE
  <2>1. ASSUME NEW i \in 1..Count
        PROVE  (nread + i - 1) % PIPESIZE # (nread + Count) % PIPESIZE
    <3>1. /\ nread + i - 1 \in Int /\ nread + Count \in Int
          /\ nread + i - 1 < nread + Count /\ nread + Count < nread + i - 1 + PIPESIZE
      BY <1>c, <1>2
    <3> QED BY <1>c, <3>1, RemainderApart
  <2> QED BY <1>4, <2>1
<1>6. \A x \in 0..(PIPESIZE - 1) : pdata'[x] = IF x = nwrite % PIPESIZE THEN nwrite ELSE pdata[x]
  BY <1>t DEF P!PipeTypeOK
<1>7. \A i \in 1..(Count + 1) : (nread + i - 1) % PIPESIZE \in 0..(PIPESIZE - 1)
  <2>1. \A i \in 1..(Count + 1) : nread + i - 1 \in Int
    BY <1>c, <1>2
  <2> QED BY <1>c, <2>1, RemainderType
<1>8. /\ P!Items \in Seq(P!Bytes) /\ Len(P!Items) = Count /\ nwrite \in P!Bytes
      /\ \A i \in 1..Count : P!Items[i] = pdata[(nread + i - 1) % PIPESIZE]
  BY <1>c, <1>t, ItemsType DEF P!Bytes
<1>9. /\ P!Items' \in Seq(P!Bytes) /\ Len(P!Items') = Count + 1
      /\ \A i \in 1..(Count + 1) : P!Items'[i] = pdata'[(nread + i - 1) % PIPESIZE]
  <2>1. /\ P!Items' \in Seq(P!Bytes) /\ Len(P!Items') = Count'
        /\ \A i \in 1..Count' : P!Items'[i] = pdata'[(nread' + i - 1) % PIPESIZE]
    BY ItemsNext
  <2> QED BY <1>1, <1>3, <2>1
<1>10. P!Items' = Append(P!Items, nwrite)
  <2>1. /\ Append(P!Items, nwrite) \in Seq(P!Bytes) /\ Len(Append(P!Items, nwrite)) = Count + 1
        /\ \A i \in 1..Count : Append(P!Items, nwrite)[i] = P!Items[i]
        /\ Append(P!Items, nwrite)[Count + 1] = nwrite
    BY <1>8, AppendProperties
  <2>2. ASSUME NEW i \in 1..(Count + 1)
        PROVE  P!Items'[i] = Append(P!Items, nwrite)[i]
    <3>1. CASE i = Count + 1
      <4>1. (nread + i - 1) % PIPESIZE = nwrite % PIPESIZE
        <5>1. nread + i - 1 = nread + Count
          BY <1>c, <1>2, <3>1
        <5> QED BY <1>4, <5>1
      <4> QED BY <1>6, <1>7, <1>9, <2>1, <3>1, <4>1
    <3>2. CASE i # Count + 1
      <4>1. i \in 1..Count
        BY <1>2, <3>2
      <4>2. P!Items'[i] = pdata[(nread + i - 1) % PIPESIZE]
        BY <1>5, <1>6, <1>7, <1>9, <4>1
      <4> QED BY <1>8, <2>1, <4>1, <4>2
    <3> QED BY <3>1, <3>2
  <2> QED BY <1>9, <2>1, <2>2, SeqEqual
<1> QED BY <1>1, <1>2, <1>8, <1>10 DEF P!PipeFifo!Put

(* A byte that is read is the first one, also when copyout fails and it is *)
(* lost.                                                                   *)
LEMMA CopyTakes ==
  ASSUME P!PipeConstants, PipeInv, P!PipeTypeOK', NEW p \in Procs, P!Copy(p),
         ~P!Empty, nread' = (nread + 1) % UINT
  PROVE  P!PipeFifo!Take
<1>t. P!PipeTypeOK /\ Ring
  BY DEF PipeInv
<1>c. /\ UINT \in Nat /\ PIPESIZE \in Nat /\ PIPESIZE > 0 /\ UINT > PIPESIZE
      /\ nread \in 0..(UINT - 1) /\ nwrite \in 0..(UINT - 1)
  BY <1>t DEF P!PipeConstants, P!PipeTypeOK
<1>1. openEnds' = openEnds /\ nwrite' = nwrite /\ pdata' = pdata
  BY DEF P!Copy, P!fileVars
<1>2. Count \in Nat /\ Count > 0
      /\ Count = IF nwrite >= nread THEN nwrite - nread ELSE nwrite + UINT - nread
  BY <1>c, <1>t, Levels
<1>3. nread' = IF nread < UINT - 1 THEN nread + 1 ELSE 0
  BY <1>c, Successor
<1>4. Count' = Count - 1
  <2>1. nread' \in 0..(UINT - 1)
    BY <1>c, <1>3
  <2>2. Count' = (nwrite + UINT - nread') % UINT
    BY <1>1 DEF Count
  <2>3. Count' = IF nwrite >= nread' THEN nwrite - nread' ELSE nwrite + UINT - nread'
    BY <1>c, <2>1, <2>2, Ahead
  <2> QED BY <1>c, <1>2, <1>3, <2>3
<1>5. ASSUME NEW i \in 1..(Count - 1)
      PROVE  (nread' + i - 1) % PIPESIZE = (nread + i) % PIPESIZE
  <2>1. CASE nread < UINT - 1
    <3>1. nread' + i - 1 = nread + i
      BY <1>c, <1>2, <1>3, <2>1
    <3> QED BY <3>1
  <2>2. CASE ~(nread < UINT - 1)
    <3>1. nread + i = i - 1 + UINT /\ nread' + i - 1 = i - 1 /\ i - 1 \in Int
      BY <1>c, <1>2, <1>3, <2>2
    <3> QED BY <3>1, Index
  <2> QED BY <2>1, <2>2
<1>6. /\ P!Items \in Seq(P!Bytes) /\ Len(P!Items) = Count
      /\ \A i \in 1..Count : P!Items[i] = pdata[(nread + i - 1) % PIPESIZE]
  BY <1>t, ItemsType
<1>7. /\ P!Items' \in Seq(P!Bytes) /\ Len(P!Items') = Count - 1
      /\ \A i \in 1..(Count - 1) : P!Items'[i] = pdata[(nread' + i - 1) % PIPESIZE]
  BY <1>1, <1>4, ItemsNext
<1>8. P!Items # <<>>
  BY <1>2, <1>6
<1>9. P!Items' = Tail(P!Items)
  <2>1. /\ Tail(P!Items) \in Seq(P!Bytes) /\ Len(Tail(P!Items)) = Count - 1
        /\ \A i \in 1..(Count - 1) : Tail(P!Items)[i] = P!Items[i + 1]
    BY <1>6, <1>8, HeadTailProperties
  <2>2. ASSUME NEW i \in 1..(Count - 1)
        PROVE  P!Items'[i] = Tail(P!Items)[i]
    <3>1. i + 1 \in 1..Count /\ nread + (i + 1) - 1 = nread + i
      BY <1>c, <1>2
    <3>2. P!Items[i + 1] = pdata[(nread + i) % PIPESIZE]
      BY <1>6, <3>1
    <3> QED BY <1>5, <1>7, <2>1, <3>2
  <2> QED BY <1>7, <2>1, <2>2, SeqEqual
<1> QED BY <1>1, <1>8, <1>9 DEF P!PipeFifo!Take

(* Every step of the pipe is a step of the abstract one, or shows nothing. *)
LEMMA FifoStep ==
  ASSUME P!PipeConstants, PipeInv, PipeInv', [P!Next]_pipeVars
  PROVE  [P!PipeFifo!Next]_(P!PipeFifo!fifoVars)
<1> USE DEF P!fileVars, P!ringVars
<1>t. P!PipeTypeOK /\ P!PipeTypeOK' /\ Closing
  BY DEF PipeInv
<1>0. ASSUME UNCHANGED <<pdata, nread, nwrite, openEnds>>
      PROVE  UNCHANGED P!PipeFifo!fifoVars
  BY <1>0 DEF P!PipeFifo!fifoVars, P!Items
<1>1. CASE UNCHANGED pipeVars
  BY <1>0, <1>1 DEF pipeVars
<1>2. ASSUME NEW p \in Procs, P!WriteByte(p)
      PROVE  [P!PipeFifo!Next]_(P!PipeFifo!fifoVars)
  <2>1. CASE nwrite' = (nwrite + 1) % UINT /\ pdata' = [pdata EXCEPT ![nwrite % PIPESIZE] = nwrite]
    <3>1. P!PipeFifo!Put(nwrite)
      BY <1>2, <1>t, <2>1, WritePuts
    <3>2. nwrite \in P!Bytes
      BY <1>t DEF P!PipeTypeOK, P!Bytes
    <3> QED BY <3>1, <3>2 DEF P!PipeFifo!Next
  <2>2. CASE UNCHANGED <<pdata, nread, nwrite, openEnds>>
    BY <1>0, <2>2
  <2> QED BY <1>2, <2>1, <2>2 DEF P!WriteByte
<1>3. ASSUME NEW p \in Procs, P!Copy(p)
      PROVE  [P!PipeFifo!Next]_(P!PipeFifo!fifoVars)
  <2>1. CASE ~P!Empty /\ nread' = (nread + 1) % UINT
    BY <1>3, <1>t, <2>1, CopyTakes DEF P!PipeFifo!Next
  <2>2. CASE nread' = nread
    BY <1>0, <1>3, <2>2 DEF P!Copy
  <2> QED BY <1>3, <2>1, <2>2 DEF P!Copy
<1>4. ASSUME NEW p \in Procs, P!PipeClose(p)
      PROVE  [P!PipeFifo!Next]_(P!PipeFifo!fifoVars)
  <2>1. PICK e \in {"r", "w"} : e \in openEnds /\ openEnds' = openEnds \ {e}
    BY <1>4, <1>t DEF P!PipeClose, Closing
  <2>2. P!Items' = P!Items
    BY <1>4 DEF P!PipeClose, P!Items
  <2> QED BY <2>1, <2>2 DEF P!PipeFifo!Next, P!PipeFifo!Close
<1>5. ASSUME NEW p \in Procs, P!Written(p) \/ P!WriteCut(p) \/ P!WriteFull(p) \/ P!Sleep(p) \/ P!Read(p)
      PROVE  UNCHANGED <<pdata, nread, nwrite, openEnds>>
  BY <1>5 DEF P!Written, P!WriteCut, P!WriteFull, P!Sleep, P!Read
<1>6. ASSUME NEW p \in Procs,
             \/ P!Call(p, "w", "write") \/ P!Call(p, "r", "read") \/ P!Resume(p)
             \/ \E e \in {"r", "w"} : P!FileClose(p, e)
             \/ P!Kfree(p) \/ P!Kill(p) \/ \E q \in Procs : P!Fork(p, q)
      PROVE  UNCHANGED <<pdata, nread, nwrite, openEnds>>
  BY <1>6 DEF P!Call, P!Resume, P!FileClose, P!Kfree, P!Kill, P!Fork
<1> QED BY <1>0, <1>1, <1>2, <1>3, <1>4, <1>5, <1>6 DEF P!Next, P!Locked

(* The pipe is empty at first.                                             *)
LEMMA FifoInit ==
  ASSUME P!PipeConstants, P!Init
  PROVE  P!PipeFifo!Init
<1>1. P!PipeTypeOK /\ P!Empty
  BY PipeInvInit DEF PipeInv, P!Init, P!Empty
<1>2. Len(P!Items) = 0 /\ P!Items \in Seq(P!Bytes)
  BY <1>1, ItemsType, Levels
<1>3. P!Items = <<>>
  BY <1>2
<1> QED BY <1>3 DEF P!PipeFifo!Init, P!Init
-----------------------------------------------------------------------------
(* What a ring f holds from index a to index b.                            *)
Segment(f, a, b) == [i \in 1..C!Minus(b, a) |-> f[(a + i - 1) % INPUT_BUF]]
Slot == 0..(INPUT_BUF - 1)
Position == 0..(UINT - 1)

ConsTypeOK ==
  /\ cbuf \in [Slot -> C!Chars]
  /\ consR \in Position /\ consW \in Position /\ consE \in Position
  /\ consLock \in Procs \cup {Nobody}
  /\ rat \in [Procs -> {"user", "loop", "sleep", "asleep", "woken"}]

(* The write index is between the read index and the edit index, and the   *)
(* characters that are being edited are no newlines.                       *)
Between ==
  /\ C!Minus(consW, consR) <= C!Minus(consE, consR) /\ C!Minus(consE, consR) <= INPUT_BUF
  /\ \A j \in 1..C!Minus(consE, consW) : Segment(cbuf, consW, consE)[j] # "nl"

(* Whoever sleeps, or is about to, has seen the ring without a line.       *)
Readers ==
  /\ \A p \in Procs : rat[p] \in {"loop", "sleep"} <=> consLock = p
  /\ \A p \in Procs : rat[p] \in {"sleep", "asleep"} => consR = consW

ConsInv == ConsTypeOK /\ Between /\ Readers
-----------------------------------------------------------------------------
(* The constants of the console.                                           *)
LEMMA ConsConstants ==
  /\ INPUT_BUF \in Nat /\ INPUT_BUF > 0 /\ UINT \in Nat /\ UINT > INPUT_BUF
  /\ UINT % INPUT_BUF = 0 /\ Nobody \notin Procs
BY KernelConstants DEF C!ConsoleConstants

(* How far an index is ahead of another one.                               *)
LEMMA ConsAhead ==
  ASSUME NEW a \in Position, NEW b \in Position
  PROVE  C!Minus(a, b) = IF a >= b THEN a - b ELSE a + UINT - b
<1> DEFINE x == a + UINT - b
<1>1. x \in Nat /\ x < UINT + UINT /\ UINT \in Nat /\ UINT > 0
  BY ConsConstants DEF Position
<1>2. x % UINT = IF x < UINT THEN x ELSE x - UINT
  <2> HIDE DEF x
  <2> QED BY <1>1, RemainderOnce
<1>3. C!Minus(a, b) = x % UINT
  BY DEF C!Minus
<1> QED BY <1>1, <1>2, <1>3 DEF Position

(* The index after a.                                                      *)
LEMMA ConsSucc ==
  ASSUME NEW a \in Position
  PROVE  (a + 1) % UINT = IF a < UINT - 1 THEN a + 1 ELSE 0
BY ConsConstants, RemainderOnce DEF Position

(* The wrap of an index does not move its slot.                            *)
LEMMA ConsSlot ==
  ASSUME NEW x \in Int
  PROVE  (x + UINT) % INPUT_BUF = x % INPUT_BUF /\ x % INPUT_BUF \in Slot
<1>1. INPUT_BUF \in Nat /\ INPUT_BUF > 0 /\ UINT \in Int /\ UINT % INPUT_BUF = 0
  BY ConsConstants
<1>2. (x + UINT) % INPUT_BUF = x % INPUT_BUF
  BY <1>1, RemainderShift, Zenon
<1>3. x % INPUT_BUF \in Slot
  BY <1>1, RemainderType DEF Slot
<1> QED BY <1>2, <1>3

(* The slots of a segment.                                                 *)
LEMMA ConsOffset ==
  ASSUME NEW a \in Position, NEW b \in Position, NEW i \in Nat
  PROVE  (a + C!Minus(b, a) + i) % INPUT_BUF = (b + i) % INPUT_BUF
<1>1. UINT \in Nat /\ a \in Int /\ b \in Int
  BY ConsConstants DEF Position
<1>2. CASE b >= a
  <2>1. a + C!Minus(b, a) + i = b + i
    BY <1>1, <1>2, ConsAhead
  <2> QED BY <2>1
<1>3. CASE b < a
  <2>1. a + C!Minus(b, a) + i = (b + i) + UINT
    BY <1>1, <1>3, ConsAhead
  <2> QED BY <1>1, <2>1, ConsSlot
<1> QED BY <1>1, <1>2, <1>3

(* A segment is a sequence.                                                *)
LEMMA SegmentType ==
  ASSUME NEW f \in [Slot -> C!Chars], NEW a \in Position, NEW b \in Position
  PROVE  /\ Segment(f, a, b) \in Seq(C!Chars)
         /\ Len(Segment(f, a, b)) = C!Minus(b, a) /\ C!Minus(b, a) \in Nat
         /\ \A i \in 1..C!Minus(b, a) : Segment(f, a, b)[i] = f[(a + i - 1) % INPUT_BUF]
<1>1. C!Minus(b, a) \in Nat
  BY ConsAhead, ConsConstants DEF Position
<1>2. \A i \in 1..C!Minus(b, a) : (a + i - 1) % INPUT_BUF \in Slot
  BY <1>1, ConsSlot DEF Position
<1>3. Segment(f, a, b) \in [1..C!Minus(b, a) -> C!Chars]
  BY <1>1, <1>2 DEF Segment
<1> QED BY <1>1, <1>3 DEF Segment

(* A character that is put behind a segment leaves it alone.               *)
LEMMA SegmentKept ==
  ASSUME NEW f \in [Slot -> C!Chars], NEW g \in [Slot -> C!Chars],
         NEW a \in Position, NEW b \in Position, NEW e \in Position,
         \A k \in Slot : k # e % INPUT_BUF => g[k] = f[k],
         C!Minus(b, a) <= C!Minus(e, a), C!Minus(e, a) < INPUT_BUF
  PROVE  Segment(g, a, b) = Segment(f, a, b)
<1>2. ASSUME NEW i \in 1..C!Minus(b, a)
      PROVE  (a + i - 1) % INPUT_BUF \in Slot /\ (a + i - 1) % INPUT_BUF # e % INPUT_BUF
  <2>1. /\ a + i - 1 \in Int /\ a + C!Minus(e, a) \in Int
        /\ a + i - 1 < a + C!Minus(e, a) /\ a + C!Minus(e, a) < a + i - 1 + INPUT_BUF
    <3>1. C!Minus(b, a) \in Nat /\ C!Minus(e, a) \in Nat
      BY SegmentType
    <3> QED BY <3>1, ConsConstants DEF Position
  <2>2. (a + i - 1) % INPUT_BUF # (a + C!Minus(e, a)) % INPUT_BUF
    BY <2>1, ConsConstants, RemainderApart
  <2>3. (a + C!Minus(e, a) + 0) % INPUT_BUF = (e + 0) % INPUT_BUF
    BY ConsOffset
  <2>4. a + C!Minus(e, a) + 0 = a + C!Minus(e, a) /\ e + 0 = e
    BY <2>1 DEF Position
  <2> QED BY <2>1, <2>2, <2>3, <2>4, ConsSlot
<1>3. /\ Segment(f, a, b) \in Seq(C!Chars) /\ Segment(g, a, b) \in Seq(C!Chars)
      /\ Len(Segment(g, a, b)) = Len(Segment(f, a, b)) /\ Len(Segment(f, a, b)) = C!Minus(b, a)
      /\ \A i \in 1..C!Minus(b, a) : /\ Segment(f, a, b)[i] = f[(a + i - 1) % INPUT_BUF]
                                     /\ Segment(g, a, b)[i] = g[(a + i - 1) % INPUT_BUF]
  BY SegmentType
<1>4. Segment(g, a, b) = Segment(f, a, b)
  <2>1. \A i \in 1..C!Minus(b, a) : Segment(g, a, b)[i] = Segment(f, a, b)[i]
    BY <1>2, <1>3
  <2> QED BY <1>3, <2>1, SeqEqual
<1> QED BY <1>4

(* It comes after those of a segment that ends there.                      *)
LEMMA SegmentGrows ==
  ASSUME NEW f \in [Slot -> C!Chars], NEW g \in [Slot -> C!Chars],
         NEW a \in Position, NEW e \in Position, NEW c \in C!Chars,
         \A k \in Slot : g[k] = IF k = e % INPUT_BUF THEN c ELSE f[k],
         C!Minus(e, a) < INPUT_BUF
  PROVE  /\ (e + 1) % UINT \in Position /\ C!Minus((e + 1) % UINT, a) = C!Minus(e, a) + 1
         /\ Segment(g, a, (e + 1) % UINT) = Append(Segment(f, a, e), c)
<1> DEFINE b == (e + 1) % UINT
           n == C!Minus(e, a)
<1>1. b \in Position /\ C!Minus(b, a) = n + 1 /\ n \in Nat
  <2>1. b \in Position
    BY ConsSucc, ConsConstants DEF Position
  <2>2. b = IF e < UINT - 1 THEN e + 1 ELSE 0
    BY ConsSucc
  <2>3. /\ n = IF e >= a THEN e - a ELSE e + UINT - a
        /\ C!Minus(b, a) = IF b >= a THEN b - a ELSE b + UINT - a
    BY <2>1, ConsAhead
  <2> HIDE DEF b, n
  <2> QED BY <2>1, <2>2, <2>3, ConsConstants DEF Position, n
<1>2. g[e % INPUT_BUF] = c /\ e % INPUT_BUF \in Slot
  <2>1. e % INPUT_BUF \in Slot
    BY ConsSlot DEF Position
  <2> QED BY <2>1
<1>3. /\ Segment(g, a, b) \in Seq(C!Chars) /\ Len(Segment(g, a, b)) = n + 1
      /\ \A i \in 1..(n + 1) : Segment(g, a, b)[i] = g[(a + i - 1) % INPUT_BUF]
  <2>1. C!Minus(b, a) = n + 1
    BY <1>1
  <2>2. /\ Segment(g, a, b) \in Seq(C!Chars) /\ Len(Segment(g, a, b)) = C!Minus(b, a)
        /\ \A i \in 1..C!Minus(b, a) : Segment(g, a, b)[i] = g[(a + i - 1) % INPUT_BUF]
    <3> HIDE DEF b
    <3> QED BY <1>1, SegmentType
  <2> HIDE DEF b, n
  <2> QED BY <2>1, <2>2
<1>4. /\ Segment(g, a, e) \in Seq(C!Chars) /\ Len(Segment(g, a, e)) = n
      /\ \A i \in 1..n : Segment(g, a, e)[i] = g[(a + i - 1) % INPUT_BUF]
  BY SegmentType
<1>5. Segment(g, a, e) = Segment(f, a, e)
  <2>1. C!Minus(e, a) <= C!Minus(e, a)
    BY <1>1
  <2> QED BY <2>1, SegmentKept
<1>6. /\ Append(Segment(g, a, e), c) \in Seq(C!Chars)
      /\ Len(Append(Segment(g, a, e), c)) = n + 1
      /\ \A i \in 1..n : Append(Segment(g, a, e), c)[i] = Segment(g, a, e)[i]
      /\ Append(Segment(g, a, e), c)[n + 1] = c
  <2> HIDE DEF n
  <2> QED BY <1>4, AppendProperties
<1>7. (a + (n + 1) - 1) % INPUT_BUF = e % INPUT_BUF
  <2>1. (a + n + 0) % INPUT_BUF = (e + 0) % INPUT_BUF
    BY ConsOffset
  <2>2. a + n + 0 = a + (n + 1) - 1 /\ e + 0 = e
    BY <1>1 DEF Position
  <2> QED BY <2>1, <2>2
<1> HIDE DEF b, n
<1>8. ASSUME NEW i \in 1..(n + 1)
      PROVE  Segment(g, a, b)[i] = Append(Segment(g, a, e), c)[i]
  <2>1. CASE i = n + 1
    <3>1. Segment(g, a, b)[n + 1] = g[(a + (n + 1) - 1) % INPUT_BUF]
      BY <1>1, <1>3
    <3> QED BY <1>2, <1>6, <1>7, <2>1, <3>1
  <2>2. CASE i # n + 1
    <3>1. i \in 1..n
      BY <1>1, <2>2
    <3> QED BY <1>3, <1>4, <1>6, <3>1
  <2> QED BY <2>1, <2>2
<1>9. Segment(g, a, b) = Append(Segment(g, a, e), c)
  BY <1>3, <1>6, <1>8, SeqEqual
<1> QED BY <1>1, <1>5, <1>9 DEF b, n

(* Two segments that meet are one.                                         *)
LEMMA SegmentJoins ==
  ASSUME NEW f \in [Slot -> C!Chars], NEW a \in Position, NEW w \in Position, NEW e \in Position,
         C!Minus(w, a) <= C!Minus(e, a)
  PROVE  /\ C!Minus(e, a) = C!Minus(w, a) + C!Minus(e, w)
         /\ Segment(f, a, e) = Segment(f, a, w) \o Segment(f, w, e)
<1> DEFINE m == C!Minus(w, a)
           n == C!Minus(e, w)
<1>1. C!Minus(e, a) = m + n /\ m \in Nat /\ n \in Nat
  BY ConsAhead, ConsConstants DEF Position
<1>2. /\ Segment(f, a, e) \in Seq(C!Chars) /\ Len(Segment(f, a, e)) = m + n
      /\ \A i \in 1..(m + n) : Segment(f, a, e)[i] = f[(a + i - 1) % INPUT_BUF]
  <2>1. /\ Segment(f, a, e) \in Seq(C!Chars) /\ Len(Segment(f, a, e)) = C!Minus(e, a)
        /\ \A i \in 1..C!Minus(e, a) : Segment(f, a, e)[i] = f[(a + i - 1) % INPUT_BUF]
    BY SegmentType
  <2> QED BY <1>1, <2>1
<1>3. /\ Segment(f, a, w) \in Seq(C!Chars) /\ Len(Segment(f, a, w)) = m
      /\ \A i \in 1..m : Segment(f, a, w)[i] = f[(a + i - 1) % INPUT_BUF]
  BY SegmentType
<1>4. /\ Segment(f, w, e) \in Seq(C!Chars) /\ Len(Segment(f, w, e)) = n
      /\ \A i \in 1..n : Segment(f, w, e)[i] = f[(w + i - 1) % INPUT_BUF]
  BY SegmentType
<1>5. ASSUME NEW i \in 1..n
      PROVE  (a + (m + i) - 1) % INPUT_BUF = (w + i - 1) % INPUT_BUF
  <2>1. (a + m + (i - 1)) % INPUT_BUF = (w + (i - 1)) % INPUT_BUF
    <3>1. i - 1 \in Nat
      BY <1>1
    <3> QED BY <3>1, ConsOffset
  <2>2. a + m + (i - 1) = a + (m + i) - 1 /\ w + (i - 1) = w + i - 1
    BY <1>1 DEF Position
  <2> QED BY <2>1, <2>2
<1> HIDE DEF m, n
<1>6. /\ Segment(f, a, w) \o Segment(f, w, e) \in Seq(C!Chars)
      /\ Len(Segment(f, a, w) \o Segment(f, w, e)) = m + n
      /\ \A i \in 1..(m + n) : (Segment(f, a, w) \o Segment(f, w, e))[i] =
           IF i <= m THEN Segment(f, a, w)[i] ELSE Segment(f, w, e)[i - m]
  BY <1>3, <1>4, ConcatProperties
<1>7. ASSUME NEW i \in 1..(m + n)
      PROVE  Segment(f, a, e)[i] = (Segment(f, a, w) \o Segment(f, w, e))[i]
  <2>1. CASE i <= m
    <3>1. i \in 1..m
      BY <1>1, <2>1
    <3> QED BY <1>2, <1>3, <1>6, <2>1, <3>1
  <2>2. CASE ~(i <= m)
    <3>1. i - m \in 1..n /\ m + (i - m) = i
      BY <1>1, <2>2
    <3>2. (a + i - 1) % INPUT_BUF = (w + (i - m) - 1) % INPUT_BUF
      <4>1. (a + (m + (i - m)) - 1) % INPUT_BUF = (w + (i - m) - 1) % INPUT_BUF
        BY <1>5, <3>1
      <4> QED BY <3>1, <4>1
    <3>3. ~(i <= m)
      BY <1>1, <2>2
    <3>4. Segment(f, w, e)[i - m] = f[(w + (i - m) - 1) % INPUT_BUF]
      BY <1>4, <3>1
    <3> QED BY <1>2, <1>6, <3>2, <3>3, <3>4
  <2> QED BY <2>1, <2>2
<1>8. Segment(f, a, e) = Segment(f, a, w) \o Segment(f, w, e)
  BY <1>2, <1>6, <1>7, SeqEqual
<1> QED BY <1>1, <1>8 DEF m, n

(* The reader takes the first character.                                   *)
LEMMA SegmentTail ==
  ASSUME NEW f \in [Slot -> C!Chars], NEW a \in Position, NEW w \in Position, a # w
  PROVE  /\ (a + 1) % UINT \in Position /\ C!Minus(w, (a + 1) % UINT) = C!Minus(w, a) - 1
         /\ Segment(f, a, w) # <<>> /\ Segment(f, (a + 1) % UINT, w) = Tail(Segment(f, a, w))
<1> DEFINE b == (a + 1) % UINT
           n == C!Minus(w, a)
<1>1. b \in Position /\ b = IF a < UINT - 1 THEN a + 1 ELSE 0
  BY ConsSucc, ConsConstants DEF Position
<1>2. C!Minus(w, b) = n - 1 /\ n \in Nat /\ n > 0
  <2>1. /\ n = IF w >= a THEN w - a ELSE w + UINT - a
        /\ C!Minus(w, b) = IF w >= b THEN w - b ELSE w + UINT - b
    BY <1>1, ConsAhead
  <2> HIDE DEF b, n
  <2> QED BY <1>1, <2>1, ConsConstants DEF Position
<1>3. /\ Segment(f, a, w) \in Seq(C!Chars) /\ Len(Segment(f, a, w)) = n
      /\ \A i \in 1..n : Segment(f, a, w)[i] = f[(a + i - 1) % INPUT_BUF]
  BY SegmentType
<1>4. /\ Segment(f, b, w) \in Seq(C!Chars) /\ Len(Segment(f, b, w)) = n - 1
      /\ \A i \in 1..(n - 1) : Segment(f, b, w)[i] = f[(b + i - 1) % INPUT_BUF]
  <2>1. /\ Segment(f, b, w) \in Seq(C!Chars) /\ Len(Segment(f, b, w)) = C!Minus(w, b)
        /\ \A i \in 1..C!Minus(w, b) : Segment(f, b, w)[i] = f[(b + i - 1) % INPUT_BUF]
    <3>1. b \in Position
      BY <1>1
    <3> HIDE DEF b
    <3> QED BY <3>1, SegmentType
  <2> QED BY <1>2, <2>1
<1>5. ASSUME NEW i \in 1..(n - 1)
      PROVE  (b + i - 1) % INPUT_BUF = (a + (i + 1) - 1) % INPUT_BUF
  <2>1. CASE a < UINT - 1
    <3>1. b + i - 1 = a + (i + 1) - 1
      BY <1>1, <1>2, <2>1 DEF Position
    <3> QED BY <3>1
  <2>2. CASE ~(a < UINT - 1)
    <3>1. a + (i + 1) - 1 = (b + i - 1) + UINT /\ b + i - 1 \in Int
      BY <1>1, <1>2, <2>2, ConsConstants DEF Position
    <3> QED BY <3>1, ConsSlot
  <2> QED BY <2>1, <2>2
<1> HIDE DEF b, n
<1>6. Segment(f, a, w) # <<>>
  BY <1>2, <1>3
<1>7. /\ Tail(Segment(f, a, w)) \in Seq(C!Chars) /\ Len(Tail(Segment(f, a, w))) = n - 1
      /\ \A i \in 1..(n - 1) : Tail(Segment(f, a, w))[i] = Segment(f, a, w)[i + 1]
  BY <1>3, <1>6, HeadTailProperties
<1>8. ASSUME NEW i \in 1..(n - 1)
      PROVE  Segment(f, b, w)[i] = Tail(Segment(f, a, w))[i]
  <2>1. i + 1 \in 1..n
    BY <1>2
  <2>2. Segment(f, a, w)[i + 1] = f[(a + (i + 1) - 1) % INPUT_BUF]
    BY <1>3, <2>1
  <2> QED BY <1>4, <1>5, <1>7, <2>2
<1>9. Segment(f, b, w) = Tail(Segment(f, a, w))
  BY <1>4, <1>7, <1>8, SeqEqual
<1> QED BY <1>1, <1>2, <1>6, <1>9 DEF b, n

(* Erasing takes the last one.                                             *)
LEMMA SegmentCut ==
  ASSUME NEW f \in [Slot -> C!Chars], NEW w \in Position, NEW e \in Position, e # w
  PROVE  /\ C!Minus(e, 1) \in Position /\ C!Minus(C!Minus(e, 1), w) = C!Minus(e, w) - 1
         /\ Segment(f, w, e) # <<>>
         /\ Segment(f, w, C!Minus(e, 1)) = SubSeq(Segment(f, w, e), 1, Len(Segment(f, w, e)) - 1)
<1> DEFINE b == C!Minus(e, 1)
           n == C!Minus(e, w)
           s == Segment(f, w, e)
<1>1. b \in Position /\ b = IF e >= 1 THEN e - 1 ELSE e + UINT - 1
  <2>1. 1 \in Position
    BY ConsConstants DEF Position
  <2> QED BY <2>1, ConsAhead, ConsConstants DEF Position
<1>2. C!Minus(b, w) = n - 1 /\ n \in Nat /\ n > 0
  <2>1. C!Minus(b, w) = IF b >= w THEN b - w ELSE b + UINT - w
    BY <1>1, ConsAhead
  <2>2. n = IF e >= w THEN e - w ELSE e + UINT - w
    BY ConsAhead
  <2> QED BY <1>1, <2>1, <2>2, ConsConstants DEF Position
<1>3. /\ s \in Seq(C!Chars) /\ Len(s) = n
      /\ \A i \in 1..n : s[i] = f[(w + i - 1) % INPUT_BUF]
  BY SegmentType
<1>4. /\ Segment(f, w, b) \in Seq(C!Chars) /\ Len(Segment(f, w, b)) = n - 1
      /\ \A i \in 1..(n - 1) : Segment(f, w, b)[i] = f[(w + i - 1) % INPUT_BUF]
  <2> HIDE DEF b, n, s
  <2>1. /\ Segment(f, w, b) \in Seq(C!Chars) /\ Len(Segment(f, w, b)) = C!Minus(b, w)
        /\ \A i \in 1..C!Minus(b, w) : Segment(f, w, b)[i] = f[(w + i - 1) % INPUT_BUF]
    BY <1>1, SegmentType
  <2> QED BY <1>2, <2>1
<1> HIDE DEF b, n, s
<1>5. /\ SubSeq(s, 1, n - 1) \in Seq(C!Chars) /\ Len(SubSeq(s, 1, n - 1)) = n - 1
      /\ \A i \in 1..(n - 1) : SubSeq(s, 1, n - 1)[i] = s[i]
  <2>1. \A i \in 1..(n - 1) : s[i] \in C!Chars
    BY <1>2, <1>3, ElementOfSeq
  <2>2. n - 1 \in Int /\ 1 \in Int
    BY <1>2
  <2>3. /\ SubSeq(s, 1, n - 1) \in Seq(C!Chars)
        /\ Len(SubSeq(s, 1, n - 1)) = IF 1 <= n - 1 THEN n - 1 - 1 + 1 ELSE 0
        /\ \A i \in 1..(n - 1 - 1 + 1) : SubSeq(s, 1, n - 1)[i] = s[1 + i - 1]
    BY <2>1, <2>2, SubSeqProperties
  <2>4. \A i \in 1..(n - 1) : 1 + i - 1 = i /\ i \in 1..(n - 1 - 1 + 1)
    BY <1>2
  <2> QED BY <1>2, <2>3, <2>4
<1>6. \A i \in 1..(n - 1) : Segment(f, w, b)[i] = SubSeq(s, 1, n - 1)[i]
  BY <1>2, <1>3, <1>4, <1>5
<1>7. Segment(f, w, b) = SubSeq(s, 1, n - 1)
  BY <1>4, <1>5, <1>6, SeqEqual
<1>8. s # <<>>
  BY <1>2, <1>3
<1> QED BY <1>1, <1>2, <1>3, <1>7, <1>8 DEF b, n, s

(* Nothing has been typed.                                                 *)
LEMMA ConsInvInit == C!Init => ConsInv
<1> SUFFICES ASSUME C!Init
             PROVE  ConsInv
  OBVIOUS
<1>1. ConsTypeOK
  BY ConsConstants DEF C!Init, ConsTypeOK, Slot, Position, C!Chars
<1>2. C!Minus(0, 0) = 0
  <2>1. 0 \in Position
    BY ConsConstants DEF Position
  <2> QED BY <2>1, ConsAhead
<1>3. Between
  <2>1. 1..0 = {} /\ 0 <= INPUT_BUF
    BY ConsConstants
  <2> QED BY <1>2, <2>1 DEF C!Init, Between
<1> QED BY <1>1, <1>3, ConsConstants DEF C!Init, ConsInv, Readers

(* A segment from an index to itself is empty.                             *)
LEMMA SegmentEmpty ==
  ASSUME NEW f \in [Slot -> C!Chars], NEW a \in Position, NEW b \in Position
  PROVE  /\ C!Minus(b, a) = 0 <=> a = b
         /\ a = b => Segment(f, a, b) = <<>>
<1>1. C!Minus(b, a) = 0 <=> a = b
  BY ConsAhead, ConsConstants DEF Position
<1>2. ASSUME a = b
      PROVE  Segment(f, a, b) = <<>>
  BY <1>1, <1>2, SegmentType
<1> QED BY <1>1, <1>2

(* A key: what is in the ring afterwards.                                  *)
LEMMA KeyTypes ==
  ASSUME ConsInv, NEW c \in C!Chars, C!Key(c)
  PROVE  /\ cbuf' \in [Slot -> C!Chars] /\ consR' = consR /\ consLock' = Nobody /\ consLock = Nobody
         /\ consE' = (consE + 1) % UINT /\ consE' \in Position /\ consW' \in {consW, consE'}
         /\ C!Minus(consE, consR) < INPUT_BUF
         /\ C!Minus(consE', consR) = C!Minus(consE, consR) + 1
         /\ \A k \in Slot : cbuf'[k] = IF k = consE % INPUT_BUF THEN c ELSE cbuf[k]
<1>1. ConsTypeOK
  BY DEF ConsInv
<1>2. /\ cbuf' = [cbuf EXCEPT ![consE % INPUT_BUF] = c] /\ consE' = (consE + 1) % UINT
      /\ C!Minus(consE, consR) < INPUT_BUF /\ consR' = consR /\ consLock' = Nobody /\ consLock = Nobody
      /\ consW' \in {consW, consE'}
  BY DEF C!Key
<1>3. cbuf' \in [Slot -> C!Chars] /\ \A k \in Slot : cbuf'[k] = IF k = consE % INPUT_BUF THEN c ELSE cbuf[k]
  BY <1>1, <1>2 DEF ConsTypeOK
<1>4. consE' \in Position /\ C!Minus(consE', consR) = C!Minus(consE, consR) + 1
  <2>1. /\ (consE + 1) % UINT \in Position
        /\ C!Minus((consE + 1) % UINT, consR) = C!Minus(consE, consR) + 1
    BY <1>1, <1>2, <1>3, SegmentGrows DEF ConsTypeOK
  <2> QED BY <1>2, <2>1
<1> QED BY <1>2, <1>3, <1>4

(* A line that is completed is all that was in the ring, and the key.      *)
LEMMA KeyCompletes ==
  ASSUME ConsInv, NEW c \in C!Chars, C!Key(c), consW' = consE'
  PROVE  /\ Segment(cbuf', consR', consW') =
              Segment(cbuf, consR, consW) \o Append(Segment(cbuf, consW, consE), c)
         /\ Segment(cbuf', consW', consE') = <<>>
<1>1. ConsTypeOK /\ Between
  BY DEF ConsInv
<1> DEFINE s == Segment(cbuf, consR, consW)
           t == Segment(cbuf, consW, consE)
<1>2. Segment(cbuf', consR, consE') = Append(Segment(cbuf, consR, consE), c)
  BY <1>1, KeyTypes, SegmentGrows DEF ConsTypeOK
<1>3. Segment(cbuf, consR, consE) = s \o t
  BY <1>1, SegmentJoins DEF ConsTypeOK, Between
<1>4. s \in Seq(C!Chars) /\ t \in Seq(C!Chars)
  BY <1>1, SegmentType DEF ConsTypeOK
<1>5. Append(s \o t, c) = s \o Append(t, c)
  <2> HIDE DEF s, t
  <2>1. s \o t \in Seq(C!Chars) /\ <<c>> \in Seq(C!Chars)
    BY <1>4, ConcatProperties
  <2>2. Append(s \o t, c) = (s \o t) \o <<c>> /\ Append(t, c) = t \o <<c>>
    BY <1>4, <2>1, AppendIsConcat
  <2> QED BY <1>4, <2>1, <2>2, ConcatAssociative
<1>6. Segment(cbuf', consW', consE') = <<>>
  BY KeyTypes, SegmentEmpty
<1> QED BY <1>2, <1>3, <1>5, <1>6, KeyTypes

(* One that is not grows by the key.                                       *)
LEMMA KeyExtends ==
  ASSUME ConsInv, NEW c \in C!Chars, C!Key(c), consW' = consW
  PROVE  /\ Segment(cbuf', consR', consW') = Segment(cbuf, consR, consW)
         /\ Segment(cbuf', consW', consE') = Append(Segment(cbuf, consW, consE), c)
         /\ C!Minus(consE', consW') = C!Minus(consE, consW) + 1
<1>1. ConsTypeOK /\ Between
  BY DEF ConsInv
<1>2. /\ cbuf' \in [Slot -> C!Chars] /\ consR' = consR /\ consE' = (consE + 1) % UINT
      /\ \A k \in Slot : cbuf'[k] = IF k = consE % INPUT_BUF THEN c ELSE cbuf[k]
      /\ C!Minus(consE, consR) < INPUT_BUF
  BY KeyTypes
<1>3. Segment(cbuf', consR, consW) = Segment(cbuf, consR, consW)
  BY <1>1, <1>2, SegmentKept DEF ConsTypeOK, Between
<1>4. C!Minus(consE, consW) < INPUT_BUF
  <2>1. C!Minus(consE, consR) = C!Minus(consW, consR) + C!Minus(consE, consW)
    BY <1>1, SegmentJoins DEF ConsTypeOK, Between
  <2>2. C!Minus(consW, consR) \in Nat /\ C!Minus(consE, consW) \in Nat
    BY <1>1, SegmentType DEF ConsTypeOK
  <2> QED BY <1>2, <2>1, <2>2, ConsConstants
<1>5. /\ Segment(cbuf', consW, (consE + 1) % UINT) = Append(Segment(cbuf, consW, consE), c)
      /\ C!Minus((consE + 1) % UINT, consW) = C!Minus(consE, consW) + 1
  <2>1. /\ cbuf \in [Slot -> C!Chars] /\ cbuf' \in [Slot -> C!Chars]
        /\ consW \in Position /\ consE \in Position
    BY <1>1, <1>2 DEF ConsTypeOK
  <2>2. \A k \in Slot : cbuf'[k] = IF k = consE % INPUT_BUF THEN c ELSE cbuf[k]
    BY <1>2
  <2> QED BY <1>4, <2>1, <2>2, SegmentGrows
<1> QED BY <1>2, <1>3, <1>5

(* ^U takes the edited characters, and those alone.                        *)
LEMMA KillLineClears ==
  ASSUME ConsInv, C!KillLine
  PROVE  consE' = consW
<1>1. ConsTypeOK /\ Between
  BY DEF ConsInv
<1> DEFINE n == C!Minus(consE, consW)
           kept == {k \in 0..n : \A j \in (k + 1)..n : C!Between(consW, consE)[j] # "nl"}
<1>2. n \in Nat
  BY <1>1, SegmentType DEF ConsTypeOK
<1>3. PICK k \in kept : (\A j \in kept : k <= j) /\ consE' = (consW + k) % UINT
  BY DEF C!KillLine
<1>4. 0 \in kept
  <2>1. C!Between(consW, consE) = Segment(cbuf, consW, consE)
    BY DEF C!Between, Segment
  <2>2. \A j \in (0 + 1)..n : C!Between(consW, consE)[j] # "nl"
    BY <1>1, <2>1 DEF Between
  <2> QED BY <1>2, <2>2
<1>5. k = 0
  BY <1>2, <1>3, <1>4
<1>6. (consW + 0) % UINT = consW
  BY <1>1, ConsConstants, RemainderOnce DEF ConsTypeOK, Position
<1> QED BY <1>3, <1>5, <1>6

(* Every step of the console keeps what is known of the ring.              *)
LEMMA RingStep ==
  ASSUME ConsInv, [C!Next]_consVars
  PROVE  ConsTypeOK' /\ Between'
<1>1. ConsTypeOK /\ Between /\ Readers
  BY DEF ConsInv
<1>n. /\ C!Minus(consE, consR) \in Nat /\ C!Minus(consW, consR) \in Nat /\ C!Minus(consE, consW) \in Nat
      /\ C!Minus(consE, consR) = C!Minus(consW, consR) + C!Minus(consE, consW)
  BY <1>1, SegmentType, SegmentJoins DEF ConsTypeOK, Between
<1>2. ASSUME NEW c \in C!Chars, C!Key(c)
      PROVE  ConsTypeOK' /\ Between'
  <2>1. rat' \in [Procs -> {"user", "loop", "sleep", "asleep", "woken"}]
    BY <1>1, <1>2 DEF C!Key, C!Wake, ConsTypeOK
  <2>2. ConsTypeOK'
    BY <1>1, <1>2, <2>1, KeyTypes DEF ConsTypeOK
  <2>3. CASE consW' = consE'
    <3>1. C!Minus(consE', consW') = 0
      BY <1>2, <2>3, KeyTypes, SegmentEmpty
    <3>2. 1..0 = {}
      OBVIOUS
    <3>3. C!Minus(consE', consR') <= INPUT_BUF /\ C!Minus(consE', consR') \in Nat
      BY <1>2, <1>n, KeyTypes, ConsConstants
    <3> QED BY <2>2, <2>3, <3>1, <3>2, <3>3 DEF Between
  <2>4. CASE consW' = consW /\ consW' # consE'
    <3>1. c # "nl"
      BY <1>2, <2>4 DEF C!Key
    <3>2. /\ Segment(cbuf', consW', consE') = Append(Segment(cbuf, consW, consE), c)
          /\ C!Minus(consE', consW') = C!Minus(consE, consW) + 1
      BY <1>2, <2>4, KeyExtends
    <3>3. /\ Segment(cbuf, consW, consE) \in Seq(C!Chars)
          /\ Len(Segment(cbuf, consW, consE)) = C!Minus(consE, consW)
      BY <1>1, SegmentType DEF ConsTypeOK
    <3>4. \A j \in 1..C!Minus(consE', consW') : Segment(cbuf', consW', consE')[j] # "nl"
      BY <1>1, <1>n, <3>1, <3>2, <3>3, AppendProperties DEF Between
    <3>5. C!Minus(consW', consR') <= C!Minus(consE', consR') /\ C!Minus(consE', consR') <= INPUT_BUF
      BY <1>1, <1>2, <1>n, <2>4, KeyTypes, ConsConstants DEF Between
    <3> QED BY <2>2, <3>4, <3>5 DEF Between
  <2> QED BY <1>2, <2>3, <2>4, KeyTypes
<1>3. CASE C!Backspace
  <2>1. /\ consE # consW /\ consE' = C!Minus(consE, 1)
        /\ UNCHANGED <<cbuf, consR, consW, consLock, rat>>
    BY <1>3 DEF C!Backspace
  <2>2. consE' \in Position /\ C!Minus(consE', consW) = C!Minus(consE, consW) - 1
    BY <1>1, <2>1, SegmentCut DEF ConsTypeOK
  <2>3. C!Minus(consE', consR) = C!Minus(consE, consR) - 1
    <3>1. C!Minus(consE, consW) # 0
      BY <1>1, <2>1, SegmentEmpty DEF ConsTypeOK
    <3>2. C!Minus(consE, consR) # 0
      BY <1>n, <3>1
    <3>3. consE # consR
      BY <1>1, <3>2, SegmentEmpty DEF ConsTypeOK
    <3> QED BY <1>1, <2>1, <3>3, SegmentCut DEF ConsTypeOK
  <2>4. C!Minus(consE, consW) - 1 \in Nat
    BY <1>1, <1>n, <2>1, SegmentEmpty DEF ConsTypeOK
  <2>5. ASSUME NEW j \in 1..(C!Minus(consE, consW) - 1)
        PROVE  Segment(cbuf, consW, consE')[j] # "nl"
    <3>1. Segment(cbuf, consW, consE')[j] = cbuf[(consW + j - 1) % INPUT_BUF]
      <4>1. \A i \in 1..C!Minus(consE', consW) :
              Segment(cbuf, consW, consE')[i] = cbuf[(consW + i - 1) % INPUT_BUF]
        BY <1>1, <2>2, SegmentType DEF ConsTypeOK
      <4> QED BY <2>2, <4>1
    <3>2. j \in 1..C!Minus(consE, consW)
      BY <1>n
    <3>3. Segment(cbuf, consW, consE)[j] = cbuf[(consW + j - 1) % INPUT_BUF]
      BY <1>1, <3>2, SegmentType DEF ConsTypeOK
    <3> QED BY <1>1, <3>1, <3>2, <3>3 DEF Between
  <2>6. C!Minus(consW, consR) <= C!Minus(consE', consR) /\ C!Minus(consE', consR) <= INPUT_BUF
    BY <1>1, <1>n, <2>3, <2>4, ConsConstants DEF Between
  <2>7. ConsTypeOK'
    BY <1>1, <2>1, <2>2 DEF ConsTypeOK
  <2> QED BY <2>1, <2>2, <2>5, <2>6, <2>7 DEF Between
<1>4. CASE C!KillLine
  <2>1. consE' = consW /\ UNCHANGED <<cbuf, consR, consW, consLock, rat>>
    BY <1>4, KillLineClears DEF C!KillLine
  <2>2. C!Minus(consW, consW) = 0 /\ 1..0 = {}
    BY <1>1, SegmentEmpty DEF ConsTypeOK
  <2>3. C!Minus(consW, consR) <= C!Minus(consW, consR) /\ C!Minus(consW, consR) <= INPUT_BUF
    BY <1>1, <1>n, ConsConstants DEF Between
  <2> QED BY <1>1, <2>1, <2>2, <2>3 DEF Between, ConsTypeOK
<1>5. ASSUME NEW p \in Procs, C!Take(p), consR' = (consR + 1) % UINT
      PROVE  ConsTypeOK' /\ Between'
  <2>1. consR # consW /\ UNCHANGED <<cbuf, consW, consE>>
    BY <1>5 DEF C!Take
  <2>2. consR' \in Position /\ C!Minus(consW, consR') = C!Minus(consW, consR) - 1
    BY <1>1, <1>5, <2>1, SegmentTail DEF ConsTypeOK
  <2>3. C!Minus(consE, consR') = C!Minus(consE, consR) - 1
    <3>1. C!Minus(consW, consR) # 0
      BY <1>1, <2>1, SegmentEmpty DEF ConsTypeOK
    <3>2. C!Minus(consE, consR) # 0
      BY <1>n, <3>1
    <3>3. consR # consE
      BY <1>1, <3>2, SegmentEmpty DEF ConsTypeOK
    <3> QED BY <1>1, <1>5, <3>3, SegmentTail DEF ConsTypeOK
  <2>4. ConsTypeOK'
    <3>1. consLock' \in Procs \cup {Nobody} /\ rat' \in [Procs -> {"user", "loop", "sleep", "asleep", "woken"}]
      BY <1>1, <1>5 DEF ConsTypeOK, C!Take, C!Leave, C!Goto
    <3> QED BY <1>1, <2>1, <2>2, <3>1 DEF ConsTypeOK
  <2>5. C!Minus(consW, consR') <= C!Minus(consE, consR') /\ C!Minus(consE, consR') <= INPUT_BUF
    BY <1>1, <1>n, <2>2, <2>3, ConsConstants DEF Between
  <2> QED BY <1>1, <2>1, <2>4, <2>5 DEF Between
<1>6. ASSUME UNCHANGED <<cbuf, consR, consW, consE>>, consLock' \in Procs \cup {Nobody},
             rat' \in [Procs -> {"user", "loop", "sleep", "asleep", "woken"}]
      PROVE  ConsTypeOK' /\ Between'
  BY <1>1, <1>6 DEF ConsTypeOK, Between
<1>7. ASSUME NEW p \in Procs, C!Take(p), consR' = consR
      PROVE  ConsTypeOK' /\ Between'
  <2>1. consLock' \in Procs \cup {Nobody} /\ rat' \in [Procs -> {"user", "loop", "sleep", "asleep", "woken"}]
    BY <1>1, <1>7 DEF ConsTypeOK, C!Take, C!Leave, C!Goto
  <2> QED BY <1>6, <1>7, <2>1 DEF C!Take
<1>8. ASSUME NEW p \in Procs, C!Read(p) \/ C!Wait(p) \/ C!Sleep(p) \/ C!Resume(p) \/ C!Kill(p)
      PROVE  ConsTypeOK' /\ Between'
  <2>1. /\ UNCHANGED <<cbuf, consR, consW, consE>> /\ consLock' \in Procs \cup {Nobody}
        /\ rat' \in [Procs -> {"user", "loop", "sleep", "asleep", "woken"}]
    BY <1>1, <1>8 DEF ConsTypeOK, C!Read, C!Wait, C!Sleep, C!Resume, C!Kill, C!Leave, C!Goto
  <2> QED BY <1>6, <2>1
<1>9. CASE UNCHANGED consVars
  BY <1>1, <1>6, <1>9 DEF consVars, ConsTypeOK
<1>10. \A p \in Procs : C!Take(p) => consR' = consR \/ consR' = (consR + 1) % UINT
  BY DEF C!Take
<1> QED BY <1>2, <1>3, <1>4, <1>5, <1>7, <1>8, <1>9, <1>10 DEF C!Next

(* And nobody sleeps beside a line.                                        *)
LEMMA ReadersStep ==
  ASSUME ConsInv, [C!Next]_consVars
  PROVE  Readers'
<1>1. ConsTypeOK /\ Readers /\ Nobody \notin Procs
  BY ConsConstants DEF ConsInv
<1>2. ASSUME NEW c \in C!Chars, C!Key(c)
      PROVE  Readers'
  <2>1. \A p \in Procs : rat[p] \notin {"loop", "sleep"}
    BY <1>1, <1>2 DEF C!Key, Readers
  <2>2. \A p \in Procs : rat'[p] \notin {"loop", "sleep"}
    BY <1>1, <1>2, <2>1 DEF C!Key, C!Wake, ConsTypeOK
  <2>3. (\A p \in Procs : rat'[p] # "asleep") \/ (consW' = consW /\ rat' = rat)
    BY <1>1, <1>2 DEF C!Key, C!Wake, ConsTypeOK
  <2> QED BY <1>1, <1>2, <2>2, <2>3 DEF C!Key, Readers
<1>3. CASE C!Backspace \/ C!KillLine \/ UNCHANGED consVars
  BY <1>1, <1>3 DEF C!Backspace, C!KillLine, consVars, Readers
<1>4. ASSUME NEW p \in Procs, C!Read(p) \/ C!Resume(p)
      PROVE  Readers'
  BY <1>1, <1>4 DEF C!Read, C!Resume, C!Goto, Readers, ConsTypeOK
<1>5. ASSUME NEW p \in Procs, C!Wait(p)
      PROVE  Readers'
  BY <1>1, <1>5 DEF C!Wait, C!Leave, C!Goto, Readers, ConsTypeOK
<1>6. ASSUME NEW p \in Procs, C!Sleep(p)
      PROVE  Readers'
  BY <1>1, <1>6 DEF C!Sleep, C!Goto, Readers, ConsTypeOK
<1>7. ASSUME NEW p \in Procs, C!Take(p)
      PROVE  Readers'
  BY <1>1, <1>7 DEF C!Take, C!Leave, C!Goto, Readers, ConsTypeOK
<1>8. ASSUME NEW p \in Procs, C!Kill(p)
      PROVE  Readers'
  BY <1>1, <1>8 DEF C!Kill, C!Goto, Readers, ConsTypeOK
<1> QED BY <1>2, <1>3, <1>4, <1>5, <1>6, <1>7, <1>8 DEF C!Next
-----------------------------------------------------------------------------
(* What a reader and the keyboard see: the two segments.                   *)
LEMMA Seen ==
  /\ C!Lines!editorVars = <<Segment(cbuf, consR, consW), Segment(cbuf, consW, consE)>>
  /\ C!Between(consR, consW) = Segment(cbuf, consR, consW)
  /\ C!Between(consW, consE) = Segment(cbuf, consW, consE)
BY DEF C!Lines!editorVars, C!Between, Segment

(* And after a step.                                                       *)
LEMMA SeenNext ==
  /\ C!Lines!editorVars' = <<Segment(cbuf', consR', consW'), Segment(cbuf', consW', consE')>>
  /\ C!Between(consR, consW)' = Segment(cbuf', consR', consW')
  /\ C!Between(consW, consE)' = Segment(cbuf', consW', consE')
BY DEF C!Lines!editorVars, C!Between, Segment

(* A key types a character.                                                *)
LEMMA KeyTyped ==
  ASSUME ConsInv, NEW c \in C!Chars, C!Key(c)
  PROVE  C!Lines!Type(c)
<1> DEFINE s == Segment(cbuf, consR, consW)
           t == Segment(cbuf, consW, consE)
<1>1. ConsTypeOK /\ Between
  BY DEF ConsInv
<1>2. /\ s \in Seq(C!Chars) /\ Len(s) = C!Minus(consW, consR) /\ Len(s) \in Nat
      /\ t \in Seq(C!Chars) /\ Len(t) = C!Minus(consE, consW) /\ Len(t) \in Nat
  BY <1>1, SegmentType DEF ConsTypeOK
<1>3. C!Minus(consE, consR) = Len(s) + Len(t)
  BY <1>1, <1>2, SegmentJoins DEF ConsTypeOK, Between
<1>4. Len(s) + Len(t) < INPUT_BUF /\ Len(Append(t, c)) = Len(t) + 1
  <2>1. Len(s) + Len(t) < INPUT_BUF
    BY <1>3, KeyTypes
  <2> HIDE DEF t
  <2> QED BY <1>2, <2>1, AppendProperties
<1>5. consE' = (consR + INPUT_BUF) % UINT <=> Len(s) + (Len(t) + 1) = INPUT_BUF
  <2>1. /\ C!Minus(consE', consR) = Len(s) + (Len(t) + 1) /\ consE' \in Position /\ consR \in Position
    BY <1>1, <1>2, <1>3, KeyTypes DEF ConsTypeOK
  <2>2. C!Minus(consE', consR) = IF consE' >= consR THEN consE' - consR ELSE consE' + UINT - consR
    BY <2>1, ConsAhead
  <2>3. (consR + INPUT_BUF) % UINT =
          IF consR + INPUT_BUF < UINT THEN consR + INPUT_BUF ELSE consR + INPUT_BUF - UINT
    <3> DEFINE x == consR + INPUT_BUF
    <3>1. x \in Nat /\ x < UINT + UINT /\ UINT \in Nat /\ UINT > 0
      BY <2>1, ConsConstants DEF Position
    <3> HIDE DEF x
    <3>2. x % UINT = IF x < UINT THEN x ELSE x - UINT
      BY <3>1, RemainderOnce
    <3> QED BY <2>1, <3>2, ConsConstants DEF x, Position
  <2> HIDE DEF s, t
  <2>4. CASE consE' = (consR + INPUT_BUF) % UINT
    BY <2>1, <2>2, <2>3, <2>4, ConsConstants DEF Position
  <2>5. CASE Len(s) + (Len(t) + 1) = INPUT_BUF
    BY <2>1, <2>2, <2>3, <2>5, ConsConstants DEF Position
  <2> QED BY <2>4, <2>5
<1>6. CASE c \in {"nl", "eof"} \/ Len(s) + (Len(t) + 1) = INPUT_BUF
  <2>1. consW' = consE'
    BY <1>5, <1>6 DEF C!Key
  <2>2. /\ Segment(cbuf', consR', consW') = s \o Append(t, c)
        /\ Segment(cbuf', consW', consE') = <<>>
    BY <2>1, KeyCompletes
  <2> HIDE DEF s, t
  <2>3. /\ C!Between(consR, consW)' = s \o Append(t, c) /\ C!Between(consW, consE)' = <<>>
        /\ C!Between(consR, consW) = s /\ C!Between(consW, consE) = t
    BY <2>2, Seen, SeenNext DEF s, t
  <2> QED BY <1>4, <1>6, <2>3 DEF C!Lines!Type
<1>7. CASE ~(c \in {"nl", "eof"} \/ Len(s) + (Len(t) + 1) = INPUT_BUF)
  <2>1. consW' = consW
    BY <1>5, <1>7 DEF C!Key
  <2>2. /\ Segment(cbuf', consR', consW') = s
        /\ Segment(cbuf', consW', consE') = Append(t, c)
    BY <2>1, KeyExtends
  <2> HIDE DEF s, t
  <2>3. /\ C!Between(consR, consW)' = s /\ C!Between(consW, consE)' = Append(t, c)
        /\ C!Between(consR, consW) = s /\ C!Between(consW, consE) = t
    BY <2>2, Seen, SeenNext DEF s, t
  <2> QED BY <1>4, <1>7, <2>3 DEF C!Lines!Type
<1> QED BY <1>6, <1>7

(* Every step of the console is a step of the line editor, or unseen.      *)
LEMMA LineStep ==
  ASSUME ConsInv, [C!Next]_consVars
  PROVE  [C!Lines!Next]_(C!Lines!editorVars)
<1>1. ConsTypeOK /\ Between
  BY DEF ConsInv
<1>2. ASSUME NEW c \in C!Chars, C!Key(c)
      PROVE  C!Lines!Next
  BY <1>2, KeyTyped DEF C!Lines!Next
<1>3. CASE C!Backspace
  <2> DEFINE t == Segment(cbuf, consW, consE)
  <2>1. consE # consW /\ consE' = C!Minus(consE, 1) /\ UNCHANGED <<cbuf, consR, consW>>
    BY <1>3 DEF C!Backspace
  <2>2. t # <<>> /\ Segment(cbuf', consW', consE') = SubSeq(t, 1, Len(t) - 1)
    BY <1>1, <2>1, SegmentCut DEF ConsTypeOK
  <2>3. Segment(cbuf', consR', consW') = Segment(cbuf, consR, consW)
    BY <2>1
  <2> HIDE DEF t
  <2>4. /\ C!Between(consW, consE)' = SubSeq(t, 1, Len(t) - 1) /\ C!Between(consW, consE) = t
        /\ C!Between(consR, consW)' = C!Between(consR, consW)
    BY <2>2, <2>3, Seen, SeenNext DEF t
  <2> QED BY <2>2, <2>4 DEF C!Lines!Next, C!Lines!Erase
<1>4. CASE C!KillLine
  <2>1. consE' = consW /\ UNCHANGED <<cbuf, consR, consW>>
    BY <1>4, KillLineClears DEF C!KillLine
  <2>2. Segment(cbuf', consW', consE') = <<>> /\ Segment(cbuf', consR', consW') = Segment(cbuf, consR, consW)
    BY <1>1, <2>1, SegmentEmpty DEF ConsTypeOK
  <2>3. C!Between(consW, consE)' = <<>> /\ C!Between(consR, consW)' = C!Between(consR, consW)
    BY <2>2, Seen, SeenNext
  <2> QED BY <2>3 DEF C!Lines!Next, C!Lines!KillLine
<1>5. ASSUME NEW p \in Procs, C!Take(p), consR' = (consR + 1) % UINT
      PROVE  C!Lines!Next
  <2> DEFINE s == Segment(cbuf, consR, consW)
  <2>1. consR # consW /\ UNCHANGED <<cbuf, consW, consE>>
    BY <1>5 DEF C!Take
  <2>2. s # <<>> /\ Segment(cbuf', consR', consW') = Tail(s)
    BY <1>1, <1>5, <2>1, SegmentTail DEF ConsTypeOK
  <2>3. Segment(cbuf', consW', consE') = Segment(cbuf, consW, consE)
    BY <2>1
  <2> HIDE DEF s
  <2>4. /\ C!Between(consR, consW)' = Tail(s) /\ C!Between(consR, consW) = s
        /\ C!Between(consW, consE)' = C!Between(consW, consE)
    BY <2>2, <2>3, Seen, SeenNext DEF s
  <2> QED BY <2>2, <2>4 DEF C!Lines!Next, C!Lines!Take
<1>6. ASSUME UNCHANGED <<cbuf, consR, consW, consE>>
      PROVE  UNCHANGED C!Lines!editorVars
  BY <1>6, Seen, SeenNext
<1>7. ASSUME NEW p \in Procs,
             C!Read(p) \/ C!Wait(p) \/ C!Sleep(p) \/ C!Resume(p) \/ C!Kill(p) \/ (C!Take(p) /\ consR' = consR)
      PROVE  UNCHANGED <<cbuf, consR, consW, consE>>
  BY <1>7 DEF C!Read, C!Wait, C!Sleep, C!Resume, C!Kill, C!Take
<1>8. UNCHANGED consVars => UNCHANGED <<cbuf, consR, consW, consE>>
  BY DEF consVars
<1>9. \A p \in Procs : C!Take(p) => consR' = consR \/ consR' = (consR + 1) % UINT
  BY DEF C!Take
<1> QED BY <1>2, <1>3, <1>4, <1>5, <1>6, <1>7, <1>8, <1>9 DEF C!Next
-----------------------------------------------------------------------------
(* The inodes as a whole.                                                  *)
FsType ==
  [type : [F!Inums -> {"none", "file", "dir"}], nlink : [F!Inums -> Nat], ref : [F!Inums -> Nat],
   ent : [F!Inums -> [Names -> F!Inums \cup {F!Nil}]], up : [F!Inums -> F!Inums \cup {F!Nil}],
   valid : [F!Inums -> BOOLEAN],
   removed : SUBSET F!Inums, lost : SUBSET F!Inums, stray : SUBSET F!Inums]

(* The entries that lead to i, and the directories whose parent it is.     *)
NamesOf(s, i) == {e \in F!Inums \X Names : s.ent[e[1]][e[2]] = i}
ChildrenOf(s, i) == {c \in F!Inums \ {i} : s.up[c] = i /\ c \notin s.removed}

(* The links i must have, l[i] of them for calls of link on their way.     *)
Owed(s, l, i) ==
  Cardinality(NamesOf(s, i)) + Cardinality(ChildrenOf(s, i)) + (IF i = F!ROOTINO THEN 1 ELSE 0) + l[i]

(* Links are counted, and never too few; a lost directory has one left for *)
(* the name that it lost.                                                  *)
LinksCounted(s, l) ==
  \A i \in F!Inums :
    /\ s.nlink[i] >= Owed(s, l, i)
    /\ i \notin s.lost => s.nlink[i] = Owed(s, l, i)
    /\ i \in s.lost \ s.removed /\ s.type[i] = "dir" => s.nlink[i] > Cardinality(ChildrenOf(s, i))
    /\ l[i] > 0 => s.type[i] = "file"

(* What directories say; one that is removed has no names in it but of     *)
(* what is lost.                                                           *)
EntriesGood(s) ==
  \A d \in F!Inums, n \in Names : s.ent[d][n] # F!Nil =>
    /\ s.type[d] = "dir" /\ s.type[s.ent[d][n]] # "none" /\ s.ent[d][n] # F!ROOTINO
    /\ d \in s.removed => s.ent[d][n] \in s.lost
    /\ s.type[s.ent[d][n]] = "dir" =>
         /\ s.up[s.ent[d][n]] = d /\ s.ent[d][n] \notin s.removed
         /\ \A e \in F!Inums, m \in Names : s.ent[e][m] = s.ent[d][n] => e = d /\ m = n
    /\ \A m \in Names : s.ent[s.ent[d][n]][m] # d

(* What an inode is: only directories have a parent, only they are         *)
(* removed, and what is free has no link.                                  *)
KindsGood(s) ==
  /\ s.type[F!ROOTINO] = "dir" /\ F!ROOTINO \notin s.removed \cup s.lost
  /\ \A i \in F!Inums : s.type[i] = "dir" <=> s.up[i] # F!Nil
  /\ \A i \in F!Inums : s.up[i] # F!Nil /\ i \notin s.removed => s.type[s.up[i]] = "dir"
  /\ \A i \in s.removed : s.type[i] = "dir"
  /\ \A i \in s.lost : s.type[i] # "none"
  /\ \A i \in F!Inums : s.type[i] = "none" => s.nlink[i] = 0

(* A directory is in its parent, unless it was removed or its name was     *)
(* lost.                                                                   *)
DirsNamed(s) ==
  \A d \in F!Inums : s.type[d] = "dir" /\ d \notin s.removed \cup s.lost /\ d # F!ROOTINO =>
    \E n \in Names : s.ent[s.up[d]][n] = d

(* What nobody holds is free, or can be reached by a name, or is one of    *)
(* the two leaks.                                                          *)
NoneLost(s) ==
  \A i \in F!Inums : s.type[i] # "none" /\ s.ref[i] = 0 =>
    \/ i = F!ROOTINO \/ i \in s.lost
    \/ \E d \in F!Inums, n \in Names : s.ent[d][n] = i
    \/ i \in s.removed /\ s.nlink[i] > 0

(* The inodes, when l counts the links that are on their way.              *)
InodesGood(s, l) ==
  s \in FsType /\ LinksCounted(s, l) /\ EntriesGood(s) /\ KindsGood(s) /\ DirsNamed(s) /\ NoneLost(s)

(* The links that are being made: l above.                                 *)
PointsTo(f, i) == Cardinality({q \in FsProcs : f[q] = i})
Linking == [p \in FsProcs |-> IF iat[p] = "unlinkIp" THEN F!Nil ELSE ip[p]]
LinkCount == [i \in F!Inums |-> PointsTo(Linking, i)]

(* What a process has got is there, was read, and is what it looked like.  *)
Grip(p) ==
  /\ fs.type[cwd[p]] = "dir" /\ (cwd[p] # F!ROOTINO => fs.valid[cwd[p]])
  /\ ofile[p] # F!Nil => fs.type[ofile[p]] # "none" /\ fs.valid[ofile[p]]
  /\ iat[p] \in {"user", "linkBad"} <=> cur[p] = F!Nil
  /\ iat[p] \in {"user", "gotFile", "gotDir"} => ip[p] = F!Nil
  /\ iat[p] \in {"unlinkIp", "linkBad"} => ip[p] # F!Nil
  /\ iat[p] = "panic" => fs.type[cur[p]] = "none"
  /\ cur[p] # F!Nil /\ fs.type[cur[p]] = "none" => cur[p] \in fs.stray
  /\ ip[p] # F!Nil /\ iat[p] # "unlinkIp" => fs.type[ip[p]] = "file" /\ fs.valid[ip[p]]
  /\ iat[p] = "unlinkIp" =>
       /\ fs.type[cur[p]] = "dir" /\ fs.valid[cur[p]]
       /\ \E n \in Names : fs.ent[cur[p]][n] = ip[p]

(* No directory is locked by two calls of unlink.                          *)
Apart == \A p, q \in FsProcs : p # q /\ iat[p] = "unlinkIp" /\ iat[q] = "unlinkIp" => cur[p] # cur[q]

(* Where a call can be when its process does not run.                      *)
CallPlaces == {"user", "walk", "gotFile", "gotDir", "unlinkIp", "linkBad", "panic"}

(* What the pointers of the processes are.                                 *)
PointersOK ==
  /\ cwd \in [FsProcs -> F!Inums] /\ ofile \in [FsProcs -> F!Inums \cup {F!Nil}]
  /\ iat \in [FsProcs -> CallPlaces]
  /\ cur \in [FsProcs -> F!Inums \cup {F!Nil}] /\ ip \in [FsProcs -> F!Inums \cup {F!Nil}]

(* The invariant of the inodes.                                            *)
InodesInv ==
  /\ PointersOK /\ InodesGood(fs, LinkCount) /\ F!RefsExact
  /\ \A p \in FsProcs : Grip(p)
  /\ Apart
-----------------------------------------------------------------------------
(* What the sizes of things are counted with, and the constants.           *)
LEMMA FsSize ==
  /\ \A S : F!Cardinality(S) = Cardinality(S)
  /\ \A S : F!IsFiniteSet(S) <=> IsFiniteSet(S)
BY DEF F!Cardinality, Cardinality, F!IsFiniteSet, IsFiniteSet

(* The numbers of inodes, and what the constants are.                      *)
LEMMA InodeNumbers ==
  /\ F!ROOTINO \in F!Inums /\ F!Nil \notin F!Inums /\ IsFiniteSet(F!Inums)
  /\ IsFiniteSet(FsProcs) /\ IsFiniteSet(Names) /\ ".." \notin Names
<1>1. NInodes \in Nat /\ NInodes # 0
  BY KernelConstants DEF F!InodesConstants
<1>2. F!ROOTINO \in F!Inums /\ F!Nil \notin F!Inums
  BY <1>1 DEF F!ROOTINO, F!Inums, F!Nil
<1>3. IsFiniteSet(F!Inums)
  BY <1>1, FS_Interval DEF F!Inums
<1> QED BY <1>2, <1>3, KernelConstants, FsSize DEF F!InodesConstants

(* How many have a value, when one of them changes to another.             *)
Shifts(f, g, p, i) ==
  PointsTo(g, i) = PointsTo(f, i) - (IF f[p] = i THEN 1 ELSE 0) + (IF g[p] = i THEN 1 ELSE 0)

(* A process that changes its pointer changes two counts, by one.          *)
LEMMA CountMoves ==
  ASSUME NEW f, NEW g, NEW p \in FsProcs, NEW i, \A q \in FsProcs \ {p} : g[q] = f[q]
  PROVE  Shifts(f, g, p, i)
<1> DEFINE S == {q \in FsProcs : f[q] = i}
           T == {q \in FsProcs : g[q] = i}
           R == {q \in FsProcs \ {p} : f[q] = i}
<1>1. IsFiniteSet(S) /\ IsFiniteSet(R)
  BY InodeNumbers, FS_Subset
<1>2. R = S \ {p} /\ (f[p] = i <=> p \in S)
  OBVIOUS
<1>3. T = (IF g[p] = i THEN R \cup {p} ELSE R) /\ p \notin R
  OBVIOUS
<1>4. Cardinality(R) = IF f[p] = i THEN Cardinality(S) - 1 ELSE Cardinality(S)
  <2> HIDE DEF S, R
  <2> QED BY <1>1, <1>2, FS_RemoveElement
<1>5. Cardinality(T) = IF g[p] = i THEN Cardinality(R) + 1 ELSE Cardinality(R)
  <2> HIDE DEF R, T
  <2> QED BY <1>1, <1>3, FS_AddElement
<1>6. Cardinality(S) \in Nat
  BY <1>1, FS_CardinalityType
<1> QED BY <1>4, <1>5, <1>6 DEF PointsTo, Shifts

(* A count is a number, and not zero when somebody is counted.             *)
LEMMA CountType ==
  ASSUME NEW f, NEW i
  PROVE  PointsTo(f, i) \in Nat /\ \A p \in FsProcs : f[p] = i => PointsTo(f, i) > 0
<1> DEFINE S == {q \in FsProcs : f[q] = i}
<1>1. IsFiniteSet(S)
  BY InodeNumbers, FS_Subset
<1>2. Cardinality(S) \in Nat
  BY <1>1, FS_CardinalityType
<1>3. \A p \in FsProcs : f[p] = i => Cardinality(S) # 0
  BY <1>1, FS_EmptySet
<1> QED BY <1>2, <1>3 DEF PointsTo

(* The references of RefsExact, in terms of PointsTo.                      *)
LEMMA RefsAre ==
  F!RefsExact <=>
    \A x \in F!Inums : fs.ref[x] = PointsTo(cwd, x) + PointsTo(ofile, x) + PointsTo(cur, x) + PointsTo(ip, x)
BY FsSize DEF F!RefsExact, PointsTo
-----------------------------------------------------------------------------
(* What the inodes owe is a number.                                        *)
LEMMA NamesFinite ==
  ASSUME NEW s, NEW i
  PROVE  /\ IsFiniteSet(NamesOf(s, i)) /\ Cardinality(NamesOf(s, i)) \in Nat
         /\ IsFiniteSet(ChildrenOf(s, i)) /\ Cardinality(ChildrenOf(s, i)) \in Nat
<1>1. IsFiniteSet(F!Inums \X Names)
  BY InodeNumbers, FS_Product
<1>2. IsFiniteSet(NamesOf(s, i)) /\ IsFiniteSet(ChildrenOf(s, i))
  BY <1>1, InodeNumbers, FS_Subset DEF NamesOf, ChildrenOf
<1> QED BY <1>2, FS_CardinalityType

(* An entry is among the names of what it leads to.                        *)
LEMMA NamesIn ==
  ASSUME NEW s, NEW i, NEW d \in F!Inums, NEW n \in Names
  PROVE  <<d, n>> \in NamesOf(s, i) <=> s.ent[d][n] = i
BY DEF NamesOf

(* An inode that owes nothing has no name, no child and no link on its way. *)
LEMMA OwesNothing ==
  ASSUME NEW s, NEW l \in [F!Inums -> Nat], NEW i \in F!Inums
  PROVE  /\ Owed(s, l, i) \in Nat
         /\ Owed(s, l, i) = 0 => NamesOf(s, i) = {} /\ ChildrenOf(s, i) = {} /\ l[i] = 0 /\ i # F!ROOTINO
         /\ Owed(s, l, i) > 0 => NamesOf(s, i) # {} \/ ChildrenOf(s, i) # {} \/ l[i] > 0 \/ i = F!ROOTINO
         /\ Owed(s, l, i) >= l[i]
<1> DEFINE n == Cardinality(NamesOf(s, i))
           c == Cardinality(ChildrenOf(s, i))
<1>1. n \in Nat /\ c \in Nat /\ l[i] \in Nat
  BY NamesFinite
<1>2. (n = 0 <=> NamesOf(s, i) = {}) /\ (c = 0 <=> ChildrenOf(s, i) = {})
  BY NamesFinite, FS_EmptySet
<1>3. Owed(s, l, i) = n + c + (IF i = F!ROOTINO THEN 1 ELSE 0) + l[i]
  BY DEF Owed
<1> HIDE DEF n, c
<1> QED BY <1>1, <1>2, <1>3
-----------------------------------------------------------------------------
(* What the small steps do to the fields.                                  *)
SameDisk(s, t) ==
  /\ t.type = s.type /\ t.nlink = s.nlink /\ t.ent = s.ent /\ t.up = s.up
  /\ t.removed = s.removed /\ t.lost = s.lost

(* iget counts a reference; the inode must be read again if it had none.   *)
LEMMA IgetFields ==
  ASSUME NEW s \in FsType, NEW i \in F!Inums
  PROVE  /\ F!Iget(s, i) \in FsType /\ SameDisk(s, F!Iget(s, i)) /\ F!Iget(s, i).stray = s.stray
         /\ F!Iget(s, i).ref = [s.ref EXCEPT ![i] = @ + 1]
         /\ F!Iget(s, i).valid = [s.valid EXCEPT ![i] = @ /\ s.ref[i] > 0]
<1> DEFINE r == [s.ref EXCEPT ![i] = @ + 1]
           v == [s.valid EXCEPT ![i] = @ /\ s.ref[i] > 0]
<1>1. r \in [F!Inums -> Nat]
  BY DEF FsType
<1>2. v \in [F!Inums -> BOOLEAN]
  BY DEF FsType
<1>3. F!Iget(s, i) = [s EXCEPT !.ref = r, !.valid = v]
  BY DEF F!Iget, FsType
<1> HIDE DEF r, v
<1>4. F!Iget(s, i) \in FsType
  BY <1>1, <1>2, <1>3 DEF FsType
<1>5. SameDisk(s, F!Iget(s, i)) /\ F!Iget(s, i).stray = s.stray /\ F!Iget(s, i).ref = r /\ F!Iget(s, i).valid = v
  BY <1>3 DEF FsType, SameDisk
<1> QED BY <1>4, <1>5 DEF r, v

(* ilock reads the inode.                                                  *)
LEMMA IlockFields ==
  ASSUME NEW s \in FsType, NEW i \in F!Inums
  PROVE  /\ F!Ilock(s, i) \in FsType /\ SameDisk(s, F!Ilock(s, i)) /\ F!Ilock(s, i).stray = s.stray
         /\ F!Ilock(s, i).ref = s.ref /\ F!Ilock(s, i).valid = [s.valid EXCEPT ![i] = TRUE]
<1> DEFINE v == [s.valid EXCEPT ![i] = TRUE]
<1>1. v \in [F!Inums -> BOOLEAN]
  BY DEF FsType
<1>2. F!Ilock(s, i) = [s EXCEPT !.valid = v]
  BY DEF F!Ilock, FsType
<1> HIDE DEF v
<1>3. F!Ilock(s, i) \in FsType
  BY <1>1, <1>2 DEF FsType
<1>4. /\ SameDisk(s, F!Ilock(s, i)) /\ F!Ilock(s, i).stray = s.stray
      /\ F!Ilock(s, i).ref = s.ref /\ F!Ilock(s, i).valid = v
  BY <1>2 DEF FsType, SameDisk
<1> QED BY <1>3, <1>4 DEF v

(* A free inode that a call has got is noted.                              *)
LEMMA StraysFields ==
  ASSUME NEW s \in FsType, NEW i \in F!Inums
  PROVE  /\ F!Strays(s, i) \in FsType /\ SameDisk(s, F!Strays(s, i))
         /\ F!Strays(s, i).ref = s.ref /\ F!Strays(s, i).valid = s.valid
         /\ F!Strays(s, i).stray = IF s.type[i] = "none" THEN s.stray \cup {i} ELSE s.stray
BY DEF F!Strays, FsType, SameDisk

(* Who lets go of an inode and is not the last, or leaves it with a link.  *)
LEMMA DropFields ==
  ASSUME NEW s \in FsType, NEW i \in F!Inums, s.ref[i] > 0
  PROVE  LET t == [s EXCEPT !.ref[i] = @ - 1] IN
         /\ t \in FsType /\ SameDisk(s, t) /\ t.stray = s.stray /\ t.valid = s.valid
         /\ t.ref = [s.ref EXCEPT ![i] = @ - 1]
<1> DEFINE r == [s.ref EXCEPT ![i] = @ - 1]
<1>1. r \in [F!Inums -> Nat]
  <2>1. s.ref \in [F!Inums -> Nat] /\ s.ref[i] \in Nat
    BY DEF FsType
  <2> QED BY <2>1
<1>2. [s EXCEPT !.ref[i] = @ - 1] = [s EXCEPT !.ref = r]
  BY DEF FsType
<1> HIDE DEF r
<1>3. [s EXCEPT !.ref = r] \in FsType
  BY <1>1 DEF FsType
<1>4. LET t == [s EXCEPT !.ref = r] IN
      SameDisk(s, t) /\ t.stray = s.stray /\ t.valid = s.valid /\ t.ref = r
  BY DEF FsType, SameDisk
<1> QED BY <1>2, <1>3, <1>4 DEF r

(* iput frees an inode that has neither links nor other references.        *)
LEMMA FreeFields ==
  ASSUME NEW s \in FsType, NEW i \in F!Inums
  PROVE  LET t == F!Free(s, i) IN
         /\ t \in FsType /\ t.stray = s.stray /\ t.nlink = s.nlink
         /\ t.type = [s.type EXCEPT ![i] = "none"] /\ t.ent = [s.ent EXCEPT ![i] = F!NoEntries]
         /\ t.up = [s.up EXCEPT ![i] = F!Nil] /\ t.removed = s.removed \ {i} /\ t.lost = s.lost \ {i}
         /\ t.ref = [s.ref EXCEPT ![i] = 0] /\ t.valid = [s.valid EXCEPT ![i] = FALSE]
<1> DEFINE k == [s.type EXCEPT ![i] = "none"]
           e == [s.ent EXCEPT ![i] = F!NoEntries]
           u == [s.up EXCEPT ![i] = F!Nil]
           r == [s.ref EXCEPT ![i] = 0]
           v == [s.valid EXCEPT ![i] = FALSE]
<1>1. F!Free(s, i) = [s EXCEPT !.type = k, !.ent = e, !.up = u, !.ref = r, !.valid = v,
                               !.removed = s.removed \ {i}, !.lost = s.lost \ {i}]
  BY DEF F!Free, FsType
<1>2. k \in [F!Inums -> {"none", "file", "dir"}] /\ u \in [F!Inums -> F!Inums \cup {F!Nil}]
  BY DEF FsType
<1>3. r \in [F!Inums -> Nat] /\ v \in [F!Inums -> BOOLEAN]
  BY DEF FsType
<1>4. e \in [F!Inums -> [Names -> F!Inums \cup {F!Nil}]]
  BY DEF FsType, F!NoEntries
<1> HIDE DEF k, e, u, r, v
<1>5. F!Free(s, i) \in FsType
  <2> DEFINE m == [s EXCEPT !.type = k, !.ent = e, !.up = u]
  <2>1. m \in FsType
    BY <1>2, <1>4 DEF FsType
  <2>2. F!Free(s, i) = [m EXCEPT !.ref = r, !.valid = v, !.removed = s.removed \ {i}, !.lost = s.lost \ {i}]
    BY <1>1 DEF FsType
  <2>3. s.removed \ {i} \in SUBSET F!Inums /\ s.lost \ {i} \in SUBSET F!Inums
    BY DEF FsType
  <2> HIDE DEF m
  <2> QED BY <1>3, <2>1, <2>2, <2>3 DEF FsType
<1>6. LET t == F!Free(s, i) IN
      /\ t.stray = s.stray /\ t.nlink = s.nlink /\ t.type = k /\ t.ent = e /\ t.up = u /\ t.ref = r
      /\ t.valid = v /\ t.removed = s.removed \ {i} /\ t.lost = s.lost \ {i}
  BY <1>1 DEF FsType
<1> QED BY <1>5, <1>6 DEF k, e, u, r, v

(* What dirlink has written.                                               *)
HasEntered(s, t, d, n, i) ==
  /\ t.stray = s.stray /\ t.nlink = s.nlink /\ t.type = s.type
  /\ t.up = s.up /\ t.removed = s.removed /\ t.ref = s.ref /\ t.valid = s.valid
  /\ t.ent = [s.ent EXCEPT ![d] = [@ EXCEPT ![n] = i]]
  /\ t.lost = IF d \in s.removed THEN s.lost \cup {i} ELSE s.lost

(* dirlink changes the entry, and what is lost, and nothing else.          *)
LEMMA EnterFields ==
  ASSUME NEW s \in FsType, NEW d \in F!Inums, NEW n \in Names, NEW i \in F!Inums
  PROVE  F!Enter(s, d, n, i) \in FsType /\ HasEntered(s, F!Enter(s, d, n, i), d, n, i)
<1> DEFINE e == [s.ent EXCEPT ![d] = [@ EXCEPT ![n] = i]]
           x == IF d \in s.removed THEN s.lost \cup {i} ELSE s.lost
<1>1. F!Enter(s, d, n, i) = [s EXCEPT !.ent = e, !.lost = x]
  BY DEF F!Enter, FsType
<1>2. e \in [F!Inums -> [Names -> F!Inums \cup {F!Nil}]]
  BY DEF FsType
<1>3. x \in SUBSET F!Inums
  BY DEF FsType
<1> HIDE DEF e, x
<1>4. F!Enter(s, d, n, i) \in FsType
  BY <1>1, <1>2, <1>3 DEF FsType
<1>5. LET t == F!Enter(s, d, n, i) IN
      /\ t.stray = s.stray /\ t.nlink = s.nlink /\ t.type = s.type
      /\ t.up = s.up /\ t.removed = s.removed /\ t.ref = s.ref /\ t.valid = s.valid
      /\ t.ent = e /\ t.lost = x
  BY <1>1 DEF FsType
<1> QED BY <1>4, <1>5 DEF e, x, HasEntered

(* What ialloc and create have made of a free inode.                       *)
Renewed(s, t, i, d, k) ==
  /\ t.stray = s.stray \ {i} /\ t.ent = s.ent /\ t.removed = s.removed /\ t.lost = s.lost
  /\ t.type = [s.type EXCEPT ![i] = k]
  /\ t.nlink = [s.nlink EXCEPT ![i] = 1, ![d] = IF k = "dir" THEN @ + 1 ELSE @]
  /\ t.ref = [s.ref EXCEPT ![i] = @ + 1] /\ t.valid = [s.valid EXCEPT ![i] = TRUE]
  /\ t.up = [s.up EXCEPT ![i] = IF k = "dir" THEN d ELSE F!Nil]

(* A new inode has one link, one reference and, if a directory, a parent,  *)
(* which has a link more.                                                  *)
LEMMA NewFields ==
  ASSUME NEW s \in FsType, NEW d \in F!Inums, NEW i \in F!Inums, d # i, NEW k \in {"file", "dir"}
  PROVE  F!New(s, i, d, k) \in FsType /\ Renewed(s, F!New(s, i, d, k), i, d, k)
<1> DEFINE y == [s.type EXCEPT ![i] = k]
           c == [s.nlink EXCEPT ![i] = 1, ![d] = IF k = "dir" THEN @ + 1 ELSE @]
           u == [s.up EXCEPT ![i] = IF k = "dir" THEN d ELSE F!Nil]
           r == [s.ref EXCEPT ![i] = @ + 1]
           v == [s.valid EXCEPT ![i] = TRUE]
<1>1. F!New(s, i, d, k) = [s EXCEPT !.type = y, !.nlink = c, !.ref = r, !.valid = v,
                                    !.stray = s.stray \ {i}, !.up = u]
  <2> DEFINE m == [s EXCEPT !.type = y, !.ref = r, !.valid = v, !.stray = s.stray \ {i}, !.up = u]
             c1 == [s.nlink EXCEPT ![i] = 1]
  <2>1. F!New(s, i, d, k) = [m EXCEPT !.nlink = [c1 EXCEPT ![d] = IF k = "dir" THEN @ + 1 ELSE @]]
    BY ZenonT(40) DEF F!New, FsType
  <2>2. [c1 EXCEPT ![d] = IF k = "dir" THEN @ + 1 ELSE @] = c
    OBVIOUS
  <2>3. [m EXCEPT !.nlink = c] = [s EXCEPT !.type = y, !.nlink = c, !.ref = r, !.valid = v,
                                           !.stray = s.stray \ {i}, !.up = u]
    BY DEF FsType
  <2> QED BY <2>1, <2>2, <2>3
<1>2. y \in [F!Inums -> {"none", "file", "dir"}] /\ u \in [F!Inums -> F!Inums \cup {F!Nil}]
  BY DEF FsType
<1>3. r \in [F!Inums -> Nat] /\ v \in [F!Inums -> BOOLEAN]
  BY DEF FsType
<1>4. c \in [F!Inums -> Nat]
  BY DEF FsType
<1> HIDE DEF y, c, u, r, v
<1>5. F!New(s, i, d, k) \in FsType
  <2> DEFINE m == [s EXCEPT !.type = y, !.nlink = c, !.up = u]
  <2>1. m \in FsType
    BY <1>2, <1>4 DEF FsType
  <2>2. F!New(s, i, d, k) = [m EXCEPT !.ref = r, !.valid = v, !.stray = s.stray \ {i}]
    BY <1>1 DEF FsType
  <2>3. s.stray \ {i} \in SUBSET F!Inums
    BY DEF FsType
  <2> HIDE DEF m
  <2> QED BY <1>3, <2>1, <2>2, <2>3 DEF FsType
<1>6. LET t == F!New(s, i, d, k) IN
      /\ t.stray = s.stray \ {i} /\ t.ent = s.ent /\ t.removed = s.removed /\ t.lost = s.lost
      /\ t.type = y /\ t.nlink = c /\ t.ref = r /\ t.valid = v /\ t.up = u
  BY <1>1 DEF FsType
<1> QED BY <1>5, <1>6 DEF y, c, u, r, v, Renewed

(* What unlink has taken back.                                             *)
Unnamed(s, t, d, n, i) ==
  /\ t.stray = s.stray /\ t.lost = s.lost /\ t.type = s.type /\ t.up = s.up
  /\ t.ref = s.ref /\ t.valid = s.valid
  /\ t.ent = [s.ent EXCEPT ![d] = [@ EXCEPT ![n] = F!Nil]]
  /\ t.nlink = [s.nlink EXCEPT ![i] = @ - 1, ![d] = IF s.type[i] = "dir" THEN @ - 1 ELSE @]
  /\ t.removed = IF s.type[i] = "dir" THEN s.removed \cup {i} ELSE s.removed

(* unlink changes the entry, the links and what is removed, and nothing    *)
(* else.                                                                   *)
LEMMA RemoveFields ==
  ASSUME NEW s \in FsType, NEW d \in F!Inums, NEW n \in Names, NEW i \in F!Inums, d # i,
         s.nlink[i] > 0, s.type[i] = "dir" => s.nlink[d] > 0
  PROVE  F!Remove(s, d, n, i) \in FsType /\ Unnamed(s, F!Remove(s, d, n, i), d, n, i)
<1> DEFINE e == [s.ent EXCEPT ![d] = [@ EXCEPT ![n] = F!Nil]]
           c == [s.nlink EXCEPT ![i] = @ - 1, ![d] = IF s.type[i] = "dir" THEN @ - 1 ELSE @]
           x == IF s.type[i] = "dir" THEN s.removed \cup {i} ELSE s.removed
<1>1. F!Remove(s, d, n, i) = [s EXCEPT !.ent = e, !.nlink = c, !.removed = x]
  BY DEF F!Remove, FsType
<1>2. e \in [F!Inums -> [Names -> F!Inums \cup {F!Nil}]] /\ x \in SUBSET F!Inums
  BY DEF FsType
<1>3. c \in [F!Inums -> Nat]
  <2>1. s.nlink \in [F!Inums -> Nat] /\ s.nlink[i] \in Nat /\ s.nlink[d] \in Nat
    BY DEF FsType
  <2> QED BY <2>1
<1> HIDE DEF e, c, x
<1>4. F!Remove(s, d, n, i) \in FsType
  BY <1>1, <1>2, <1>3 DEF FsType
<1>5. LET t == F!Remove(s, d, n, i) IN
      /\ t.stray = s.stray /\ t.lost = s.lost /\ t.type = s.type /\ t.up = s.up
      /\ t.ref = s.ref /\ t.valid = s.valid /\ t.ent = e /\ t.nlink = c /\ t.removed = x
  BY <1>1 DEF FsType
<1> QED BY <1>4, <1>5 DEF e, c, x, Unnamed

(* Link counts, or takes back what it has counted.                         *)
LEMMA LinkFields ==
  ASSUME NEW s \in FsType, NEW i \in F!Inums, NEW k \in Nat
  PROVE  LET t == [s EXCEPT !.nlink[i] = k] IN
         /\ t \in FsType /\ t.stray = s.stray /\ t.lost = s.lost /\ t.type = s.type /\ t.up = s.up
         /\ t.ref = s.ref /\ t.valid = s.valid /\ t.ent = s.ent /\ t.removed = s.removed
         /\ t.nlink = [s.nlink EXCEPT ![i] = k]
<1> DEFINE c == [s.nlink EXCEPT ![i] = k]
<1>1. [s EXCEPT !.nlink[i] = k] = [s EXCEPT !.nlink = c]
  BY DEF FsType
<1>2. c \in [F!Inums -> Nat]
  BY DEF FsType
<1> HIDE DEF c
<1>3. [s EXCEPT !.nlink = c] \in FsType
  BY <1>2 DEF FsType
<1>4. LET t == [s EXCEPT !.nlink = c] IN
      /\ t.stray = s.stray /\ t.lost = s.lost /\ t.type = s.type /\ t.up = s.up
      /\ t.ref = s.ref /\ t.valid = s.valid /\ t.ent = s.ent /\ t.removed = s.removed /\ t.nlink = c
  BY DEF FsType
<1> QED BY <1>1, <1>3, <1>4 DEF c
-----------------------------------------------------------------------------
(* What one call does to the inodes others hold, outside the directory d.  *)
Keeps(s, t, d) ==
  \A x \in F!Inums : s.ref[x] > 0 /\ t.ref[x] > 0 =>
    /\ s.type[x] # "none" => t.type[x] = s.type[x]
    /\ s.valid[x] => t.valid[x]
    /\ t.type[x] = "none" /\ x \in s.stray => x \in t.stray
    /\ x # d => t.ent[x] = s.ent[x]

(* Two such changes in a row are one.                                      *)
LEMMA KeepsTrans ==
  ASSUME NEW s, NEW u, NEW t, NEW d, Keeps(s, u, d), Keeps(u, t, d),
         \A x \in F!Inums : s.ref[x] > 0 /\ t.ref[x] > 0 => u.ref[x] > 0
  PROVE  Keeps(s, t, d)
<1> SUFFICES ASSUME NEW x \in F!Inums, s.ref[x] > 0, t.ref[x] > 0
             PROVE  /\ s.type[x] # "none" => t.type[x] = s.type[x]
                    /\ s.valid[x] => t.valid[x]
                    /\ t.type[x] = "none" /\ x \in s.stray => x \in t.stray
                    /\ x # d => t.ent[x] = s.ent[x]
  BY DEF Keeps
<1>1. /\ s.type[x] # "none" => u.type[x] = s.type[x]
      /\ s.valid[x] => u.valid[x]
      /\ u.type[x] = "none" /\ x \in s.stray => x \in u.stray
      /\ x # d => u.ent[x] = s.ent[x]
  BY DEF Keeps
<1>2. /\ u.type[x] # "none" => t.type[x] = u.type[x]
      /\ u.valid[x] => t.valid[x]
      /\ t.type[x] = "none" /\ x \in u.stray => x \in t.stray
      /\ x # d => t.ent[x] = u.ent[x]
  BY DEF Keeps
<1> QED BY <1>1, <1>2

(* What the disk says stays right as long as the disk stays the same.      *)
LEMMA SameDiskGood ==
  ASSUME NEW s, NEW t \in FsType, NEW l, SameDisk(s, t), InodesGood(s, l)
  PROVE  LinksCounted(t, l) /\ EntriesGood(t) /\ KindsGood(t) /\ DirsNamed(t)
<1>1. \A i : NamesOf(t, i) = NamesOf(s, i) /\ ChildrenOf(t, i) = ChildrenOf(s, i)
  BY DEF SameDisk, NamesOf, ChildrenOf
<1>2. LinksCounted(t, l)
  BY <1>1 DEF LinksCounted, Owed, InodesGood, SameDisk
<1>3. EntriesGood(t)
  BY DEF EntriesGood, InodesGood, SameDisk
<1>4. KindsGood(t)
  BY DEF KindsGood, InodesGood, SameDisk
<1>5. DirsNamed(t)
  BY DEF DirsNamed, InodesGood, SameDisk
<1> QED BY <1>2, <1>3, <1>4, <1>5

(* The steps that leave the disk alone.                                    *)
LEMMA IgetGood ==
  ASSUME NEW s, NEW l, InodesGood(s, l), NEW i \in F!Inums
  PROVE  /\ InodesGood(F!Iget(s, i), l) /\ \A d : Keeps(s, F!Iget(s, i), d)
         /\ F!Iget(s, i).ref = [s.ref EXCEPT ![i] = @ + 1]
<1> DEFINE t == F!Iget(s, i)
<1>1. s \in FsType /\ s.ref \in [F!Inums -> Nat]
  BY DEF InodesGood, FsType
<1>2. /\ t \in FsType /\ SameDisk(s, t) /\ t.stray = s.stray
      /\ t.ref = [s.ref EXCEPT ![i] = @ + 1] /\ t.valid = [s.valid EXCEPT ![i] = @ /\ s.ref[i] > 0]
  BY <1>1, IgetFields
<1> HIDE DEF t
<1>3. LinksCounted(t, l) /\ EntriesGood(t) /\ KindsGood(t) /\ DirsNamed(t)
  BY <1>2, SameDiskGood
<1>4. \A x \in F!Inums : t.ref[x] = 0 => s.ref[x] = 0
  BY <1>1, <1>2
<1>5. NoneLost(t)
  BY <1>2, <1>4 DEF NoneLost, InodesGood, SameDisk
<1>6. \A x \in F!Inums : s.ref[x] > 0 /\ s.valid[x] => t.valid[x]
  BY <1>1, <1>2 DEF FsType
<1>7. \A d : Keeps(s, t, d)
  BY <1>2, <1>6 DEF Keeps, SameDisk
<1> QED BY <1>2, <1>3, <1>5, <1>7 DEF InodesGood, t

(* ilock.                                                                  *)
LEMMA IlockGood ==
  ASSUME NEW s, NEW l, InodesGood(s, l), NEW i \in F!Inums
  PROVE  /\ InodesGood(F!Ilock(s, i), l) /\ \A d : Keeps(s, F!Ilock(s, i), d)
         /\ F!Ilock(s, i).ref = s.ref /\ F!Ilock(s, i).valid[i] /\ SameDisk(s, F!Ilock(s, i))
<1> DEFINE t == F!Ilock(s, i)
<1>1. s \in FsType
  BY DEF InodesGood
<1>2. /\ t \in FsType /\ SameDisk(s, t) /\ t.stray = s.stray
      /\ t.ref = s.ref /\ t.valid = [s.valid EXCEPT ![i] = TRUE]
  BY <1>1, IlockFields
<1> HIDE DEF t
<1>3. LinksCounted(t, l) /\ EntriesGood(t) /\ KindsGood(t) /\ DirsNamed(t)
  BY <1>2, SameDiskGood
<1>4. NoneLost(t)
  BY <1>2 DEF NoneLost, InodesGood, SameDisk
<1>5. (\A x \in F!Inums : s.valid[x] => t.valid[x]) /\ t.valid[i]
  BY <1>1, <1>2 DEF FsType
<1>6. \A d : Keeps(s, t, d)
  BY <1>2, <1>5 DEF Keeps, SameDisk
<1> QED BY <1>2, <1>3, <1>4, <1>5, <1>6 DEF InodesGood, t

(* The note that a call has got a free inode.                              *)
LEMMA StraysGood ==
  ASSUME NEW s, NEW l, InodesGood(s, l), NEW i \in F!Inums
  PROVE  /\ InodesGood(F!Strays(s, i), l) /\ \A d : Keeps(s, F!Strays(s, i), d)
         /\ F!Strays(s, i).ref = s.ref /\ SameDisk(s, F!Strays(s, i)) /\ F!Strays(s, i).valid = s.valid
         /\ s.type[i] = "none" => i \in F!Strays(s, i).stray
<1> DEFINE t == F!Strays(s, i)
<1>1. s \in FsType
  BY DEF InodesGood
<1>2. /\ t \in FsType /\ SameDisk(s, t) /\ t.ref = s.ref /\ t.valid = s.valid
      /\ t.stray = IF s.type[i] = "none" THEN s.stray \cup {i} ELSE s.stray
  BY <1>1, StraysFields
<1> HIDE DEF t
<1>3. LinksCounted(t, l) /\ EntriesGood(t) /\ KindsGood(t) /\ DirsNamed(t)
  BY <1>2, SameDiskGood
<1>4. NoneLost(t)
  BY <1>2 DEF NoneLost, InodesGood, SameDisk
<1>5. \A d : Keeps(s, t, d)
  BY <1>2 DEF Keeps, SameDisk
<1> QED BY <1>2, <1>3, <1>4, <1>5 DEF InodesGood, t
-----------------------------------------------------------------------------
(* What has no link left is a file without a name, or a directory that was *)
(* removed and has no names in it but of what is lost.                     *)
LEMMA Unlinked ==
  ASSUME NEW s, NEW l \in [F!Inums -> Nat], InodesGood(s, l), NEW i \in F!Inums, s.nlink[i] = 0
  PROVE  /\ Owed(s, l, i) = 0 /\ NamesOf(s, i) = {} /\ ChildrenOf(s, i) = {} /\ l[i] = 0 /\ i # F!ROOTINO
         /\ s.type[i] = "dir" => i \in s.removed
<1>1. Owed(s, l, i) \in Nat /\ s.nlink[i] >= Owed(s, l, i)
  BY OwesNothing DEF InodesGood, LinksCounted
<1>2. Owed(s, l, i) = 0
  BY <1>1
<1>3. NamesOf(s, i) = {} /\ ChildrenOf(s, i) = {} /\ l[i] = 0 /\ i # F!ROOTINO
  BY <1>2, OwesNothing
<1>4. ASSUME s.type[i] = "dir", i \notin s.removed
      PROVE  FALSE
  <2>1. CASE i \in s.lost
    <3>1. s.nlink[i] > Cardinality(ChildrenOf(s, i)) /\ Cardinality(ChildrenOf(s, i)) \in Nat
      BY <1>4, <2>1, NamesFinite DEF InodesGood, LinksCounted
    <3> QED BY <3>1
  <2>2. CASE i \notin s.lost
    <3>1. PICK n \in Names : s.ent[s.up[i]][n] = i
      BY <1>3, <1>4, <2>2 DEF InodesGood, DirsNamed
    <3>2. s.up[i] \in F!Inums
      BY <1>4 DEF InodesGood, KindsGood, FsType
    <3>3. <<s.up[i], n>> \in NamesOf(s, i)
      BY <3>1, <3>2 DEF NamesOf
    <3> QED BY <1>3, <3>3
  <2> QED BY <2>1, <2>2
<1> QED BY <1>2, <1>3, <1>4

(* An inode that has links, and is not lost, has a name, or is a removed   *)
(* directory, or a link to it is being made.                               *)
LEMMA Linked ==
  ASSUME NEW s, NEW l \in [F!Inums -> Nat], InodesGood(s, l), NEW i \in F!Inums,
         s.nlink[i] > 0, i \notin s.lost, l[i] = 0
  PROVE  \/ i = F!ROOTINO \/ \E d \in F!Inums, n \in Names : s.ent[d][n] = i
         \/ i \in s.removed
<1>1. Owed(s, l, i) > 0
  BY DEF InodesGood, LinksCounted
<1>2. NamesOf(s, i) # {} \/ ChildrenOf(s, i) # {} \/ i = F!ROOTINO
  BY <1>1, OwesNothing
<1>3. CASE NamesOf(s, i) # {}
  BY <1>3 DEF NamesOf
<1>4. CASE ChildrenOf(s, i) # {} /\ i # F!ROOTINO /\ i \notin s.removed
  <2>1. PICK c \in ChildrenOf(s, i) : TRUE
    BY <1>4
  <2>2. c \in F!Inums /\ s.up[c] = i /\ c # i /\ c \notin s.removed /\ i # F!Nil
    BY <2>1, InodeNumbers DEF ChildrenOf
  <2>3. s.type[i] = "dir"
    BY <2>2 DEF InodesGood, KindsGood
  <2>4. \E n \in Names : s.ent[s.up[i]][n] = i
    BY <1>4, <2>3 DEF InodesGood, DirsNamed
  <2>5. s.up[i] \in F!Inums
    BY <2>3 DEF InodesGood, KindsGood, FsType
  <2> QED BY <2>4, <2>5
<1> QED BY <1>2, <1>3, <1>4

(* The last of those who hold an unlinked inode frees it.                  *)
LEMMA FreeGood ==
  ASSUME NEW s, NEW l \in [F!Inums -> Nat], InodesGood(s, l), NEW i \in F!Inums, s.nlink[i] = 0, s.ref[i] = 1
  PROVE  /\ InodesGood(F!Free(s, i), l) /\ \A d : Keeps(s, F!Free(s, i), d)
         /\ F!Free(s, i).ref = [s.ref EXCEPT ![i] = @ - 1]
<1> DEFINE t == F!Free(s, i)
<1>1. /\ s \in FsType /\ LinksCounted(s, l) /\ EntriesGood(s) /\ KindsGood(s) /\ DirsNamed(s) /\ NoneLost(s)
  BY DEF InodesGood
<1>2. /\ t \in FsType /\ t.stray = s.stray /\ t.nlink = s.nlink
      /\ t.type = [s.type EXCEPT ![i] = "none"] /\ t.ent = [s.ent EXCEPT ![i] = F!NoEntries]
      /\ t.up = [s.up EXCEPT ![i] = F!Nil] /\ t.removed = s.removed \ {i} /\ t.lost = s.lost \ {i}
      /\ t.ref = [s.ref EXCEPT ![i] = 0] /\ t.valid = [s.valid EXCEPT ![i] = FALSE]
  BY <1>1, FreeFields
<1> HIDE DEF t
<1>3. /\ NamesOf(s, i) = {} /\ ChildrenOf(s, i) = {} /\ l[i] = 0 /\ i # F!ROOTINO
      /\ s.type[i] = "dir" => i \in s.removed
  BY Unlinked
<1>4. /\ \A d \in F!Inums, n \in Names : s.ent[d][n] # i
      /\ \A c \in F!Inums \ {i} : s.up[c] = i => c \in s.removed
  <2>1. \A d \in F!Inums, n \in Names : s.ent[d][n] # i
    BY <1>3, NamesIn
  <2>2. \A c \in F!Inums \ {i} : s.up[c] = i => c \in s.removed
    BY <1>3 DEF ChildrenOf
  <2> QED BY <2>1, <2>2
<1>5. /\ \A x \in F!Inums \ {i} : t.type[x] = s.type[x] /\ t.up[x] = s.up[x] /\ t.ent[x] = s.ent[x]
      /\ t.type[i] = "none" /\ t.up[i] = F!Nil /\ \A n \in Names : t.ent[i][n] = F!Nil
  BY <1>1, <1>2 DEF FsType, F!NoEntries
<1>6. \A x \in F!Inums, n \in Names : s.ent[x][n] \in F!Inums \cup {F!Nil} /\ t.ent[x][n] \in {s.ent[x][n], F!Nil}
  BY <1>1, <1>2, <1>5 DEF FsType
<1>7. \A x \in F!Inums : ChildrenOf(t, x) = ChildrenOf(s, x)
  <2> SUFFICES ASSUME NEW x \in F!Inums, NEW c \in F!Inums
               PROVE  c \in ChildrenOf(t, x) <=> c \in ChildrenOf(s, x)
    BY DEF ChildrenOf
  <2>1. CASE c = i
    BY <1>1, <1>2, <1>3, <1>5, <2>1, InodeNumbers DEF ChildrenOf, KindsGood
  <2>2. CASE c # i
    BY <1>2, <1>5, <2>2 DEF ChildrenOf
  <2> QED BY <2>1, <2>2
<1>8. \A x \in F!Inums : NamesOf(t, x) \subseteq NamesOf(s, x)
  BY <1>6, InodeNumbers DEF NamesOf
<1>9. \A x \in F!Inums \ s.lost : NamesOf(t, x) = NamesOf(s, x)
  <2> SUFFICES ASSUME NEW x \in F!Inums \ s.lost, NEW e \in F!Inums, NEW n \in Names, s.ent[e][n] = x
               PROVE  t.ent[e][n] = x
    BY <1>8 DEF NamesOf
  <2>1. e # i
    BY <1>1, <1>3, InodeNumbers DEF EntriesGood
  <2> QED BY <1>5, <2>1
<1>10. LinksCounted(t, l)
  <2> SUFFICES ASSUME NEW x \in F!Inums
               PROVE  /\ t.nlink[x] >= Owed(t, l, x)
                      /\ x \notin t.lost => t.nlink[x] = Owed(t, l, x)
                      /\ x \in t.lost \ t.removed /\ t.type[x] = "dir" => t.nlink[x] > Cardinality(ChildrenOf(t, x))
                      /\ l[x] > 0 => t.type[x] = "file"
    BY DEF LinksCounted
  <2>1. /\ s.nlink[x] >= Owed(s, l, x)
        /\ x \notin s.lost => s.nlink[x] = Owed(s, l, x)
        /\ x \in s.lost \ s.removed /\ s.type[x] = "dir" => s.nlink[x] > Cardinality(ChildrenOf(s, x))
        /\ l[x] > 0 => s.type[x] = "file"
    BY <1>1 DEF LinksCounted
  <2>2. Owed(t, l, x) <= Owed(s, l, x) /\ Owed(t, l, x) \in Nat /\ Owed(s, l, x) \in Nat
    <3>1. Cardinality(NamesOf(t, x)) <= Cardinality(NamesOf(s, x))
      BY <1>8, NamesFinite, FS_Subset
    <3>2. /\ Cardinality(NamesOf(t, x)) \in Nat /\ Cardinality(NamesOf(s, x)) \in Nat
          /\ Cardinality(ChildrenOf(s, x)) \in Nat /\ l[x] \in Nat
      BY NamesFinite
    <3> QED BY <1>7, <3>1, <3>2 DEF Owed
  <2>3. x \notin s.lost => Owed(t, l, x) = Owed(s, l, x)
    BY <1>7, <1>9 DEF Owed
  <2>4. CASE x = i
    <3>1. Owed(s, l, i) = 0
      BY Unlinked
    <3>2. Owed(t, l, i) = 0
      BY <2>2, <2>4, <3>1
    <3> QED BY <1>2, <1>3, <1>5, <2>4, <3>2
  <2>5. CASE x # i
    <3>1. s.nlink[x] \in Nat
      BY <1>1 DEF FsType
    <3> QED BY <1>2, <1>5, <1>7, <2>1, <2>2, <2>3, <2>5, <3>1
  <2> QED BY <2>4, <2>5
<1>11. EntriesGood(t)
  <2> SUFFICES ASSUME NEW d \in F!Inums, NEW n \in Names, t.ent[d][n] # F!Nil
               PROVE  /\ t.type[d] = "dir" /\ t.type[t.ent[d][n]] # "none" /\ t.ent[d][n] # F!ROOTINO
                      /\ d \in t.removed => t.ent[d][n] \in t.lost
                      /\ t.type[t.ent[d][n]] = "dir" =>
                           /\ t.up[t.ent[d][n]] = d /\ t.ent[d][n] \notin t.removed
                           /\ \A e \in F!Inums, m \in Names : t.ent[e][m] = t.ent[d][n] => e = d /\ m = n
                      /\ \A m \in Names : t.ent[t.ent[d][n]][m] # d
    BY DEF EntriesGood
  <2>1. d # i /\ t.ent[d][n] = s.ent[d][n] /\ s.ent[d][n] \in F!Inums \ {i}
    BY <1>4, <1>5, <1>6
  <2>2. PICK x \in F!Inums \ {i} : x = s.ent[d][n]
    BY <2>1
  <2>3. /\ s.type[d] = "dir" /\ s.type[x] # "none" /\ x # F!ROOTINO
        /\ d \in s.removed => x \in s.lost
        /\ s.type[x] = "dir" =>
             /\ s.up[x] = d /\ x \notin s.removed
             /\ \A e \in F!Inums, m \in Names : s.ent[e][m] = x => e = d /\ m = n
        /\ \A m \in Names : s.ent[x][m] # d
    BY <1>1, <2>1, <2>2 DEF EntriesGood
  <2>4. \A e \in F!Inums, m \in Names : t.ent[e][m] = x => s.ent[e][m] = x
    BY <1>6, InodeNumbers
  <2> QED BY <1>2, <1>5, <2>1, <2>2, <2>3, <2>4
<1>12. KindsGood(t)
  <2>1. F!Nil \notin F!Inums /\ F!ROOTINO \in F!Inums
    BY InodeNumbers
  <2>2. t.type[F!ROOTINO] = "dir" /\ F!ROOTINO \notin t.removed \cup t.lost
    BY <1>1, <1>2, <1>3, <1>5, <2>1 DEF KindsGood
  <2>3. \A x \in F!Inums : t.type[x] = "dir" <=> t.up[x] # F!Nil
    BY <1>1, <1>5 DEF KindsGood
  <2>4. \A x \in F!Inums : t.up[x] # F!Nil /\ x \notin t.removed => t.type[t.up[x]] = "dir"
    <3> SUFFICES ASSUME NEW x \in F!Inums, t.up[x] # F!Nil, x \notin t.removed
                 PROVE  t.type[t.up[x]] = "dir"
      OBVIOUS
    <3>1. x # i /\ t.up[x] = s.up[x] /\ x \notin s.removed
      BY <1>2, <1>5
    <3>2. s.up[x] \in F!Inums \ {i}
      BY <1>1, <1>4, <3>1 DEF FsType
    <3> QED BY <1>1, <1>5, <3>1, <3>2 DEF KindsGood
  <2>5. (\A x \in t.removed : t.type[x] = "dir") /\ (\A x \in t.lost : t.type[x] # "none")
    BY <1>1, <1>2, <1>5 DEF KindsGood, FsType
  <2>6. \A x \in F!Inums : t.type[x] = "none" => t.nlink[x] = 0
    BY <1>1, <1>2, <1>5 DEF KindsGood
  <2> QED BY <2>2, <2>3, <2>4, <2>5, <2>6 DEF KindsGood
<1>13. DirsNamed(t)
  <2> SUFFICES ASSUME NEW d \in F!Inums, t.type[d] = "dir", d \notin t.removed \cup t.lost, d # F!ROOTINO
               PROVE  \E n \in Names : t.ent[t.up[d]][n] = d
    BY DEF DirsNamed
  <2>1. d # i /\ s.type[d] = "dir" /\ d \notin s.removed \cup s.lost
    BY <1>2, <1>5
  <2>2. PICK n \in Names : s.ent[s.up[d]][n] = d
    BY <1>1, <2>1 DEF DirsNamed
  <2>3. s.up[d] \in F!Inums \ {i}
    BY <1>1, <1>4, <2>1 DEF KindsGood, FsType
  <2> QED BY <1>5, <2>1, <2>2, <2>3
<1>14. NoneLost(t)
  <2> SUFFICES ASSUME NEW x \in F!Inums, t.type[x] # "none", t.ref[x] = 0
               PROVE  \/ x = F!ROOTINO \/ x \in t.lost
                      \/ \E d \in F!Inums, n \in Names : t.ent[d][n] = x
                      \/ x \in t.removed /\ t.nlink[x] > 0
    BY DEF NoneLost
  <2>1. x # i /\ s.type[x] # "none" /\ s.ref[x] = 0
    BY <1>1, <1>2, <1>5 DEF FsType
  <2>2. \/ x = F!ROOTINO \/ x \in s.lost
        \/ \E d \in F!Inums, n \in Names : s.ent[d][n] = x
        \/ x \in s.removed /\ s.nlink[x] > 0
    BY <1>1, <2>1 DEF NoneLost
  <2>3. ASSUME NEW d \in F!Inums, NEW n \in Names, s.ent[d][n] = x, x \notin s.lost
        PROVE  t.ent[d][n] = x
    <3>1. <<d, n>> \in NamesOf(s, x)
      BY <2>3, NamesIn
    <3>2. <<d, n>> \in NamesOf(t, x)
      BY <1>9, <2>3, <3>1
    <3> QED BY <2>3, <3>2 DEF NamesOf
  <2> QED BY <1>2, <2>1, <2>2, <2>3
<1>15. \A d : Keeps(s, t, d)
  <2>1. \A x \in F!Inums : t.ref[x] > 0 => x # i
    BY <1>1, <1>2 DEF FsType
  <2>2. \A x \in F!Inums \ {i} : t.valid[x] = s.valid[x]
    BY <1>1, <1>2 DEF FsType
  <2> QED BY <1>2, <1>5, <2>1, <2>2 DEF Keeps
<1>16. t.ref = [s.ref EXCEPT ![i] = @ - 1]
  BY <1>1, <1>2
<1> QED BY <1>2, <1>10, <1>11, <1>12, <1>13, <1>14, <1>15, <1>16 DEF InodesGood, t

(* Iput, by one who holds more references than links are being made.       *)
LEMMA IputGood ==
  ASSUME NEW s, NEW l \in [F!Inums -> Nat], InodesGood(s, l), NEW i \in F!Inums, s.ref[i] > l[i],
         s.valid[i] \/ s.type[i] = "none" \/ s.nlink[i] > 0
  PROVE  /\ InodesGood(F!Iput(s, i), l) /\ \A d : Keeps(s, F!Iput(s, i), d)
         /\ F!Iput(s, i).ref = [s.ref EXCEPT ![i] = @ - 1]
<1>1. s \in FsType /\ s.ref[i] \in Nat /\ s.nlink[i] \in Nat /\ l[i] \in Nat /\ s.ref[i] > 0
  <2>1. s \in FsType
    BY DEF InodesGood
  <2>2. s.ref[i] \in Nat /\ s.nlink[i] \in Nat /\ l[i] \in Nat
    BY <2>1 DEF FsType
  <2> QED BY <2>1, <2>2
<1>2. CASE s.ref[i] = 1 /\ s.valid[i] /\ s.nlink[i] = 0
  BY <1>2, FreeGood DEF F!Iput
<1>3. CASE ~(s.ref[i] = 1 /\ s.valid[i] /\ s.nlink[i] = 0)
  <2> DEFINE t == F!Iput(s, i)
  <2>1. /\ t \in FsType /\ SameDisk(s, t) /\ t.stray = s.stray /\ t.valid = s.valid
        /\ t.ref = [s.ref EXCEPT ![i] = @ - 1]
    BY <1>1, <1>3, DropFields DEF F!Iput
  <2> HIDE DEF t
  <2>2. LinksCounted(t, l) /\ EntriesGood(t) /\ KindsGood(t) /\ DirsNamed(t)
    BY <2>1, SameDiskGood
  <2>3. NoneLost(t)
    <3> SUFFICES ASSUME NEW x \in F!Inums, t.type[x] # "none", t.ref[x] = 0
                 PROVE  \/ x = F!ROOTINO \/ x \in t.lost
                        \/ \E d \in F!Inums, n \in Names : t.ent[d][n] = x
                        \/ x \in t.removed /\ t.nlink[x] > 0
      BY DEF NoneLost
    <3>1. CASE x # i
      <4>1. s.ref[x] = 0
        BY <1>1, <2>1, <3>1 DEF FsType
      <4> QED BY <2>1, <4>1 DEF InodesGood, NoneLost, SameDisk
    <3>2. CASE x = i
      <4>1. s.ref[i] = 1 /\ l[i] = 0
        <5>1. t.ref[i] = s.ref[i] - 1
          BY <1>1, <2>1 DEF FsType
        <5> QED BY <1>1, <3>2, <5>1
      <4>2. s.nlink[i] > 0
        BY <1>1, <1>3, <2>1, <3>2, <4>1 DEF SameDisk
      <4> QED BY <2>1, <3>2, <4>1, <4>2, Linked DEF SameDisk
    <3> QED BY <3>1, <3>2
  <2>4. \A d : Keeps(s, t, d)
    BY <2>1 DEF Keeps, SameDisk
  <2> QED BY <2>1, <2>2, <2>3, <2>4 DEF InodesGood, t
<1> QED BY <1>2, <1>3
-----------------------------------------------------------------------------
(* One entry more, or one less.                                            *)
OneEntry(s, t, d, n, i) ==
  \A e \in F!Inums, m \in Names : t.ent[e][m] = IF e = d /\ m = n THEN i ELSE s.ent[e][m]

(* An entry more: one name more for what it leads to.                      *)
LEMMA NamesGrow ==
  ASSUME NEW s, NEW t, NEW d \in F!Inums, NEW n \in Names, NEW i \in F!Inums, NEW x \in F!Inums,
         OneEntry(s, t, d, n, i),
         s.ent[d][n] = F!Nil
  PROVE  Cardinality(NamesOf(t, x)) = Cardinality(NamesOf(s, x)) + (IF x = i THEN 1 ELSE 0)
<1>1. <<d, n>> \notin NamesOf(s, x)
  BY InodeNumbers DEF NamesOf
<1>2. NamesOf(t, x) = IF x = i THEN NamesOf(s, x) \cup {<<d, n>>} ELSE NamesOf(s, x)
  <2> SUFFICES ASSUME NEW e \in F!Inums, NEW m \in Names
               PROVE  <<e, m>> \in NamesOf(t, x) <=> <<e, m>> \in NamesOf(s, x) \/ (x = i /\ e = d /\ m = n)
    BY DEF NamesOf
  <2>1. <<e, m>> \in NamesOf(t, x) <=> t.ent[e][m] = x
    BY DEF NamesOf
  <2>2. <<e, m>> \in NamesOf(s, x) <=> s.ent[e][m] = x
    BY DEF NamesOf
  <2> QED BY <2>1, <2>2, InodeNumbers DEF OneEntry
<1>3. IsFiniteSet(NamesOf(s, x)) /\ Cardinality(NamesOf(s, x)) \in Nat
  BY NamesFinite
<1> DEFINE S == NamesOf(s, x)
           e == <<d, n>>
<1>4. Cardinality(S \cup {e}) = IF e \in S THEN Cardinality(S) ELSE Cardinality(S) + 1
  <2>1. IsFiniteSet(S)
    BY <1>3
  <2> HIDE DEF S, e
  <2> QED BY <2>1, FS_AddElement
<1> QED BY <1>1, <1>2, <1>3, <1>4

(* An entry less: one name less for what it led to.                        *)
LEMMA NamesShrink ==
  ASSUME NEW s, NEW t, NEW d \in F!Inums, NEW n \in Names, NEW i \in F!Inums, NEW x \in F!Inums,
         OneEntry(s, t, d, n, F!Nil),
         s.ent[d][n] = i
  PROVE  Cardinality(NamesOf(t, x)) = Cardinality(NamesOf(s, x)) - (IF x = i THEN 1 ELSE 0)
<1>1. <<d, n>> \in NamesOf(s, x) <=> x = i
  BY DEF NamesOf
<1>2. NamesOf(t, x) = IF x = i THEN NamesOf(s, x) \ {<<d, n>>} ELSE NamesOf(s, x)
  <2> SUFFICES ASSUME NEW e \in F!Inums, NEW m \in Names
               PROVE  <<e, m>> \in NamesOf(t, x) <=> <<e, m>> \in NamesOf(s, x) /\ ~(x = i /\ e = d /\ m = n)
    BY DEF NamesOf
  <2>1. <<e, m>> \in NamesOf(t, x) <=> t.ent[e][m] = x
    BY DEF NamesOf
  <2>2. <<e, m>> \in NamesOf(s, x) <=> s.ent[e][m] = x
    BY DEF NamesOf
  <2> QED BY <2>1, <2>2, InodeNumbers DEF OneEntry
<1>3. IsFiniteSet(NamesOf(s, x)) /\ Cardinality(NamesOf(s, x)) \in Nat
  BY NamesFinite
<1> DEFINE S == NamesOf(s, x)
           e == <<d, n>>
<1>4. Cardinality(S \ {e}) = IF e \in S THEN Cardinality(S) - 1 ELSE Cardinality(S)
  <2>1. IsFiniteSet(S)
    BY <1>3
  <2> HIDE DEF S, e
  <2> QED BY <2>1, FS_RemoveElement
<1> QED BY <1>1, <1>2, <1>3, <1>4
-----------------------------------------------------------------------------
(* A name is made for a file, or for a new directory that has no name yet. *)
OneName(s, t, d, n, i) ==
  /\ s.type[d] = "dir" /\ s.type[i] # "dir" /\ t.type[i] # "none" /\ i # F!ROOTINO
  /\ s.ent[d][n] = F!Nil
  /\ \A e \in F!Inums, m \in Names : t.ent[e][m] = IF e = d /\ m = n THEN i ELSE s.ent[e][m]
  /\ \A x \in F!Inums \ {i} : t.type[x] = s.type[x] /\ t.up[x] = s.up[x]
  /\ t.removed = s.removed /\ t.lost = (IF d \in s.removed THEN s.lost \cup {i} ELSE s.lost)
  /\ t.type[i] = "dir" => t.up[i] = d /\ i \notin s.removed /\ NamesOf(s, i) = {}
  /\ s.type[i] # "none" => t.type[i] = s.type[i]

(* Then the entries stay right.                                            *)
LEMMA EntryMade ==
  ASSUME NEW s \in FsType, NEW t \in FsType, NEW d \in F!Inums, NEW n \in Names, NEW i \in F!Inums,
         EntriesGood(s), OneName(s, t, d, n, i)
  PROVE  EntriesGood(t)
<1>1. /\ s.type[d] = "dir" /\ s.type[i] # "dir" /\ t.type[i] # "none" /\ i # F!ROOTINO
      /\ s.ent[d][n] = F!Nil /\ (s.type[i] # "none" => t.type[i] = s.type[i])
      /\ F!Nil \notin F!Inums /\ i # d
  BY InodeNumbers DEF OneName
<1>2. \A e \in F!Inums, m \in Names : t.ent[e][m] = IF e = d /\ m = n THEN i ELSE s.ent[e][m]
  BY DEF OneName
<1>3. /\ \A x \in F!Inums \ {i} : t.type[x] = s.type[x] /\ t.up[x] = s.up[x]
      /\ t.removed = s.removed /\ t.lost = (IF d \in s.removed THEN s.lost \cup {i} ELSE s.lost)
      /\ t.type[i] = "dir" => t.up[i] = d /\ i \notin s.removed /\ NamesOf(s, i) = {}
  BY DEF OneName
<1>4. \A m \in Names : s.ent[i][m] = F!Nil /\ t.ent[i][m] = F!Nil
  <2>1. \A m \in Names : s.ent[i][m] = F!Nil
    BY <1>1 DEF EntriesGood
  <2> QED BY <1>1, <1>2, <2>1
<1>5. t.type[i] = "dir" => \A e \in F!Inums, m \in Names : s.ent[e][m] # i
  <2> SUFFICES ASSUME NamesOf(s, i) = {}, NEW e \in F!Inums, NEW m \in Names, s.ent[e][m] = i
               PROVE  FALSE
    BY <1>3
  <2>1. <<e, m>> \in NamesOf(s, i)
    BY DEF NamesOf
  <2> QED BY <2>1
<1> SUFFICES ASSUME NEW e \in F!Inums, NEW m \in Names, t.ent[e][m] # F!Nil
             PROVE  /\ t.type[e] = "dir" /\ t.type[t.ent[e][m]] # "none" /\ t.ent[e][m] # F!ROOTINO
                    /\ e \in t.removed => t.ent[e][m] \in t.lost
                    /\ t.type[t.ent[e][m]] = "dir" =>
                         /\ t.up[t.ent[e][m]] = e /\ t.ent[e][m] \notin t.removed
                         /\ \A a \in F!Inums, b \in Names : t.ent[a][b] = t.ent[e][m] => a = e /\ b = m
                    /\ \A b \in Names : t.ent[t.ent[e][m]][b] # e
  BY DEF EntriesGood
<1>6. CASE e = d /\ m = n
  <2>1. t.ent[e][m] = i
    BY <1>2, <1>6
  <2>2. t.type[i] = "dir" => \A a \in F!Inums, b \in Names : t.ent[a][b] = i => a = e /\ b = m
    BY <1>2, <1>5, <1>6
  <2>3. t.type[e] = "dir" /\ (e \in t.removed => i \in t.lost)
    BY <1>1, <1>3, <1>6
  <2>4. t.type[i] = "dir" => t.up[i] = e /\ i \notin t.removed
    BY <1>3, <1>6
  <2>5. \A b \in Names : t.ent[i][b] # e
    BY <1>1, <1>4
  <2> QED BY <1>1, <2>1, <2>2, <2>3, <2>4, <2>5
<1>7. CASE ~(e = d /\ m = n)
  <2>1. PICK x \in F!Inums : x = s.ent[e][m] /\ x = t.ent[e][m]
    BY <1>2, <1>7 DEF FsType
  <2>2. /\ s.type[e] = "dir" /\ s.type[x] # "none" /\ x # F!ROOTINO
        /\ e \in s.removed => x \in s.lost
        /\ s.type[x] = "dir" =>
             /\ s.up[x] = e /\ x \notin s.removed
             /\ \A a \in F!Inums, b \in Names : s.ent[a][b] = x => a = e /\ b = m
        /\ \A b \in Names : s.ent[x][b] # e
    <3>1. s.ent[e][m] # F!Nil
      BY <1>1, <2>1
    <3>2. /\ s.type[e] = "dir" /\ s.type[s.ent[e][m]] # "none" /\ s.ent[e][m] # F!ROOTINO
          /\ e \in s.removed => s.ent[e][m] \in s.lost
          /\ s.type[s.ent[e][m]] = "dir" =>
               /\ s.up[s.ent[e][m]] = e /\ s.ent[e][m] \notin s.removed
               /\ \A a \in F!Inums, b \in Names : s.ent[a][b] = s.ent[e][m] => a = e /\ b = m
          /\ \A b \in Names : s.ent[s.ent[e][m]][b] # e
      BY <3>1 DEF EntriesGood
    <3> QED BY <2>1, <3>2
  <2>3. t.type[e] = "dir" /\ e # i /\ t.type[x] # "none"
    BY <1>1, <1>3, <2>2
  <2>4. e \in t.removed => x \in t.lost
    BY <1>3, <2>2
  <2>5. t.type[x] = "dir" => x # i /\ s.type[x] = "dir"
    <3>1. t.type[i] = "dir" => x # i
      BY <1>5, <2>1
    <3> QED BY <1>3, <3>1
  <2>6. t.type[x] = "dir" => t.up[x] = e /\ x \notin t.removed
    BY <1>3, <2>2, <2>5
  <2>7. t.type[x] = "dir" => \A a \in F!Inums, b \in Names : t.ent[a][b] = x => a = e /\ b = m
    BY <1>2, <2>2, <2>5
  <2>8. \A b \in Names : t.ent[x][b] # e
    BY <1>2, <2>2, <2>3
  <2> QED BY <2>1, <2>2, <2>3, <2>4, <2>6, <2>7, <2>8
<1> QED BY <1>6, <1>7

(* What create has made of s.                                              *)
Made(s, t, l, d, i, k) ==
  /\ InodesGood(t, l) /\ Keeps(s, t, d) /\ t.ref = [s.ref EXCEPT ![i] = @ + 1]
  /\ t.valid = [s.valid EXCEPT ![i] = TRUE] /\ t.type = [s.type EXCEPT ![i] = k]

(* Create makes a new inode and enters it.                                 *)
LEMMA MakeGood ==
  ASSUME NEW s, NEW l \in [F!Inums -> Nat], InodesGood(s, l), NEW d \in F!Inums, NEW n \in Names,
         NEW i \in F!Inums, NEW k \in {"file", "dir"},
         s.type[d] = "dir", s.type[i] = "none", s.ent[d][n] = F!Nil
  PROVE  Made(s, F!Enter(F!New(s, i, d, k), d, n, i), l, d, i, k)
<1> DEFINE u == F!New(s, i, d, k)
           t == F!Enter(u, d, n, i)
<1>1. /\ s \in FsType /\ LinksCounted(s, l) /\ EntriesGood(s) /\ KindsGood(s) /\ DirsNamed(s) /\ NoneLost(s)
  BY DEF InodesGood
<1>4. /\ d # i /\ s.nlink[i] = 0 /\ s.up[i] = F!Nil /\ i \notin s.removed \cup s.lost
      /\ \A m \in Names : s.ent[i][m] = F!Nil
  BY <1>1 DEF KindsGood, EntriesGood
<1>2. /\ u \in FsType /\ u.stray = s.stray \ {i} /\ u.ent = s.ent /\ u.removed = s.removed /\ u.lost = s.lost
      /\ u.type = [s.type EXCEPT ![i] = k]
      /\ u.nlink = [s.nlink EXCEPT ![i] = 1, ![d] = IF k = "dir" THEN @ + 1 ELSE @]
      /\ u.ref = [s.ref EXCEPT ![i] = @ + 1] /\ u.valid = [s.valid EXCEPT ![i] = TRUE]
      /\ u.up = [s.up EXCEPT ![i] = IF k = "dir" THEN d ELSE F!Nil]
  <2>1. u \in FsType /\ Renewed(s, u, i, d, k)
    BY <1>1, <1>4, NewFields
  <2> HIDE DEF u
  <2> QED BY <2>1 DEF Renewed
<1> HIDE DEF u
<1>3. /\ t \in FsType /\ t.stray = s.stray \ {i} /\ t.removed = s.removed
      /\ t.type = [s.type EXCEPT ![i] = k]
      /\ t.nlink = [s.nlink EXCEPT ![i] = 1, ![d] = IF k = "dir" THEN @ + 1 ELSE @]
      /\ t.ref = [s.ref EXCEPT ![i] = @ + 1] /\ t.valid = [s.valid EXCEPT ![i] = TRUE]
      /\ t.up = [s.up EXCEPT ![i] = IF k = "dir" THEN d ELSE F!Nil]
      /\ t.ent = [s.ent EXCEPT ![d] = [@ EXCEPT ![n] = i]]
      /\ t.lost = IF d \in s.removed THEN s.lost \cup {i} ELSE s.lost
  <2>1. t \in FsType /\ HasEntered(u, t, d, n, i)
    <3>1. u \in FsType
      BY <1>2
    <3> QED BY <3>1, EnterFields
  <2> HIDE DEF t
  <2> QED BY <1>2, <2>1 DEF HasEntered
<1> HIDE DEF t
<1>5. NamesOf(s, i) = {} /\ ChildrenOf(s, i) = {} /\ l[i] = 0 /\ i # F!ROOTINO
  BY <1>4, Unlinked
<1>6. /\ \A x \in F!Inums \ {i} : t.type[x] = s.type[x] /\ t.up[x] = s.up[x]
      /\ t.type[i] = k /\ t.up[i] = IF k = "dir" THEN d ELSE F!Nil
  BY <1>1, <1>3 DEF FsType
<1>7. \A e \in F!Inums, m \in Names : t.ent[e][m] = IF e = d /\ m = n THEN i ELSE s.ent[e][m]
  BY <1>1, <1>3 DEF FsType
<1>8. /\ \A x \in F!Inums \ {i, d} : t.nlink[x] = s.nlink[x]
      /\ t.nlink[i] = 1 /\ t.nlink[d] = s.nlink[d] + (IF k = "dir" THEN 1 ELSE 0)
  <2>1. s.nlink \in [F!Inums -> Nat] /\ s.nlink[d] \in Nat
    BY <1>1 DEF FsType
  <2> QED BY <1>3, <1>4, <2>1
<1>9. \A x \in F!Inums : ChildrenOf(t, x) = IF x = d /\ k = "dir" THEN ChildrenOf(s, x) \cup {i} ELSE ChildrenOf(s, x)
  <2> SUFFICES ASSUME NEW x \in F!Inums, NEW c \in F!Inums
               PROVE  c \in ChildrenOf(t, x) <=> c \in ChildrenOf(s, x) \/ (c = i /\ x = d /\ k = "dir")
    BY <1>4 DEF ChildrenOf
  <2>1. CASE c = i
    BY <1>3, <1>4, <1>6, <2>1, InodeNumbers DEF ChildrenOf
  <2>2. CASE c # i
    BY <1>3, <1>6, <2>2 DEF ChildrenOf
  <2> QED BY <2>1, <2>2
<1>10. ASSUME NEW x \in F!Inums
       PROVE  /\ Owed(t, l, x) = Owed(s, l, x) + (IF x = i THEN 1 ELSE 0) + (IF x = d /\ k = "dir" THEN 1 ELSE 0)
              /\ Cardinality(ChildrenOf(t, x)) = Cardinality(ChildrenOf(s, x)) + (IF x = d /\ k = "dir" THEN 1 ELSE 0)
  <2>1. Cardinality(NamesOf(t, x)) = Cardinality(NamesOf(s, x)) + (IF x = i THEN 1 ELSE 0)
    <3>1. OneEntry(s, t, d, n, i)
      BY <1>7 DEF OneEntry
    <3> QED BY <3>1, NamesGrow
  <2>2. Cardinality(ChildrenOf(t, x)) = Cardinality(ChildrenOf(s, x)) + (IF x = d /\ k = "dir" THEN 1 ELSE 0)
    <3> DEFINE S == ChildrenOf(s, x)
    <3>1. IsFiniteSet(S) /\ Cardinality(S) \in Nat
      BY NamesFinite
    <3>2. x = d => i \notin S
      BY <1>4, InodeNumbers DEF ChildrenOf
    <3>3. Cardinality(S \cup {i}) = IF i \in S THEN Cardinality(S) ELSE Cardinality(S) + 1
      <4> HIDE DEF S
      <4> QED BY <3>1, FS_AddElement
    <3> QED BY <1>9, <3>1, <3>2, <3>3
  <2>3. Cardinality(NamesOf(s, x)) \in Nat /\ Cardinality(ChildrenOf(s, x)) \in Nat /\ l[x] \in Nat
    BY NamesFinite
  <2> QED BY <2>1, <2>2, <2>3 DEF Owed
<1>11. LinksCounted(t, l)
  <2> SUFFICES ASSUME NEW x \in F!Inums
               PROVE  /\ t.nlink[x] >= Owed(t, l, x)
                      /\ x \notin t.lost => t.nlink[x] = Owed(t, l, x)
                      /\ x \in t.lost \ t.removed /\ t.type[x] = "dir" => t.nlink[x] > Cardinality(ChildrenOf(t, x))
                      /\ l[x] > 0 => t.type[x] = "file"
    BY DEF LinksCounted
  <2>1. /\ s.nlink[x] >= Owed(s, l, x)
        /\ x \notin s.lost => s.nlink[x] = Owed(s, l, x)
        /\ x \in s.lost \ s.removed /\ s.type[x] = "dir" => s.nlink[x] > Cardinality(ChildrenOf(s, x))
        /\ l[x] > 0 => s.type[x] = "file"
    BY <1>1 DEF LinksCounted
  <2>2. /\ Owed(s, l, x) \in Nat /\ s.nlink[x] \in Nat /\ Cardinality(ChildrenOf(s, x)) \in Nat
    BY <1>1, OwesNothing, NamesFinite DEF FsType
  <2>3. CASE x = i
    <3>1. Owed(s, l, x) = 0 /\ Cardinality(ChildrenOf(s, x)) = 0
      BY <1>4, <1>5, <2>3, Unlinked, FS_EmptySet
    <3>2. t.nlink[x] = 1 /\ Owed(t, l, x) = 1 /\ Cardinality(ChildrenOf(t, x)) = 0
      BY <1>4, <1>8, <1>10, <2>3, <3>1
    <3> QED BY <1>5, <2>3, <3>2
  <2>4. CASE x # i
    <3>1. t.type[x] = s.type[x] /\ (x \in t.lost <=> x \in s.lost) /\ (x \in t.removed <=> x \in s.removed)
      BY <1>3, <1>6, <2>4
    <3>2. t.nlink[x] = s.nlink[x] + (IF x = d /\ k = "dir" THEN 1 ELSE 0)
      BY <1>8, <2>2, <2>4
    <3> QED BY <1>10, <2>1, <2>2, <2>4, <3>1, <3>2
  <2> QED BY <2>3, <2>4
<1>12. EntriesGood(t)
  <2>1. /\ s \in FsType /\ t \in FsType /\ EntriesGood(s) /\ s.type[i] # "dir" /\ t.type[i] # "none"
        /\ i # F!ROOTINO /\ t.removed = s.removed
        /\ t.lost = IF d \in s.removed THEN s.lost \cup {i} ELSE s.lost
    BY <1>1, <1>3, <1>5, <1>6
  <2>2. /\ t.type[i] = "dir" => t.up[i] = d /\ i \notin s.removed /\ NamesOf(s, i) = {}
        /\ s.type[i] # "none" => t.type[i] = s.type[i]
    BY <1>4, <1>5, <1>6
  <2>3. OneName(s, t, d, n, i)
    BY <1>4, <1>6, <1>7, <2>1, <2>2 DEF OneName
  <2> QED BY <2>1, <2>3, EntryMade
<1>13. KindsGood(t)
  <2>1. t.type[F!ROOTINO] = "dir" /\ F!ROOTINO \notin t.removed \cup t.lost
    BY <1>1, <1>3, <1>5, <1>6, InodeNumbers DEF KindsGood
  <2>2. \A x \in F!Inums : t.type[x] = "dir" <=> t.up[x] # F!Nil
    BY <1>1, <1>6, InodeNumbers DEF KindsGood
  <2>3. \A x \in F!Inums : t.up[x] # F!Nil /\ x \notin t.removed => t.type[t.up[x]] = "dir"
    <3> SUFFICES ASSUME NEW x \in F!Inums, t.up[x] # F!Nil, x \notin t.removed
                 PROVE  t.type[t.up[x]] = "dir"
      OBVIOUS
    <3>1. CASE x = i
      BY <1>4, <1>6, <3>1
    <3>2. CASE x # i
      <4>1. s.up[x] \in F!Inums /\ s.type[s.up[x]] = "dir" /\ t.up[x] = s.up[x]
        BY <1>1, <1>3, <1>6, <3>2 DEF FsType, KindsGood
      <4> QED BY <1>6, <4>1
    <3> QED BY <3>1, <3>2
  <2>4. (\A x \in t.removed : t.type[x] = "dir") /\ (\A x \in t.lost : t.type[x] # "none")
    BY <1>1, <1>3, <1>4, <1>6 DEF KindsGood, FsType
  <2>5. \A x \in F!Inums : t.type[x] = "none" => t.nlink[x] = 0
    BY <1>1, <1>6, <1>8 DEF KindsGood
  <2> QED BY <2>1, <2>2, <2>3, <2>4, <2>5 DEF KindsGood
<1>14. DirsNamed(t)
  <2> SUFFICES ASSUME NEW x \in F!Inums, t.type[x] = "dir", x \notin t.removed \cup t.lost, x # F!ROOTINO
               PROVE  \E m \in Names : t.ent[t.up[x]][m] = x
    BY DEF DirsNamed
  <2>1. CASE x = i
    BY <1>6, <1>7, <2>1
  <2>2. CASE x # i
    <3>1. s.type[x] = "dir" /\ x \notin s.removed \cup s.lost /\ t.up[x] = s.up[x]
      BY <1>3, <1>6, <2>2
    <3>2. PICK m \in Names : s.ent[s.up[x]][m] = x
      BY <1>1, <3>1 DEF DirsNamed
    <3>3. s.up[x] \in F!Inums
      BY <1>1, <3>1 DEF FsType, KindsGood
    <3> QED BY <1>7, <3>1, <3>2, <3>3, InodeNumbers
  <2> QED BY <2>1, <2>2
<1>15. NoneLost(t)
  <2> SUFFICES ASSUME NEW x \in F!Inums, t.type[x] # "none", t.ref[x] = 0
               PROVE  \/ x = F!ROOTINO \/ x \in t.lost
                      \/ \E e \in F!Inums, m \in Names : t.ent[e][m] = x
                      \/ x \in t.removed /\ t.nlink[x] > 0
    BY DEF NoneLost
  <2>1. x # i /\ s.type[x] # "none" /\ s.ref[x] = 0
    <3>1. s.ref \in [F!Inums -> Nat]
      BY <1>1 DEF FsType
    <3>2. x # i
      BY <1>3, <3>1
    <3> QED BY <1>3, <1>6, <3>1, <3>2
  <2>2. \/ x = F!ROOTINO \/ x \in s.lost
        \/ \E e \in F!Inums, m \in Names : s.ent[e][m] = x
        \/ x \in s.removed /\ s.nlink[x] > 0
    BY <1>1, <2>1 DEF NoneLost
  <2>3. s.nlink[x] > 0 => t.nlink[x] > 0
    <3>1. s.nlink[x] \in Nat
      BY <1>1 DEF FsType
    <3> QED BY <1>8, <2>1, <3>1
  <2>4. \A e \in F!Inums, m \in Names : s.ent[e][m] = x => t.ent[e][m] = x
    BY <1>7, InodeNumbers
  <2> QED BY <1>3, <2>2, <2>3, <2>4
<1>16. Keeps(s, t, d)
  <2>1. \A x \in F!Inums : s.valid[x] => t.valid[x]
    BY <1>1, <1>3 DEF FsType
  <2>2. \A x \in F!Inums \ {d} : t.ent[x] = s.ent[x]
    BY <1>1, <1>3 DEF FsType
  <2> QED BY <1>3, <1>6, <2>1, <2>2 DEF Keeps
<1>17. Made(s, t, l, d, i, k)
  BY <1>3, <1>11, <1>12, <1>13, <1>14, <1>15, <1>16 DEF InodesGood, Made
<1> QED BY <1>17 DEF t, u

(* Link enters the inode it has counted.                                   *)
LEMMA LinkedGood ==
  ASSUME NEW s, NEW l \in [F!Inums -> Nat], InodesGood(s, l), NEW d \in F!Inums, NEW n \in Names,
         NEW i \in F!Inums, s.type[d] = "dir", s.type[i] = "file", s.ent[d][n] = F!Nil,
         NEW h \in [F!Inums -> Nat], l[i] = h[i] + 1, \A x \in F!Inums \ {i} : h[x] = l[x]
  PROVE  LET t == F!Enter(s, d, n, i) IN
         /\ InodesGood(t, h) /\ Keeps(s, t, d) /\ t.ref = s.ref
         /\ t.valid = s.valid /\ t.type = s.type
<1> DEFINE t == F!Enter(s, d, n, i)
<1>1. /\ s \in FsType /\ LinksCounted(s, l) /\ EntriesGood(s) /\ KindsGood(s) /\ DirsNamed(s) /\ NoneLost(s)
  BY DEF InodesGood
<1>2. t \in FsType /\ HasEntered(s, t, d, n, i)
  BY <1>1, EnterFields
<1> HIDE DEF t
<1>3. /\ t.stray = s.stray /\ t.nlink = s.nlink /\ t.type = s.type
      /\ t.up = s.up /\ t.removed = s.removed /\ t.ref = s.ref /\ t.valid = s.valid
      /\ t.ent = [s.ent EXCEPT ![d] = [@ EXCEPT ![n] = i]]
      /\ t.lost = IF d \in s.removed THEN s.lost \cup {i} ELSE s.lost
  BY <1>2 DEF HasEntered
<1>4. i # F!ROOTINO /\ \A x \in F!Inums : l[x] = h[x] + (IF x = i THEN 1 ELSE 0)
  <2>1. \A x \in F!Inums : l[x] \in Nat
    OBVIOUS
  <2>2. i # F!ROOTINO
    BY <1>1 DEF KindsGood
  <2> QED BY <2>1, <2>2
<1>5. \A e \in F!Inums, m \in Names : t.ent[e][m] = IF e = d /\ m = n THEN i ELSE s.ent[e][m]
  BY <1>1, <1>3 DEF FsType
<1>6. LinksCounted(t, h)
  <2> SUFFICES ASSUME NEW x \in F!Inums
               PROVE  /\ t.nlink[x] >= Owed(t, h, x)
                      /\ x \notin t.lost => t.nlink[x] = Owed(t, h, x)
                      /\ x \in t.lost \ t.removed /\ t.type[x] = "dir" => t.nlink[x] > Cardinality(ChildrenOf(t, x))
                      /\ h[x] > 0 => t.type[x] = "file"
    BY DEF LinksCounted
  <2>1. ChildrenOf(t, x) = ChildrenOf(s, x)
    BY <1>3 DEF ChildrenOf
  <2>2. Owed(t, h, x) = Owed(s, l, x)
    <3>1. Cardinality(NamesOf(t, x)) = Cardinality(NamesOf(s, x)) + (IF x = i THEN 1 ELSE 0)
      <4>1. OneEntry(s, t, d, n, i)
        BY <1>5 DEF OneEntry
      <4> QED BY <4>1, NamesGrow
    <3>2. Cardinality(NamesOf(s, x)) \in Nat /\ Cardinality(ChildrenOf(s, x)) \in Nat /\ h[x] \in Nat
      BY <1>4, NamesFinite
    <3>3. l[x] = h[x] + (IF x = i THEN 1 ELSE 0)
      BY <1>4
    <3> QED BY <2>1, <3>1, <3>2, <3>3 DEF Owed
  <2>3. /\ s.nlink[x] >= Owed(s, l, x)
        /\ x \notin s.lost => s.nlink[x] = Owed(s, l, x)
        /\ x \in s.lost \ s.removed /\ s.type[x] = "dir" => s.nlink[x] > Cardinality(ChildrenOf(s, x))
        /\ l[x] > 0 => s.type[x] = "file"
    BY <1>1 DEF LinksCounted
  <2>4. h[x] > 0 => l[x] > 0
    BY <1>4
  <2>5. x \notin t.lost => x \notin s.lost
    BY <1>3
  <2>6. x # i /\ x \in t.lost => x \in s.lost
    BY <1>3
  <2> QED BY <1>3, <2>1, <2>2, <2>3, <2>4, <2>5, <2>6
<1>7. EntriesGood(t)
  <2>1. OneName(s, t, d, n, i)
    BY <1>3, <1>4, <1>5 DEF OneName
  <2> QED BY <1>1, <1>2, <2>1, EntryMade
<1>8. KindsGood(t)
  BY <1>1, <1>3, <1>4 DEF KindsGood
<1>9. DirsNamed(t)
  <2> SUFFICES ASSUME NEW x \in F!Inums, s.type[x] = "dir", x \notin s.removed \cup s.lost, x # F!ROOTINO
               PROVE  \E m \in Names : t.ent[t.up[x]][m] = x
    BY <1>3 DEF DirsNamed
  <2>1. PICK m \in Names : s.ent[s.up[x]][m] = x
    BY <1>1 DEF DirsNamed
  <2>2. s.up[x] \in F!Inums
    BY <1>1 DEF FsType, KindsGood
  <2> QED BY <1>3, <1>5, <2>1, <2>2, InodeNumbers
<1>10. NoneLost(t)
  <2>1. \A e \in F!Inums, m \in Names, x \in F!Inums : s.ent[e][m] = x => t.ent[e][m] = x
    BY <1>5, InodeNumbers
  <2>2. \A x \in s.lost : x \in t.lost
    BY <1>3
  <2> QED BY <1>1, <1>3, <2>1, <2>2 DEF NoneLost
<1>11. Keeps(s, t, d)
  <2>1. \A x \in F!Inums \ {d} : t.ent[x] = s.ent[x]
    BY <1>1, <1>3 DEF FsType
  <2> QED BY <1>3, <2>1 DEF Keeps
<1> QED BY <1>2, <1>3, <1>6, <1>7, <1>8, <1>9, <1>10, <1>11 DEF InodesGood, t

(* Link counts a name before it is there, or takes the count back.         *)
Recount(s, i, k) == [s EXCEPT !.nlink[i] = k]

(* It does so by setting the links of the file to k.                       *)
LEMMA CountGood ==
  ASSUME NEW s, NEW l \in [F!Inums -> Nat], InodesGood(s, l), NEW i \in F!Inums, s.type[i] = "file",
         NEW k \in Nat, NEW h \in [F!Inums -> Nat], s.nlink[i] + h[i] = l[i] + k,
         \A x \in F!Inums \ {i} : h[x] = l[x]
  PROVE  LET t == Recount(s, i, k) IN
         /\ InodesGood(t, h) /\ \A d : Keeps(s, t, d)
         /\ t.ref = s.ref /\ t.valid = s.valid /\ t.type = s.type /\ t.nlink[i] = k /\ t.ent = s.ent
<1> DEFINE t == Recount(s, i, k)
<1>1. /\ s \in FsType /\ LinksCounted(s, l) /\ EntriesGood(s) /\ KindsGood(s) /\ DirsNamed(s) /\ NoneLost(s)
  BY DEF InodesGood
<1>2. /\ t \in FsType /\ t.stray = s.stray /\ t.lost = s.lost /\ t.type = s.type /\ t.up = s.up
      /\ t.ref = s.ref /\ t.valid = s.valid /\ t.ent = s.ent /\ t.removed = s.removed
      /\ t.nlink = [s.nlink EXCEPT ![i] = k]
  BY <1>1, LinkFields DEF Recount
<1> HIDE DEF t
<1>3. t.nlink[i] = k /\ \A x \in F!Inums \ {i} : t.nlink[x] = s.nlink[x]
  BY <1>1, <1>2 DEF FsType
<1>4. \A x \in F!Inums : ChildrenOf(t, x) = ChildrenOf(s, x) /\ NamesOf(t, x) = NamesOf(s, x)
  BY <1>2 DEF ChildrenOf, NamesOf
<1>5. LinksCounted(t, h)
  <2> SUFFICES ASSUME NEW x \in F!Inums
               PROVE  /\ t.nlink[x] >= Owed(t, h, x)
                      /\ x \notin t.lost => t.nlink[x] = Owed(t, h, x)
                      /\ x \in t.lost \ t.removed /\ t.type[x] = "dir" => t.nlink[x] > Cardinality(ChildrenOf(t, x))
                      /\ h[x] > 0 => t.type[x] = "file"
    BY DEF LinksCounted
  <2>1. /\ s.nlink[x] >= Owed(s, l, x)
        /\ x \notin s.lost => s.nlink[x] = Owed(s, l, x)
        /\ x \in s.lost \ s.removed /\ s.type[x] = "dir" => s.nlink[x] > Cardinality(ChildrenOf(s, x))
        /\ l[x] > 0 => s.type[x] = "file"
    BY <1>1 DEF LinksCounted
  <2>3. Owed(t, h, x) = Owed(s, l, x) - l[x] + h[x] /\ Owed(s, l, x) \in Nat
    <3>1. Cardinality(NamesOf(s, x)) \in Nat /\ Cardinality(ChildrenOf(s, x)) \in Nat
      BY NamesFinite
    <3>2. l[x] \in Nat /\ h[x] \in Nat
      OBVIOUS
    <3> QED BY <1>4, <3>1, <3>2 DEF Owed
  <2>4. s.nlink[x] \in Nat /\ l[x] \in Nat /\ h[x] \in Nat
    BY <1>1 DEF FsType
  <2>5. t.nlink[x] = s.nlink[x] - l[x] + h[x]
    BY <1>3, <2>4
  <2> QED BY <1>2, <1>3, <1>4, <2>1, <2>3, <2>4, <2>5
<1>6. EntriesGood(t)
  BY <1>1, <1>2 DEF EntriesGood
<1>7. KindsGood(t)
  BY <1>1, <1>2, <1>3 DEF KindsGood
<1>8. DirsNamed(t)
  BY <1>1, <1>2 DEF DirsNamed
<1>9. NoneLost(t)
  <2>1. i \notin s.removed
    BY <1>1 DEF KindsGood
  <2> QED BY <1>1, <1>2, <1>3, <2>1 DEF NoneLost
<1>10. \A d : Keeps(s, t, d)
  BY <1>2 DEF Keeps
<1> QED BY <1>2, <1>3, <1>5, <1>6, <1>7, <1>8, <1>9, <1>10 DEF InodesGood, t

(* Unlink takes the entry out.                                             *)
LEMMA RemoveGood ==
  ASSUME NEW s, NEW l \in [F!Inums -> Nat], InodesGood(s, l), NEW d \in F!Inums, NEW n \in Names,
         NEW i \in F!Inums, s.ent[d][n] = i, s.ref[i] > 0, s.ref[d] > 0,
         s.type[i] = "dir" => s.ent[i] = F!NoEntries
  PROVE  LET t == F!Remove(s, d, n, i) IN
         /\ InodesGood(t, l) /\ Keeps(s, t, d) /\ t.ref = s.ref /\ t.valid = s.valid /\ t.type = s.type
<1> DEFINE t == F!Remove(s, d, n, i)
<1>1. /\ s \in FsType /\ LinksCounted(s, l) /\ EntriesGood(s) /\ KindsGood(s) /\ DirsNamed(s) /\ NoneLost(s)
  BY DEF InodesGood
<1>2. F!Nil \notin F!Inums /\ F!ROOTINO \in F!Inums
  BY InodeNumbers
<1>3. /\ s.type[d] = "dir" /\ s.type[i] # "none" /\ i # F!ROOTINO /\ i # d
      /\ s.type[i] = "dir" =>
           /\ s.up[i] = d /\ i \notin s.removed
           /\ \A e \in F!Inums, m \in Names : s.ent[e][m] = i => e = d /\ m = n
           /\ \A m \in Names : s.ent[i][m] = F!Nil
  <2>1. s.ent[d][n] # F!Nil
    BY <1>2
  <2>2. /\ s.type[d] = "dir" /\ s.type[s.ent[d][n]] # "none" /\ s.ent[d][n] # F!ROOTINO
        /\ s.type[s.ent[d][n]] = "dir" =>
             /\ s.up[s.ent[d][n]] = d /\ s.ent[d][n] \notin s.removed
             /\ \A e \in F!Inums, m \in Names : s.ent[e][m] = s.ent[d][n] => e = d /\ m = n
        /\ \A m \in Names : s.ent[s.ent[d][n]][m] # d
    BY <1>1, <2>1 DEF EntriesGood
  <2>3. s.type[i] = "dir" => \A m \in Names : s.ent[i][m] = F!Nil
    BY DEF F!NoEntries
  <2> QED BY <2>2, <2>3
<1>4. <<d, n>> \in NamesOf(s, i)
  BY DEF NamesOf
<1>5. s.nlink[i] > 0 /\ (s.type[i] = "dir" => s.nlink[d] > 0)
  <2>1. ASSUME NEW x \in F!Inums, s.nlink[x] = 0
        PROVE  NamesOf(s, x) = {} /\ ChildrenOf(s, x) = {}
    BY <2>1, Unlinked
  <2>2. s.nlink[i] # 0
    BY <1>4, <2>1
  <2>3. s.type[i] = "dir" => i \in ChildrenOf(s, d)
    BY <1>3 DEF ChildrenOf
  <2>4. s.type[i] = "dir" => s.nlink[d] # 0
    BY <2>1, <2>3
  <2>5. s.nlink[i] \in Nat /\ s.nlink[d] \in Nat
    BY <1>1 DEF FsType
  <2> QED BY <2>2, <2>4, <2>5
<1>6. t \in FsType /\ Unnamed(s, t, d, n, i)
  BY <1>1, <1>3, <1>5, RemoveFields
<1> HIDE DEF t
<1>7. /\ t.stray = s.stray /\ t.lost = s.lost /\ t.type = s.type /\ t.up = s.up
      /\ t.ref = s.ref /\ t.valid = s.valid
      /\ t.ent = [s.ent EXCEPT ![d] = [@ EXCEPT ![n] = F!Nil]]
      /\ t.nlink = [s.nlink EXCEPT ![i] = @ - 1, ![d] = IF s.type[i] = "dir" THEN @ - 1 ELSE @]
      /\ t.removed = IF s.type[i] = "dir" THEN s.removed \cup {i} ELSE s.removed
  BY <1>6 DEF Unnamed
<1>8. \A e \in F!Inums, m \in Names : t.ent[e][m] = IF e = d /\ m = n THEN F!Nil ELSE s.ent[e][m]
  BY <1>1, <1>7 DEF FsType
<1>9. /\ \A x \in F!Inums \ {i, d} : t.nlink[x] = s.nlink[x]
      /\ t.nlink[i] = s.nlink[i] - 1 /\ t.nlink[d] = s.nlink[d] - (IF s.type[i] = "dir" THEN 1 ELSE 0)
  <2>1. s.nlink \in [F!Inums -> Nat] /\ s.nlink[d] \in Nat /\ s.nlink[i] \in Nat
    BY <1>1 DEF FsType
  <2> QED BY <1>3, <1>7, <2>1
<1>10. ASSUME NEW x \in F!Inums
       PROVE  /\ Owed(t, l, x) = Owed(s, l, x) - (IF x = i THEN 1 ELSE 0)
                                   - (IF x = d /\ s.type[i] = "dir" THEN 1 ELSE 0)
              /\ Cardinality(ChildrenOf(t, x)) = Cardinality(ChildrenOf(s, x))
                                                   - (IF x = d /\ s.type[i] = "dir" THEN 1 ELSE 0)
  <2>1. Cardinality(NamesOf(t, x)) = Cardinality(NamesOf(s, x)) - (IF x = i THEN 1 ELSE 0)
    <3>1. OneEntry(s, t, d, n, F!Nil)
      BY <1>8 DEF OneEntry
    <3> QED BY <3>1, NamesShrink
  <2>2. Cardinality(ChildrenOf(t, x)) = Cardinality(ChildrenOf(s, x))
                                          - (IF x = d /\ s.type[i] = "dir" THEN 1 ELSE 0)
    <3> DEFINE S == ChildrenOf(s, x)
    <3>1. IsFiniteSet(S) /\ Cardinality(S) \in Nat
      BY NamesFinite
    <3>2. ChildrenOf(t, x) = IF x = d /\ s.type[i] = "dir" THEN S \ {i} ELSE S
      BY <1>3, <1>7 DEF ChildrenOf
    <3>3. x = d /\ s.type[i] = "dir" => i \in S
      BY <1>3 DEF ChildrenOf
    <3>4. Cardinality(S \ {i}) = IF i \in S THEN Cardinality(S) - 1 ELSE Cardinality(S)
      <4> HIDE DEF S
      <4> QED BY <3>1, FS_RemoveElement
    <3> QED BY <3>1, <3>2, <3>3, <3>4
  <2>3. Cardinality(NamesOf(s, x)) \in Nat /\ Cardinality(ChildrenOf(s, x)) \in Nat /\ l[x] \in Nat
    BY NamesFinite
  <2> QED BY <2>1, <2>2, <2>3 DEF Owed
<1>11. LinksCounted(t, l)
  <2> SUFFICES ASSUME NEW x \in F!Inums
               PROVE  /\ t.nlink[x] >= Owed(t, l, x)
                      /\ x \notin t.lost => t.nlink[x] = Owed(t, l, x)
                      /\ x \in t.lost \ t.removed /\ t.type[x] = "dir" => t.nlink[x] > Cardinality(ChildrenOf(t, x))
                      /\ l[x] > 0 => t.type[x] = "file"
    BY DEF LinksCounted
  <2>1. /\ s.nlink[x] >= Owed(s, l, x)
        /\ x \notin s.lost => s.nlink[x] = Owed(s, l, x)
        /\ x \in s.lost \ s.removed /\ s.type[x] = "dir" => s.nlink[x] > Cardinality(ChildrenOf(s, x))
        /\ l[x] > 0 => s.type[x] = "file"
    BY <1>1 DEF LinksCounted
  <2>2. /\ Owed(s, l, x) \in Nat /\ s.nlink[x] \in Nat /\ Cardinality(ChildrenOf(s, x)) \in Nat
    BY <1>1, OwesNothing, NamesFinite DEF FsType
  <2>3. t.nlink[x] = s.nlink[x] - (IF x = i THEN 1 ELSE 0) - (IF x = d /\ s.type[i] = "dir" THEN 1 ELSE 0)
    BY <1>3, <1>9, <2>2
  <2>4. x \in t.lost \ t.removed /\ t.type[x] = "dir" =>
          x \in s.lost \ s.removed /\ s.type[x] = "dir" /\ x # i
    BY <1>7
  <2>5. t.nlink[x] >= Owed(t, l, x) /\ (x \notin t.lost => t.nlink[x] = Owed(t, l, x))
    BY <1>7, <1>10, <2>1, <2>2, <2>3
  <2>6. x \in t.lost \ t.removed /\ t.type[x] = "dir" => t.nlink[x] > Cardinality(ChildrenOf(t, x))
    BY <1>10, <2>1, <2>2, <2>3, <2>4
  <2> QED BY <1>7, <2>1, <2>5, <2>6
<1>12. EntriesGood(t)
  <2> SUFFICES ASSUME NEW e \in F!Inums, NEW m \in Names, t.ent[e][m] # F!Nil
               PROVE  /\ t.type[e] = "dir" /\ t.type[t.ent[e][m]] # "none" /\ t.ent[e][m] # F!ROOTINO
                      /\ e \in t.removed => t.ent[e][m] \in t.lost
                      /\ t.type[t.ent[e][m]] = "dir" =>
                           /\ t.up[t.ent[e][m]] = e /\ t.ent[e][m] \notin t.removed
                           /\ \A a \in F!Inums, b \in Names : t.ent[a][b] = t.ent[e][m] => a = e /\ b = m
                      /\ \A b \in Names : t.ent[t.ent[e][m]][b] # e
    BY DEF EntriesGood
  <2>1. ~(e = d /\ m = n) /\ s.ent[e][m] # F!Nil /\ t.ent[e][m] = s.ent[e][m]
    BY <1>8
  <2>2. PICK x \in F!Inums : x = s.ent[e][m]
    BY <1>1, <2>1 DEF FsType
  <2>3. /\ s.type[e] = "dir" /\ s.type[x] # "none" /\ x # F!ROOTINO
        /\ e \in s.removed => x \in s.lost
        /\ s.type[x] = "dir" =>
             /\ s.up[x] = e /\ x \notin s.removed
             /\ \A a \in F!Inums, b \in Names : s.ent[a][b] = x => a = e /\ b = m
        /\ \A b \in Names : s.ent[x][b] # e
    BY <1>1, <2>1, <2>2 DEF EntriesGood
  <2>4. s.type[i] = "dir" => x # i /\ e # i
    BY <1>3, <2>1, <2>2
  <2>5. \A a \in F!Inums, b \in Names : t.ent[a][b] = x => s.ent[a][b] = x
    BY <1>2, <1>8
  <2>6. \A b \in Names : t.ent[x][b] # e
    BY <1>2, <1>8, <2>3
  <2>7. t.type[e] = "dir" /\ t.type[x] # "none" /\ x # F!ROOTINO /\ (e \in t.removed => x \in t.lost)
    BY <1>7, <2>3, <2>4
  <2>8. t.type[x] = "dir" =>
          /\ t.up[x] = e /\ x \notin t.removed
          /\ \A a \in F!Inums, b \in Names : t.ent[a][b] = x => a = e /\ b = m
    BY <1>7, <2>3, <2>4, <2>5
  <2> QED BY <2>1, <2>2, <2>6, <2>7, <2>8
<1>13. KindsGood(t)
  <2>1. F!ROOTINO \notin t.removed /\ \A x \in t.removed : t.type[x] = "dir"
    BY <1>1, <1>3, <1>7 DEF KindsGood
  <2>2. \A x \in F!Inums : t.type[x] = "none" => t.nlink[x] = 0
    BY <1>1, <1>3, <1>7, <1>9 DEF KindsGood
  <2>3. \A x \in F!Inums : x \notin t.removed => x \notin s.removed
    BY <1>7
  <2> QED BY <1>1, <1>7, <2>1, <2>2, <2>3 DEF KindsGood
<1>14. DirsNamed(t)
  <2> SUFFICES ASSUME NEW x \in F!Inums, s.type[x] = "dir", x \notin t.removed \cup s.lost, x # F!ROOTINO
               PROVE  \E m \in Names : t.ent[t.up[x]][m] = x
    BY <1>7 DEF DirsNamed
  <2>1. x # i /\ x \notin s.removed
    BY <1>7
  <2>2. PICK m \in Names : s.ent[s.up[x]][m] = x
    BY <1>1, <2>1 DEF DirsNamed
  <2>3. s.up[x] \in F!Inums
    BY <1>1 DEF FsType, KindsGood
  <2> QED BY <1>7, <1>8, <2>1, <2>2, <2>3
<1>15. NoneLost(t)
  <2> SUFFICES ASSUME NEW x \in F!Inums, s.type[x] # "none", s.ref[x] = 0
               PROVE  \/ x = F!ROOTINO \/ x \in t.lost
                      \/ \E e \in F!Inums, m \in Names : t.ent[e][m] = x
                      \/ x \in t.removed /\ t.nlink[x] > 0
    BY <1>7 DEF NoneLost
  <2>1. x # i /\ x # d /\ t.nlink[x] = s.nlink[x]
    BY <1>9
  <2>2. \/ x = F!ROOTINO \/ x \in s.lost
        \/ \E e \in F!Inums, m \in Names : s.ent[e][m] = x
        \/ x \in s.removed /\ s.nlink[x] > 0
    BY <1>1 DEF NoneLost
  <2>3. \A e \in F!Inums, m \in Names : s.ent[e][m] = x => t.ent[e][m] = x
    BY <1>8, <2>1
  <2> QED BY <1>7, <2>1, <2>2, <2>3
<1>16. Keeps(s, t, d)
  <2>1. \A x \in F!Inums \ {d} : t.ent[x] = s.ent[x]
    BY <1>1, <1>7 DEF FsType
  <2> QED BY <1>7, <2>1 DEF Keeps
<1> QED BY <1>6, <1>7, <1>11, <1>12, <1>13, <1>14, <1>15, <1>16 DEF InodesGood, t
-----------------------------------------------------------------------------
(* The references of one process to x.                                     *)
Grasp(x, c, o, k, j) ==
  (IF c = x THEN 1 ELSE 0) + (IF o = x THEN 1 ELSE 0) + (IF k = x THEN 1 ELSE 0) + (IF j = x THEN 1 ELSE 0)

(* A step of p gives it new pointers, and a new place.                     *)
Moves(p, c, o, a, k, j) ==
  /\ c \in F!Inums /\ {o, k, j} \subseteq F!Inums \cup {F!Nil} /\ a \in CallPlaces
  /\ cwd' = [cwd EXCEPT ![p] = c] /\ ofile' = [ofile EXCEPT ![p] = o] /\ iat' = [iat EXCEPT ![p] = a]
  /\ cur' = [cur EXCEPT ![p] = k] /\ ip' = [ip EXCEPT ![p] = j]

(* Its pointers and its place afterwards, and those of the others.         *)
LEMMA MovesFacts ==
  ASSUME PointersOK, NEW p \in FsProcs, NEW c, NEW o, NEW a, NEW k, NEW j, Moves(p, c, o, a, k, j)
  PROVE  /\ PointersOK'
         /\ cwd'[p] = c /\ ofile'[p] = o /\ iat'[p] = a /\ cur'[p] = k /\ ip'[p] = j
         /\ \A q \in FsProcs \ {p} :
              /\ cwd'[q] = cwd[q] /\ ofile'[q] = ofile[q] /\ iat'[q] = iat[q]
              /\ cur'[q] = cur[q] /\ ip'[q] = ip[q]
<1>1. PointersOK'
  BY DEF PointersOK, Moves
<1>2. cwd'[p] = c /\ ofile'[p] = o /\ iat'[p] = a /\ cur'[p] = k /\ ip'[p] = j
  BY DEF PointersOK, Moves
<1>3. \A q \in FsProcs \ {p} :
        /\ cwd'[q] = cwd[q] /\ ofile'[q] = ofile[q] /\ iat'[q] = iat[q]
        /\ cur'[q] = cur[q] /\ ip'[q] = ip[q]
  BY DEF PointersOK, Moves
<1> QED BY <1>1, <1>2, <1>3

(* References are counted.                                                 *)
LEMMA PointsMove ==
  ASSUME PointersOK, NEW p \in FsProcs, NEW c, NEW o, NEW a, NEW k, NEW j, Moves(p, c, o, a, k, j), NEW x
  PROVE  /\ PointsTo(cwd', x) = PointsTo(cwd, x) - (IF cwd[p] = x THEN 1 ELSE 0) + (IF c = x THEN 1 ELSE 0)
         /\ PointsTo(ofile', x) = PointsTo(ofile, x) - (IF ofile[p] = x THEN 1 ELSE 0) + (IF o = x THEN 1 ELSE 0)
         /\ PointsTo(cur', x) = PointsTo(cur, x) - (IF cur[p] = x THEN 1 ELSE 0) + (IF k = x THEN 1 ELSE 0)
         /\ PointsTo(ip', x) = PointsTo(ip, x) - (IF ip[p] = x THEN 1 ELSE 0) + (IF j = x THEN 1 ELSE 0)
<1>1. PointsTo(cwd', x) = PointsTo(cwd, x) - (IF cwd[p] = x THEN 1 ELSE 0) + (IF c = x THEN 1 ELSE 0)
  <2>1. cwd'[p] = c /\ \A q \in FsProcs \ {p} : cwd'[q] = cwd[q]
    BY MovesFacts
  <2>2. Shifts(cwd, cwd', p, x)
    BY <2>1, CountMoves
  <2> QED BY <2>1, <2>2 DEF Shifts
<1>2. PointsTo(ofile', x) = PointsTo(ofile, x) - (IF ofile[p] = x THEN 1 ELSE 0) + (IF o = x THEN 1 ELSE 0)
  <2>1. ofile'[p] = o /\ \A q \in FsProcs \ {p} : ofile'[q] = ofile[q]
    BY MovesFacts
  <2>2. Shifts(ofile, ofile', p, x)
    BY <2>1, CountMoves
  <2> QED BY <2>1, <2>2 DEF Shifts
<1>3. PointsTo(cur', x) = PointsTo(cur, x) - (IF cur[p] = x THEN 1 ELSE 0) + (IF k = x THEN 1 ELSE 0)
  <2>1. cur'[p] = k /\ \A q \in FsProcs \ {p} : cur'[q] = cur[q]
    BY MovesFacts
  <2>2. Shifts(cur, cur', p, x)
    BY <2>1, CountMoves
  <2> QED BY <2>1, <2>2 DEF Shifts
<1>4. PointsTo(ip', x) = PointsTo(ip, x) - (IF ip[p] = x THEN 1 ELSE 0) + (IF j = x THEN 1 ELSE 0)
  <2>1. ip'[p] = j /\ \A q \in FsProcs \ {p} : ip'[q] = ip[q]
    BY MovesFacts
  <2>2. Shifts(ip, ip', p, x)
    BY <2>1, CountMoves
  <2> QED BY <2>1, <2>2 DEF Shifts
<1> QED BY <1>1, <1>2, <1>3, <1>4

(* If the inodes follow the pointers, references stay counted.             *)
LEMMA RefsMove ==
  ASSUME PointersOK, F!RefsExact, NEW p \in FsProcs, NEW c, NEW o, NEW a, NEW k, NEW j,
         Moves(p, c, o, a, k, j),
         \A x \in F!Inums : fs'.ref[x] = fs.ref[x] - Grasp(x, cwd[p], ofile[p], cur[p], ip[p]) + Grasp(x, c, o, k, j)
  PROVE  F!RefsExact'
<1> SUFFICES ASSUME NEW x \in F!Inums
             PROVE  fs'.ref[x] = PointsTo(cwd', x) + PointsTo(ofile', x) + PointsTo(cur', x) + PointsTo(ip', x)
  BY FsSize DEF F!RefsExact, PointsTo
<1>1. fs.ref[x] = PointsTo(cwd, x) + PointsTo(ofile, x) + PointsTo(cur, x) + PointsTo(ip, x)
  BY RefsAre
<1>2. /\ PointsTo(cwd', x) = PointsTo(cwd, x) - (IF cwd[p] = x THEN 1 ELSE 0) + (IF c = x THEN 1 ELSE 0)
      /\ PointsTo(ofile', x) = PointsTo(ofile, x) - (IF ofile[p] = x THEN 1 ELSE 0) + (IF o = x THEN 1 ELSE 0)
      /\ PointsTo(cur', x) = PointsTo(cur, x) - (IF cur[p] = x THEN 1 ELSE 0) + (IF k = x THEN 1 ELSE 0)
      /\ PointsTo(ip', x) = PointsTo(ip, x) - (IF ip[p] = x THEN 1 ELSE 0) + (IF j = x THEN 1 ELSE 0)
  BY PointsMove
<1>3. PointsTo(cwd, x) \in Nat /\ PointsTo(ofile, x) \in Nat /\ PointsTo(cur, x) \in Nat /\ PointsTo(ip, x) \in Nat
  BY CountType
<1> QED BY <1>1, <1>2, <1>3 DEF Grasp

(* What is pointed to is counted, and more than the links to it that are   *)
(* being made when another kind of pointer leads to it.                    *)
LEMMA Held ==
  F!RefsExact =>
    \A q \in FsProcs, x \in F!Inums :
      cwd[q] = x \/ ofile[q] = x \/ cur[q] = x \/ ip[q] = x => fs.ref[x] > 0
<1> SUFFICES ASSUME F!RefsExact, NEW q \in FsProcs, NEW x \in F!Inums,
                    cwd[q] = x \/ ofile[q] = x \/ cur[q] = x \/ ip[q] = x
             PROVE  fs.ref[x] > 0
  OBVIOUS
<1>1. fs.ref[x] = PointsTo(cwd, x) + PointsTo(ofile, x) + PointsTo(cur, x) + PointsTo(ip, x)
  BY RefsAre
<1>2. /\ PointsTo(cwd, x) \in Nat
      /\ cwd[q] = x => PointsTo(cwd, x) > 0
  BY CountType
<1>3. /\ PointsTo(ofile, x) \in Nat
      /\ ofile[q] = x => PointsTo(ofile, x) > 0
  BY CountType
<1>4. /\ PointsTo(cur, x) \in Nat
      /\ cur[q] = x => PointsTo(cur, x) > 0
  BY CountType
<1>5. /\ PointsTo(ip, x) \in Nat
      /\ ip[q] = x => PointsTo(ip, x) > 0
  BY CountType
<1> QED BY <1>1, <1>2, <1>3, <1>4, <1>5

(* The links on their way are numbers.                                     *)
LEMMA LinkCountType == LinkCount \in [F!Inums -> Nat]
BY CountType DEF LinkCount

(* A pointer of a process that is no link on its way is a reference more   *)
(* than those.                                                             *)
LEMMA HeldMore ==
  ASSUME F!RefsExact, NEW q \in FsProcs, NEW x \in F!Inums
  PROVE  /\ fs.ref[x] >= LinkCount[x]
         /\ cwd[q] = x \/ ofile[q] = x \/ cur[q] = x \/ (ip[q] = x /\ iat[q] = "unlinkIp") => fs.ref[x] > LinkCount[x]
<1> DEFINE I == {r \in FsProcs : ip[r] = x}
           L == {r \in FsProcs : Linking[r] = x}
<1>1. fs.ref[x] = PointsTo(cwd, x) + PointsTo(ofile, x) + PointsTo(cur, x) + PointsTo(ip, x)
  BY RefsAre
<1>2. PointsTo(cwd, x) \in Nat /\ (cwd[q] = x => PointsTo(cwd, x) > 0)
  BY CountType
<1>3. PointsTo(ofile, x) \in Nat /\ (ofile[q] = x => PointsTo(ofile, x) > 0)
  BY CountType
<1>4. PointsTo(cur, x) \in Nat /\ (cur[q] = x => PointsTo(cur, x) > 0)
  BY CountType
<1>5. PointsTo(ip, x) \in Nat /\ PointsTo(Linking, x) \in Nat
  BY CountType
<1>6. L \subseteq I /\ (ip[q] = x /\ iat[q] = "unlinkIp" => L # I)
  BY InodeNumbers DEF Linking
<1>7. Cardinality(L) <= Cardinality(I) /\ (L # I => Cardinality(L) # Cardinality(I))
  <2>1. IsFiniteSet(I)
    BY InodeNumbers, FS_Subset
  <2> HIDE DEF I, L
  <2> QED BY <1>6, <2>1, FS_Subset
<1>8. LinkCount[x] = Cardinality(L) /\ PointsTo(Linking, x) = Cardinality(L) /\ PointsTo(ip, x) = Cardinality(I)
  BY DEF LinkCount, PointsTo
<1> HIDE DEF I, L
<1> QED BY <1>1, <1>2, <1>3, <1>4, <1>5, <1>6, <1>7, <1>8

(* The links that are being made, after a step of p.                       *)
LEMMA LinkCountMoves ==
  ASSUME PointersOK, NEW p \in FsProcs, NEW c, NEW o, NEW a, NEW k, NEW j, Moves(p, c, o, a, k, j)
  PROVE  \A x \in F!Inums : LinkCount'[x] = LinkCount[x]
           - (IF iat[p] # "unlinkIp" /\ ip[p] = x THEN 1 ELSE 0) + (IF a # "unlinkIp" /\ j = x THEN 1 ELSE 0)
<1> SUFFICES ASSUME NEW x \in F!Inums
             PROVE  LinkCount'[x] = LinkCount[x]
                      - (IF iat[p] # "unlinkIp" /\ ip[p] = x THEN 1 ELSE 0) + (IF a # "unlinkIp" /\ j = x THEN 1 ELSE 0)
  OBVIOUS
<1>1. \A q \in FsProcs \ {p} : Linking'[q] = Linking[q]
  BY MovesFacts DEF Linking
<1>2. Linking[p] = (IF iat[p] = "unlinkIp" THEN F!Nil ELSE ip[p]) /\ Linking'[p] = (IF a = "unlinkIp" THEN F!Nil ELSE j)
  BY MovesFacts DEF Linking
<1>3. Shifts(Linking, Linking', p, x)
  BY <1>1, CountMoves
<1>4. LinkCount[x] = PointsTo(Linking, x) /\ LinkCount'[x] = PointsTo(Linking', x)
  BY DEF LinkCount, PointsTo
<1>5. F!Nil # x
  BY InodeNumbers
<1> QED BY <1>2, <1>3, <1>4, <1>5 DEF Shifts

(* They stay the same if those of p do.                                    *)
LEMMA SameLinkCount ==
  ASSUME PointersOK, NEW p \in FsProcs, NEW c, NEW o, NEW a, NEW k, NEW j, Moves(p, c, o, a, k, j),
         \/ a # "unlinkIp" /\ iat[p] # "unlinkIp" /\ j = ip[p]
         \/ (a = "unlinkIp" \/ j = F!Nil) /\ (iat[p] = "unlinkIp" \/ ip[p] = F!Nil)
  PROVE  LinkCount' = LinkCount
<1>1. \A x \in F!Inums : LinkCount'[x] = LinkCount[x]
           - (IF iat[p] # "unlinkIp" /\ ip[p] = x THEN 1 ELSE 0) + (IF a # "unlinkIp" /\ j = x THEN 1 ELSE 0)
  BY LinkCountMoves
<1>2. \A x \in F!Inums : LinkCount[x] \in Nat /\ x # F!Nil
  BY LinkCountType, InodeNumbers
<1>3. \A x \in F!Inums : LinkCount'[x] = LinkCount[x]
  BY <1>1, <1>2
<1>4. LinkCount = [x \in F!Inums |-> LinkCount[x]] /\ LinkCount' = [x \in F!Inums |-> LinkCount'[x]]
  BY DEF LinkCount
<1> QED BY <1>3, <1>4

(* What a step of p must bring about; d is the directory it may change.    *)
Lands(p, t, d, l, c, o, a, k, j) ==
  /\ fs' = t /\ Moves(p, c, o, a, k, j) /\ LinkCount' = l
  /\ InodesGood(t, l) /\ Keeps(fs, t, d)
  /\ \A x \in F!Inums : t.ref[x] = fs.ref[x] - Grasp(x, cwd[p], ofile[p], cur[p], ip[p]) + Grasp(x, c, o, k, j)
  /\ \A q \in FsProcs \ {p} : iat[q] = "unlinkIp" => cur[q] # d /\ (a = "unlinkIp" => cur[q] # k)

(* The new pointers of p, and its place.                                   *)
Grips(p, t, c, o, a, k, j) ==
  /\ c = cwd[p] \/ (t.type[c] = "dir" /\ t.valid[c])
  /\ o = ofile[p] \/ o = F!Nil \/ (t.type[o] # "none" /\ t.valid[o])
  /\ a \in {"user", "linkBad"} <=> k = F!Nil
  /\ a \in {"user", "gotFile", "gotDir"} => j = F!Nil
  /\ a \in {"unlinkIp", "linkBad"} => j # F!Nil
  /\ a = "panic" => t.type[k] = "none"
  /\ k # F!Nil /\ t.type[k] = "none" => k = cur[p] \/ k \in t.stray
  /\ \/ j = F!Nil \/ a = "unlinkIp" \/ (j = ip[p] /\ iat[p] # "unlinkIp")
     \/ t.type[j] = "file" /\ t.valid[j]
  /\ a = "unlinkIp" => t.type[k] = "dir" /\ t.valid[k] /\ \E n \in Names : t.ent[k][n] = j

(* Then the invariant holds after the step.                                *)
LEMMA CallStep ==
  ASSUME InodesInv, F!Running, NEW p \in FsProcs, NEW t, NEW d, NEW l, NEW c, NEW o, NEW a, NEW k, NEW j,
         Lands(p, t, d, l, c, o, a, k, j), Grips(p, t, c, o, a, k, j)
  PROVE  InodesInv'
<1>1. PointersOK /\ F!RefsExact /\ Apart /\ \A q \in FsProcs : Grip(q)
  BY DEF InodesInv
<1>2. fs' = t /\ Moves(p, c, o, a, k, j) /\ InodesGood(t, LinkCount') /\ Keeps(fs, t, d)
  BY DEF Lands
<1>3. /\ PointersOK'
      /\ cwd'[p] = c /\ ofile'[p] = o /\ iat'[p] = a /\ cur'[p] = k /\ ip'[p] = j
      /\ \A q \in FsProcs \ {p} :
           /\ cwd'[q] = cwd[q] /\ ofile'[q] = ofile[q] /\ iat'[q] = iat[q]
           /\ cur'[q] = cur[q] /\ ip'[q] = ip[q]
  BY <1>1, <1>2, MovesFacts
<1>4. F!RefsExact'
  BY <1>1, <1>2, RefsMove DEF Lands
<1>5. \A q \in FsProcs, x \in F!Inums :
        cwd[q] = x \/ ofile[q] = x \/ cur[q] = x \/ ip[q] = x => fs.ref[x] > 0
  BY <1>1, Held
<1>6. \A q \in FsProcs, x \in F!Inums :
        cwd'[q] = x \/ ofile'[q] = x \/ cur'[q] = x \/ ip'[q] = x => t.ref[x] > 0
  <2>1. (F!RefsExact =>
           \A q \in FsProcs, x \in F!Inums :
             cwd[q] = x \/ ofile[q] = x \/ cur[q] = x \/ ip[q] = x => fs.ref[x] > 0)'
    BY Held, PTL
  <2> QED BY <1>2, <1>4, <2>1
<1>7. ASSUME NEW x \in F!Inums, fs.ref[x] > 0, t.ref[x] > 0
      PROVE  /\ fs.type[x] # "none" => t.type[x] = fs.type[x]
             /\ fs.valid[x] => t.valid[x]
             /\ t.type[x] = "none" /\ x \in fs.stray => x \in t.stray
             /\ x # d => t.ent[x] = fs.ent[x]
  BY <1>2, <1>7 DEF Keeps
<1>8. \A q \in FsProcs \ {p} : Grip(q)'
  <2> SUFFICES ASSUME NEW q \in FsProcs, q # p
               PROVE  Grip(q)'
    OBVIOUS
  <2>1. /\ cwd'[q] = cwd[q] /\ ofile'[q] = ofile[q] /\ iat'[q] = iat[q]
        /\ cur'[q] = cur[q] /\ ip'[q] = ip[q]
    BY <1>3
  <2>2. iat[q] # "panic" /\ (iat[q] = "unlinkIp" => cur[q] # d)
    BY DEF F!Running, Lands
  <2>3. Grip(q)
    BY <1>1
  <2>4. \A x \in {cwd[q], ofile[q], cur[q], ip[q]} \cap F!Inums :
             /\ fs.type[x] # "none" => t.type[x] = fs.type[x]
             /\ fs.valid[x] => t.valid[x]
             /\ t.type[x] = "none" /\ x \in fs.stray => x \in t.stray
             /\ x # d => t.ent[x] = fs.ent[x]
    <3>1. \A x \in {cwd[q], ofile[q], cur[q], ip[q]} \cap F!Inums : fs.ref[x] > 0 /\ t.ref[x] > 0
      BY <1>5, <1>6, <2>1
    <3> QED BY <1>7, <3>1
  <2>5. cwd[q] \in F!Inums /\ {ofile[q], cur[q], ip[q]} \subseteq F!Inums \cup {F!Nil}
    BY <1>1 DEF PointersOK
  <2>6. t.type[cwd[q]] = "dir" /\ (cwd[q] # F!ROOTINO => t.valid[cwd[q]])
    BY <2>3, <2>4, <2>5 DEF Grip
  <2>7. ofile[q] # F!Nil => t.type[ofile[q]] # "none" /\ t.valid[ofile[q]]
    BY <2>3, <2>4, <2>5 DEF Grip
  <2>8. cur[q] # F!Nil /\ t.type[cur[q]] = "none" => cur[q] \in t.stray
    BY <2>3, <2>4, <2>5 DEF Grip
  <2>9. ip[q] # F!Nil /\ iat[q] # "unlinkIp" => t.type[ip[q]] = "file" /\ t.valid[ip[q]]
    BY <2>3, <2>4, <2>5 DEF Grip
  <2>10. iat[q] = "unlinkIp" =>
           /\ t.type[cur[q]] = "dir" /\ t.valid[cur[q]]
           /\ \E n \in Names : t.ent[cur[q]][n] = ip[q]
    BY <2>2, <2>3, <2>4, <2>5 DEF Grip
  <2>11. /\ iat[q] \in {"user", "linkBad"} <=> cur[q] = F!Nil
         /\ iat[q] \in {"user", "gotFile", "gotDir"} => ip[q] = F!Nil
         /\ iat[q] \in {"unlinkIp", "linkBad"} => ip[q] # F!Nil
    BY <2>3 DEF Grip
  <2> QED BY <1>2, <2>1, <2>2, <2>6, <2>7, <2>8, <2>9, <2>10, <2>11 DEF Grip
<1>9. Grip(p)'
  <2>1. Grip(p)
    BY <1>1
  <2>2. /\ cwd[p] \in F!Inums /\ {ofile[p], cur[p], ip[p]} \subseteq F!Inums \cup {F!Nil}
        /\ c \in F!Inums /\ {o, k, j} \subseteq F!Inums \cup {F!Nil}
    BY <1>1, <1>2 DEF PointersOK, Moves
  <2>3. \A x \in F!Inums : x \in {cwd[p], ofile[p], cur[p], ip[p]} /\ x \in {c, o, k, j} =>
             /\ fs.type[x] # "none" => t.type[x] = fs.type[x]
             /\ fs.valid[x] => t.valid[x]
             /\ t.type[x] = "none" /\ x \in fs.stray => x \in t.stray
    <3>1. \A x \in F!Inums : x \in {cwd[p], ofile[p], cur[p], ip[p]} => fs.ref[x] > 0
      BY <1>5
    <3>2. \A x \in F!Inums : x \in {c, o, k, j} => t.ref[x] > 0
      BY <1>3, <1>6
    <3> QED BY <1>7, <3>1, <3>2
  <2>4. t.type[c] = "dir" /\ (c # F!ROOTINO => t.valid[c])
    BY <2>1, <2>2, <2>3 DEF Grip, Grips
  <2>5. o # F!Nil => t.type[o] # "none" /\ t.valid[o]
    BY <2>1, <2>2, <2>3 DEF Grip, Grips
  <2>6. k # F!Nil /\ t.type[k] = "none" => k \in t.stray
    BY <2>1, <2>2, <2>3 DEF Grip, Grips
  <2>7. j # F!Nil /\ a # "unlinkIp" => t.type[j] = "file" /\ t.valid[j]
    BY <2>1, <2>2, <2>3 DEF Grip, Grips
  <2>8. /\ a \in {"user", "linkBad"} <=> k = F!Nil
        /\ a \in {"user", "gotFile", "gotDir"} => j = F!Nil
        /\ a \in {"unlinkIp", "linkBad"} => j # F!Nil
        /\ a = "panic" => t.type[k] = "none"
        /\ a = "unlinkIp" => t.type[k] = "dir" /\ t.valid[k] /\ \E n \in Names : t.ent[k][n] = j
    BY DEF Grips
  <2> QED BY <1>2, <1>3, <2>4, <2>5, <2>6, <2>7, <2>8 DEF Grip
<1>10. Apart'
  <2>1. \A q \in FsProcs \ {p} : iat[q] = "unlinkIp" /\ a = "unlinkIp" => cur[q] # k
    BY DEF Lands
  <2> QED BY <1>1, <1>3, <2>1 DEF Apart
<1>11. InodesGood(fs, LinkCount)'
  BY <1>2
<1> QED BY <1>3, <1>4, <1>8, <1>9, <1>10, <1>11 DEF InodesInv
-----------------------------------------------------------------------------
(* The links that are being made if that of p is m.                        *)
LinksWith(p, m) ==
  [x \in F!Inums |-> LinkCount[x] - (IF iat[p] # "unlinkIp" /\ ip[p] = x THEN 1 ELSE 0) + (IF m = x THEN 1 ELSE 0)]

(* In the middle of a step of p, with references to i, k and m for what    *)
(* cur and ip were; m has a link more than names.                          *)
Working(p, s, d, i, k, m) ==
  /\ {i, k, m} \subseteq F!Inums \cup {F!Nil}
  /\ InodesGood(s, LinksWith(p, m)) /\ Keeps(fs, s, d)
  /\ \A x \in F!Inums : s.ref[x] = fs.ref[x] - (IF cur[p] = x THEN 1 ELSE 0) - (IF ip[p] = x THEN 1 ELSE 0)
       + (IF i = x THEN 1 ELSE 0) + (IF k = x THEN 1 ELSE 0) + (IF m = x THEN 1 ELSE 0)
  /\ \A q \in FsProcs \ {p} : iat[q] = "unlinkIp" => cur[q] # d

(* The invariant, by its parts.                                            *)
LEMMA Before ==
  ASSUME InodesInv, NEW p \in FsProcs
  PROVE  /\ cwd[p] \in F!Inums /\ {ofile[p], cur[p], ip[p]} \subseteq F!Inums \cup {F!Nil} /\ iat[p] \in CallPlaces
         /\ InodesGood(fs, LinkCount) /\ fs \in FsType /\ fs.ref \in [F!Inums -> Nat]
         /\ PointersOK /\ F!RefsExact /\ Grip(p)
BY DEF InodesInv, PointersOK, InodesGood, FsType

(* References are at least the links that are being made, without those of *)
(* p and the link that it makes too.                                       *)
LEMMA Base ==
  ASSUME InodesInv, NEW p \in FsProcs, NEW x \in F!Inums
  PROVE  /\ fs.ref[x] \in Nat /\ LinkCount[x] \in Nat
         /\ iat[p] # "unlinkIp" /\ ip[p] = x => LinkCount[x] > 0
         /\ fs.ref[x] - (IF cur[p] = x THEN 1 ELSE 0) - (IF ip[p] = x THEN 1 ELSE 0)
              >= LinkCount[x] - (IF iat[p] # "unlinkIp" /\ ip[p] = x THEN 1 ELSE 0)
<1> DEFINE I == {r \in FsProcs : ip[r] = x}
           L == {r \in FsProcs : Linking[r] = x}
<1>0. F!RefsExact /\ fs.ref[x] \in Nat
  BY Before
<1>1. fs.ref[x] = PointsTo(cwd, x) + PointsTo(ofile, x) + PointsTo(cur, x) + PointsTo(ip, x)
  BY <1>0, RefsAre
<1>2. PointsTo(cwd, x) \in Nat /\ PointsTo(ofile, x) \in Nat
  BY CountType
<1>3. PointsTo(cur, x) \in Nat /\ (cur[p] = x => PointsTo(cur, x) > 0)
  BY CountType
<1>4. PointsTo(ip, x) \in Nat /\ PointsTo(Linking, x) \in Nat /\ (ip[p] = x => PointsTo(ip, x) > 0)
  BY CountType
<1>5. iat[p] # "unlinkIp" /\ ip[p] = x => PointsTo(Linking, x) > 0
  <2>1. iat[p] # "unlinkIp" /\ ip[p] = x => Linking[p] = x
    BY DEF Linking
  <2> QED BY <2>1, CountType
<1>6. L \subseteq I /\ (ip[p] = x /\ iat[p] = "unlinkIp" => L # I)
  BY InodeNumbers DEF Linking
<1>7. Cardinality(L) <= Cardinality(I) /\ (L # I => Cardinality(L) # Cardinality(I))
  <2>1. IsFiniteSet(I)
    BY InodeNumbers, FS_Subset
  <2> HIDE DEF I, L
  <2> QED BY <1>6, <2>1, FS_Subset
<1>8. LinkCount[x] = PointsTo(Linking, x) /\ PointsTo(Linking, x) = Cardinality(L) /\ PointsTo(ip, x) = Cardinality(I)
  BY DEF LinkCount, PointsTo
<1>9. /\ LinkCount[x] <= PointsTo(ip, x)
      /\ ip[p] = x /\ iat[p] = "unlinkIp" => LinkCount[x] < PointsTo(ip, x)
  <2> HIDE DEF I, L
  <2> QED BY <1>4, <1>6, <1>7, <1>8
<1> HIDE DEF I, L
<1> QED BY <1>0, <1>1, <1>2, <1>3, <1>4, <1>5, <1>8, <1>9

(* They are numbers.                                                       *)
LEMMA LinksWithType ==
  ASSUME InodesInv, NEW p \in FsProcs, NEW m
  PROVE  LinksWith(p, m) \in [F!Inums -> Nat]
<1>1. \A x \in F!Inums : LinkCount[x] - (IF iat[p] # "unlinkIp" /\ ip[p] = x THEN 1 ELSE 0) + (IF m = x THEN 1 ELSE 0) \in Nat
  <2> SUFFICES ASSUME NEW x \in F!Inums
               PROVE  LinkCount[x] - (IF iat[p] # "unlinkIp" /\ ip[p] = x THEN 1 ELSE 0) + (IF m = x THEN 1 ELSE 0) \in Nat
    OBVIOUS
  <2>1. LinkCount[x] \in Nat /\ (iat[p] # "unlinkIp" /\ ip[p] = x => LinkCount[x] > 0)
    BY Base
  <2> QED BY <2>1
<1> QED BY <1>1 DEF LinksWith

(* Who works on inodes has them.                                           *)
LEMMA WorkHolds ==
  ASSUME InodesInv, NEW p \in FsProcs, NEW s, NEW d, NEW i, NEW k, NEW m, Working(p, s, d, i, k, m), NEW x \in F!Inums
  PROVE  /\ s.ref[x] \in Nat
         /\ x \in {i, k} => s.ref[x] > LinksWith(p, m)[x]
         /\ x \in {i, k, m} => s.ref[x] > 0
<1>1. /\ fs.ref[x] \in Nat /\ LinkCount[x] \in Nat
      /\ iat[p] # "unlinkIp" /\ ip[p] = x => LinkCount[x] > 0
      /\ fs.ref[x] - (IF cur[p] = x THEN 1 ELSE 0) - (IF ip[p] = x THEN 1 ELSE 0)
           >= LinkCount[x] - (IF iat[p] # "unlinkIp" /\ ip[p] = x THEN 1 ELSE 0)
  BY Base
<1>2. s.ref[x] = fs.ref[x] - (IF cur[p] = x THEN 1 ELSE 0) - (IF ip[p] = x THEN 1 ELSE 0)
       + (IF i = x THEN 1 ELSE 0) + (IF k = x THEN 1 ELSE 0) + (IF m = x THEN 1 ELSE 0)
  BY DEF Working
<1>3. LinksWith(p, m)[x] = LinkCount[x] - (IF iat[p] # "unlinkIp" /\ ip[p] = x THEN 1 ELSE 0) + (IF m = x THEN 1 ELSE 0)
  BY DEF LinksWith
<1> QED BY <1>1, <1>2, <1>3

(* At the start of a step, p works with what it has.                       *)
LEMMA WorkStarts ==
  ASSUME InodesInv, NEW p \in FsProcs
  PROVE  /\ iat[p] = "unlinkIp" => Working(p, fs, F!Nil, cur[p], ip[p], F!Nil)
         /\ iat[p] # "unlinkIp" => Working(p, fs, F!Nil, cur[p], F!Nil, ip[p])
<1>1. /\ {cur[p], ip[p]} \subseteq F!Inums \cup {F!Nil} /\ InodesGood(fs, LinkCount) /\ fs.ref \in [F!Inums -> Nat]
  BY Before
<1>2. Keeps(fs, fs, F!Nil)
  BY DEF Keeps
<1>3. \A q \in FsProcs : iat[q] = "unlinkIp" => cur[q] # F!Nil
  BY DEF InodesInv, Grip
<1>4. \A x \in F!Inums : x # F!Nil /\ fs.ref[x] \in Int /\ LinkCount[x] \in Int
  BY <1>1, LinkCountType, InodeNumbers
<1>5. ASSUME NEW m, m = IF iat[p] = "unlinkIp" THEN F!Nil ELSE ip[p]
      PROVE  LinksWith(p, m) = LinkCount
  <2>1. \A x \in F!Inums : LinksWith(p, m)[x] = LinkCount[x]
    BY <1>4, <1>5 DEF LinksWith
  <2>2. LinkCount = [x \in F!Inums |-> LinkCount[x]] /\ LinksWith(p, m) = [x \in F!Inums |-> LinksWith(p, m)[x]]
    BY DEF LinkCount, LinksWith
  <2> QED BY <2>1, <2>2
<1>6. CASE iat[p] = "unlinkIp"
  <2>1. LinksWith(p, F!Nil) = LinkCount
    BY <1>5, <1>6
  <2>2. \A x \in F!Inums : fs.ref[x] = fs.ref[x] - (IF cur[p] = x THEN 1 ELSE 0) - (IF ip[p] = x THEN 1 ELSE 0)
          + (IF cur[p] = x THEN 1 ELSE 0) + (IF ip[p] = x THEN 1 ELSE 0) + (IF F!Nil = x THEN 1 ELSE 0)
    BY <1>4
  <2> QED BY <1>1, <1>2, <1>3, <1>6, <2>1, <2>2 DEF Working
<1>7. CASE iat[p] # "unlinkIp"
  <2>1. LinksWith(p, ip[p]) = LinkCount
    BY <1>5, <1>7
  <2>2. \A x \in F!Inums : fs.ref[x] = fs.ref[x] - (IF cur[p] = x THEN 1 ELSE 0) - (IF ip[p] = x THEN 1 ELSE 0)
          + (IF cur[p] = x THEN 1 ELSE 0) + (IF F!Nil = x THEN 1 ELSE 0) + (IF ip[p] = x THEN 1 ELSE 0)
    BY <1>4
  <2> QED BY <1>1, <1>2, <1>3, <1>7, <2>1, <2>2 DEF Working
<1> QED BY <1>6, <1>7

(* The order in which two references are named does not matter.            *)
LEMMA WorkSwaps ==
  ASSUME NEW p, NEW s, NEW d, NEW i, NEW k, NEW m, Working(p, s, d, i, k, m), fs \in FsType
  PROVE  Working(p, s, d, k, i, m)
<1>1. \A x \in F!Inums : fs.ref[x] \in Int
  BY DEF FsType
<1>2. \A x \in F!Inums : s.ref[x] = fs.ref[x] - (IF cur[p] = x THEN 1 ELSE 0) - (IF ip[p] = x THEN 1 ELSE 0)
       + (IF k = x THEN 1 ELSE 0) + (IF i = x THEN 1 ELSE 0) + (IF m = x THEN 1 ELSE 0)
  BY <1>1 DEF Working
<1> QED BY <1>2 DEF Working

(* The lock, which reads the inode, and the note of what is free.          *)
LEMMA WorkLocks ==
  ASSUME InodesInv, NEW p \in FsProcs, NEW s, NEW d, NEW i, NEW k, NEW m, Working(p, s, d, i, k, m), NEW x \in F!Inums
  PROVE  /\ Working(p, F!Ilock(s, x), d, i, k, m)
         /\ F!Ilock(s, x).ref = s.ref /\ F!Ilock(s, x).valid[x] /\ SameDisk(s, F!Ilock(s, x))
<1> DEFINE t == F!Ilock(s, x)
<1>1. InodesGood(s, LinksWith(p, m)) /\ Keeps(fs, s, d)
  BY DEF Working
<1>2. /\ InodesGood(t, LinksWith(p, m)) /\ \A e : Keeps(s, t, e)
      /\ t.ref = s.ref /\ t.valid[x] /\ SameDisk(s, t)
  BY <1>1, IlockGood
<1> HIDE DEF t
<1>3. Keeps(fs, t, d)
  BY <1>1, <1>2, KeepsTrans
<1>4. Working(p, t, d, i, k, m)
  BY <1>2, <1>3 DEF Working
<1> QED BY <1>2, <1>4 DEF t

(* The note of a free inode.                                               *)
LEMMA WorkStrays ==
  ASSUME InodesInv, NEW p \in FsProcs, NEW s, NEW d, NEW i, NEW k, NEW m, Working(p, s, d, i, k, m), NEW x \in F!Inums
  PROVE  /\ Working(p, F!Strays(s, x), d, i, k, m)
         /\ F!Strays(s, x).ref = s.ref /\ F!Strays(s, x).valid = s.valid /\ SameDisk(s, F!Strays(s, x))
         /\ s.type[x] = "none" => x \in F!Strays(s, x).stray
<1> DEFINE t == F!Strays(s, x)
<1>1. InodesGood(s, LinksWith(p, m)) /\ Keeps(fs, s, d)
  BY DEF Working
<1>2. /\ InodesGood(t, LinksWith(p, m)) /\ \A e : Keeps(s, t, e)
      /\ t.ref = s.ref /\ SameDisk(s, t) /\ t.valid = s.valid
      /\ s.type[x] = "none" => x \in t.stray
  BY <1>1, StraysGood
<1> HIDE DEF t
<1>3. Keeps(fs, t, d)
  BY <1>1, <1>2, KeepsTrans
<1>4. Working(p, t, d, i, k, m)
  BY <1>2, <1>3 DEF Working
<1> QED BY <1>2, <1>4 DEF t

(* A reference more.                                                       *)
LEMMA WorkGets ==
  ASSUME InodesInv, NEW p \in FsProcs, NEW s, NEW d, NEW i, NEW m, Working(p, s, d, i, F!Nil, m), NEW x \in F!Inums,
         \A y \in F!Inums : s.ref[y] >= fs.ref[y]
  PROVE  /\ Working(p, F!Iget(s, x), d, i, x, m) /\ SameDisk(s, F!Iget(s, x))
         /\ F!Iget(s, x).stray = s.stray /\ F!Iget(s, x).ref[x] = s.ref[x] + 1
         /\ \A y \in F!Inums : y # x => F!Iget(s, x).valid[y] = s.valid[y]
         /\ s.ref[x] > 0 => F!Iget(s, x).valid[x] = s.valid[x]
<1> DEFINE t == F!Iget(s, x)
<1>1. InodesGood(s, LinksWith(p, m)) /\ Keeps(fs, s, d) /\ s \in FsType
  BY DEF Working, InodesGood
<1>2. InodesGood(t, LinksWith(p, m)) /\ (\A e : Keeps(s, t, e)) /\ t.ref = [s.ref EXCEPT ![x] = @ + 1]
  BY <1>1, IgetGood
<1>3. SameDisk(s, t) /\ t.stray = s.stray /\ t.valid = [s.valid EXCEPT ![x] = @ /\ s.ref[x] > 0]
  BY <1>1, IgetFields
<1> HIDE DEF t
<1>4. \A y \in F!Inums : fs.ref[y] \in Nat /\ s.ref[y] \in Nat
  BY <1>1, Before DEF FsType
<1>5. Keeps(fs, t, d)
  <2>1. \A y \in F!Inums : fs.ref[y] > 0 /\ t.ref[y] > 0 => s.ref[y] > 0
    BY <1>4
  <2> QED BY <1>1, <1>2, <2>1, KeepsTrans
<1>6. \A y \in F!Inums : t.ref[y] = s.ref[y] + (IF x = y THEN 1 ELSE 0)
  BY <1>1, <1>2, <1>4 DEF FsType
<1>7. Working(p, t, d, i, x, m)
  <2> SUFFICES ASSUME NEW y \in F!Inums
               PROVE  t.ref[y] = fs.ref[y] - (IF cur[p] = y THEN 1 ELSE 0) - (IF ip[p] = y THEN 1 ELSE 0)
                        + (IF i = y THEN 1 ELSE 0) + (IF x = y THEN 1 ELSE 0) + (IF m = y THEN 1 ELSE 0)
    BY <1>2, <1>5 DEF Working
  <2>1. s.ref[y] = fs.ref[y] - (IF cur[p] = y THEN 1 ELSE 0) - (IF ip[p] = y THEN 1 ELSE 0)
          + (IF i = y THEN 1 ELSE 0) + (IF F!Nil = y THEN 1 ELSE 0) + (IF m = y THEN 1 ELSE 0)
    BY DEF Working
  <2> QED BY <1>4, <1>6, <2>1, InodeNumbers
<1>8. /\ \A y \in F!Inums : y # x => t.valid[y] = s.valid[y]
      /\ s.ref[x] > 0 => t.valid[x] = s.valid[x]
  BY <1>1, <1>3 DEF FsType
<1>9. t.ref[x] = s.ref[x] + 1
  BY <1>6
<1> QED BY <1>3, <1>7, <1>8, <1>9 DEF t

(* A reference less.                                                       *)
LEMMA WorkPuts ==
  ASSUME InodesInv, NEW p \in FsProcs, NEW s, NEW d, NEW i \in F!Inums, NEW k, NEW m, Working(p, s, d, i, k, m),
         s.valid[i] \/ s.type[i] = "none" \/ s.nlink[i] > 0
  PROVE  /\ Working(p, F!Iput(s, i), d, F!Nil, k, m)
         /\ \A e : Keeps(s, F!Iput(s, i), e)
         /\ \A x \in F!Inums : x # i => F!Iput(s, i).ref[x] = s.ref[x]
<1> DEFINE t == F!Iput(s, i)
<1>1. InodesGood(s, LinksWith(p, m)) /\ Keeps(fs, s, d) /\ s \in FsType
  BY DEF Working, InodesGood
<1>2. s.ref[i] > LinksWith(p, m)[i] /\ LinksWith(p, m) \in [F!Inums -> Nat]
  BY WorkHolds, LinksWithType
<1>3. InodesGood(t, LinksWith(p, m)) /\ (\A e : Keeps(s, t, e)) /\ t.ref = [s.ref EXCEPT ![i] = @ - 1]
  BY <1>1, <1>2, IputGood
<1> HIDE DEF t
<1>4. \A y \in F!Inums : fs.ref[y] \in Nat /\ s.ref[y] \in Nat
  BY <1>1, Before DEF FsType
<1>5. \A y \in F!Inums : t.ref[y] = s.ref[y] - (IF i = y THEN 1 ELSE 0)
  BY <1>1, <1>3, <1>4 DEF FsType
<1>6. Keeps(fs, t, d)
  <2>1. \A y \in F!Inums : fs.ref[y] > 0 /\ t.ref[y] > 0 => s.ref[y] > 0
    BY <1>4, <1>5
  <2> QED BY <1>1, <1>3, <2>1, KeepsTrans
<1>7. Working(p, t, d, F!Nil, k, m)
  <2> SUFFICES ASSUME NEW y \in F!Inums
               PROVE  t.ref[y] = fs.ref[y] - (IF cur[p] = y THEN 1 ELSE 0) - (IF ip[p] = y THEN 1 ELSE 0)
                        + (IF F!Nil = y THEN 1 ELSE 0) + (IF k = y THEN 1 ELSE 0) + (IF m = y THEN 1 ELSE 0)
    BY <1>3, <1>6 DEF Working
  <2>1. s.ref[y] = fs.ref[y] - (IF cur[p] = y THEN 1 ELSE 0) - (IF ip[p] = y THEN 1 ELSE 0)
          + (IF i = y THEN 1 ELSE 0) + (IF k = y THEN 1 ELSE 0) + (IF m = y THEN 1 ELSE 0)
    BY DEF Working
  <2> QED BY <1>4, <1>5, <2>1, InodeNumbers
<1>8. \A x \in F!Inums : x # i => t.ref[x] = s.ref[x]
  BY <1>4, <1>5
<1> QED BY <1>3, <1>7, <1>8 DEF t

(* The step is done: p has what it has worked with in its variables.       *)
LEMMA WorkEnds ==
  ASSUME InodesInv, F!Running, NEW p \in FsProcs, NEW t, NEW d, NEW i, NEW k, NEW m, Working(p, t, d, i, k, m),
         fs' = t, NEW c, NEW o, NEW a, NEW u, NEW v, Moves(p, c, o, a, u, v), Grips(p, t, c, o, a, u, v),
         \A x \in F!Inums :
           Grasp(x, c, o, u, v) = Grasp(x, cwd[p], ofile[p], F!Nil, F!Nil)
             + (IF i = x THEN 1 ELSE 0) + (IF k = x THEN 1 ELSE 0) + (IF m = x THEN 1 ELSE 0),
         m = IF a = "unlinkIp" THEN F!Nil ELSE v,
         a = "unlinkIp" => \A q \in FsProcs \ {p} : iat[q] = "unlinkIp" => cur[q] # u
  PROVE  InodesInv'
<1>1. PointersOK /\ fs.ref \in [F!Inums -> Nat]
  BY Before
<1>2. LinkCount' = LinksWith(p, m)
  <2>1. \A x \in F!Inums : LinkCount'[x] = LinkCount[x]
           - (IF iat[p] # "unlinkIp" /\ ip[p] = x THEN 1 ELSE 0) + (IF a # "unlinkIp" /\ v = x THEN 1 ELSE 0)
    BY <1>1, LinkCountMoves
  <2>2. \A x \in F!Inums : LinksWith(p, m)[x] = LinkCount[x]
           - (IF iat[p] # "unlinkIp" /\ ip[p] = x THEN 1 ELSE 0) + (IF m = x THEN 1 ELSE 0)
    BY DEF LinksWith
  <2>3. \A x \in F!Inums : LinkCount'[x] = LinksWith(p, m)[x]
    <3> SUFFICES ASSUME NEW x \in F!Inums
                 PROVE  (a # "unlinkIp" /\ v = x) <=> m = x
      BY <2>1, <2>2
    <3> QED BY InodeNumbers
  <2>4. LinkCount' = [x \in F!Inums |-> LinkCount'[x]] /\ LinksWith(p, m) = [x \in F!Inums |-> LinksWith(p, m)[x]]
    BY DEF LinkCount, LinksWith
  <2> QED BY <2>3, <2>4
<1>3. \A x \in F!Inums : t.ref[x] = fs.ref[x] - Grasp(x, cwd[p], ofile[p], cur[p], ip[p]) + Grasp(x, c, o, u, v)
  <2> SUFFICES ASSUME NEW x \in F!Inums
               PROVE  t.ref[x] = fs.ref[x] - Grasp(x, cwd[p], ofile[p], cur[p], ip[p]) + Grasp(x, c, o, u, v)
    OBVIOUS
  <2>1. t.ref[x] = fs.ref[x] - (IF cur[p] = x THEN 1 ELSE 0) - (IF ip[p] = x THEN 1 ELSE 0)
          + (IF i = x THEN 1 ELSE 0) + (IF k = x THEN 1 ELSE 0) + (IF m = x THEN 1 ELSE 0)
    BY DEF Working
  <2>2. Grasp(x, c, o, u, v) = Grasp(x, cwd[p], ofile[p], F!Nil, F!Nil)
             + (IF i = x THEN 1 ELSE 0) + (IF k = x THEN 1 ELSE 0) + (IF m = x THEN 1 ELSE 0)
    OBVIOUS
  <2>3. Grasp(x, cwd[p], ofile[p], cur[p], ip[p]) = Grasp(x, cwd[p], ofile[p], F!Nil, F!Nil)
          + (IF cur[p] = x THEN 1 ELSE 0) + (IF ip[p] = x THEN 1 ELSE 0)
    BY InodeNumbers DEF Grasp
  <2>4. fs.ref[x] \in Nat /\ Grasp(x, cwd[p], ofile[p], F!Nil, F!Nil) \in Nat
    BY <1>1 DEF Grasp
  <2> QED BY <2>1, <2>2, <2>3, <2>4
<1>4. Lands(p, t, d, LinksWith(p, m), c, o, a, u, v)
  <2>1. InodesGood(t, LinksWith(p, m)) /\ Keeps(fs, t, d) /\ \A q \in FsProcs \ {p} : iat[q] = "unlinkIp" => cur[q] # d
    BY DEF Working
  <2> QED BY <1>2, <1>3, <2>1 DEF Lands
<1> QED BY <1>4, CallStep
-----------------------------------------------------------------------------
(* How the steps of a call end.                                            *)
LEMMA StepMoves ==
  ASSUME InodesInv, NEW p \in FsProcs, NEW t, NEW a \in CallPlaces, NEW u, NEW v,
         {u, v} \subseteq F!Inums \cup {F!Nil}, F!Next1(p, t, a, u), ip' = [ip EXCEPT ![p] = v],
         UNCHANGED cwd, UNCHANGED ofile
  PROVE  fs' = t /\ Moves(p, cwd[p], ofile[p], a, u, v)
<1>1. PointersOK /\ cwd[p] \in F!Inums /\ ofile[p] \in F!Inums \cup {F!Nil}
  BY Before
<1>2. cwd' = [cwd EXCEPT ![p] = cwd[p]] /\ ofile' = [ofile EXCEPT ![p] = ofile[p]]
  BY <1>1 DEF PointersOK
<1>3. fs' = t /\ iat' = [iat EXCEPT ![p] = a] /\ cur' = [cur EXCEPT ![p] = u]
  BY DEF F!Next1
<1> QED BY <1>1, <1>2, <1>3 DEF Moves

(* The call goes on with another inode.                                    *)
LEMMA WalkGoesOn ==
  ASSUME InodesInv, F!Running, NEW p \in FsProcs, NEW t, NEW d, NEW u \in F!Inums, NEW m, NEW a, Working(p, t, d, u, F!Nil, m),
         F!Next1(p, t, a, u), ip' = [ip EXCEPT ![p] = m], UNCHANGED cwd, UNCHANGED ofile,
         a = "walk" \/ (a \in {"gotFile", "gotDir"} /\ m = F!Nil),
         t.type[u] = "none" => u = cur[p] \/ u \in t.stray,
         m = F!Nil \/ (m = ip[p] /\ iat[p] # "unlinkIp") \/ (t.type[m] = "file" /\ t.valid[m])
  PROVE  InodesInv'
<1>1. m \in F!Inums \cup {F!Nil} /\ u # F!Nil
  BY InodeNumbers DEF Working
<1>2. a \in CallPlaces /\ a # "unlinkIp"
  BY DEF CallPlaces
<1>3. fs' = t /\ Moves(p, cwd[p], ofile[p], a, u, m)
  BY <1>1, <1>2, StepMoves
<1>4. Grips(p, t, cwd[p], ofile[p], a, u, m)
  BY <1>1 DEF Grips
<1>5. \A x \in F!Inums :
        Grasp(x, cwd[p], ofile[p], u, m) = Grasp(x, cwd[p], ofile[p], F!Nil, F!Nil)
             + (IF u = x THEN 1 ELSE 0) + (IF F!Nil = x THEN 1 ELSE 0) + (IF m = x THEN 1 ELSE 0)
  BY InodeNumbers DEF Grasp
<1>6. m = IF a = "unlinkIp" THEN F!Nil ELSE m
  BY <1>2
<1> QED BY <1>2, <1>3, <1>4, <1>5, <1>6, WorkEnds

(* A call that is over and has let go of everything.                       *)
LEMMA Ends ==
  ASSUME InodesInv, F!Running, NEW p \in FsProcs, NEW t, NEW d, Working(p, t, d, F!Nil, F!Nil, F!Nil),
         F!End(p, t), UNCHANGED cwd, UNCHANGED ofile
  PROVE  InodesInv'
<1>1. "user" \in CallPlaces /\ F!Next1(p, t, "user", F!Nil) /\ ip' = [ip EXCEPT ![p] = F!Nil]
  BY DEF CallPlaces, F!End
<1>2. fs' = t /\ Moves(p, cwd[p], ofile[p], "user", F!Nil, F!Nil)
  BY <1>1, StepMoves
<1>3. Grips(p, t, cwd[p], ofile[p], "user", F!Nil, F!Nil)
  BY DEF Grips
<1>4. \A x \in F!Inums :
        Grasp(x, cwd[p], ofile[p], F!Nil, F!Nil) = Grasp(x, cwd[p], ofile[p], F!Nil, F!Nil)
             + (IF F!Nil = x THEN 1 ELSE 0) + (IF F!Nil = x THEN 1 ELSE 0) + (IF F!Nil = x THEN 1 ELSE 0)
  BY InodeNumbers DEF Grasp
<1>5. F!Nil = IF "user" = "unlinkIp" THEN F!Nil ELSE F!Nil
  OBVIOUS
<1>6. "user" # "unlinkIp"
  OBVIOUS
<1> QED BY <1>2, <1>3, <1>4, <1>5, <1>6, WorkEnds

(* A call that fails.                                                      *)
LEMMA FailsEnds ==
  ASSUME InodesInv, F!Running, NEW p \in FsProcs, NEW t, NEW d, Working(p, t, d, F!Nil, F!Nil, ip[p]),
         iat[p] # "unlinkIp", F!Fails(p, t), UNCHANGED cwd, UNCHANGED ofile
  PROVE  InodesInv'
<1>1. CASE ip[p] = F!Nil
  <2>1. F!End(p, t)
    BY <1>1 DEF F!Fails
  <2> QED BY <1>1, <2>1, Ends
<1>2. CASE ip[p] # F!Nil
  <2>1. F!Next1(p, t, "linkBad", F!Nil) /\ UNCHANGED ip
    BY <1>2 DEF F!Fails
  <2>2. ip' = [ip EXCEPT ![p] = ip[p]] /\ ip[p] \in F!Inums \cup {F!Nil} /\ "linkBad" \in CallPlaces
    BY <2>1, Before DEF PointersOK, CallPlaces
  <2>3. fs' = t /\ Moves(p, cwd[p], ofile[p], "linkBad", F!Nil, ip[p])
    BY <2>1, <2>2, StepMoves
  <2>4. Grips(p, t, cwd[p], ofile[p], "linkBad", F!Nil, ip[p])
    BY <1>2 DEF Grips
  <2>5. \A x \in F!Inums :
          Grasp(x, cwd[p], ofile[p], F!Nil, ip[p]) = Grasp(x, cwd[p], ofile[p], F!Nil, F!Nil)
             + (IF F!Nil = x THEN 1 ELSE 0) + (IF F!Nil = x THEN 1 ELSE 0) + (IF ip[p] = x THEN 1 ELSE 0)
    BY InodeNumbers DEF Grasp
  <2>6. ip[p] = (IF "linkBad" = "unlinkIp" THEN F!Nil ELSE ip[p]) /\ "linkBad" # "unlinkIp"
    OBVIOUS
  <2> QED BY <2>3, <2>4, <2>5, <2>6, WorkEnds
<1> QED BY <1>1, <1>2

(* A call that leaves an open file.                                        *)
LEMMA OpenedEnds ==
  ASSUME InodesInv, F!Running, NEW p \in FsProcs, NEW s, NEW d, NEW i \in F!Inums, Working(p, s, d, i, F!Nil, F!Nil),
         s.valid[i], s.type[i] # "none", F!Opened(p, s, i), UNCHANGED cwd
  PROVE  InodesInv'
<1>1. CASE F!End(p, F!Iput(s, i)) /\ UNCHANGED ofile
  <2>1. Working(p, F!Iput(s, i), d, F!Nil, F!Nil, F!Nil)
    BY WorkPuts
  <2> QED BY <1>1, <2>1, Ends
<1>2. CASE ofile[p] = F!Nil /\ F!End(p, s) /\ ofile' = [ofile EXCEPT ![p] = i]
  <2>1. PointersOK /\ cwd[p] \in F!Inums
    BY Before
  <2>2. fs' = s /\ Moves(p, cwd[p], i, "user", F!Nil, F!Nil)
    <3>1. cwd' = [cwd EXCEPT ![p] = cwd[p]]
      BY <2>1 DEF PointersOK
    <3>2. fs' = s /\ iat' = [iat EXCEPT ![p] = "user"] /\ cur' = [cur EXCEPT ![p] = F!Nil] /\ ip' = [ip EXCEPT ![p] = F!Nil]
      BY <1>2 DEF F!End, F!Next1
    <3> QED BY <1>2, <2>1, <3>1, <3>2 DEF Moves, CallPlaces
  <2>3. Grips(p, s, cwd[p], i, "user", F!Nil, F!Nil)
    BY DEF Grips
  <2>4. \A x \in F!Inums :
          Grasp(x, cwd[p], i, F!Nil, F!Nil) = Grasp(x, cwd[p], ofile[p], F!Nil, F!Nil)
             + (IF i = x THEN 1 ELSE 0) + (IF F!Nil = x THEN 1 ELSE 0) + (IF F!Nil = x THEN 1 ELSE 0)
    BY <1>2, InodeNumbers DEF Grasp
  <2>5. F!Nil = (IF "user" = "unlinkIp" THEN F!Nil ELSE F!Nil) /\ "user" # "unlinkIp"
    OBVIOUS
  <2> QED BY <2>2, <2>3, <2>4, <2>5, WorkEnds
<1> QED BY <1>1, <1>2 DEF F!Opened

(* A lock of an inode that is free.                                        *)
LEMMA PanicEnds ==
  ASSUME InodesInv, F!Running, NEW p \in FsProcs, iat[p] \in {"walk", "gotFile", "gotDir"},
         F!NoType(cur[p]), F!Panic(p)
  PROVE  InodesInv'
<1>1. /\ PointersOK /\ Grip(p) /\ {cur[p], ip[p]} \subseteq F!Inums \cup {F!Nil}
      /\ cwd[p] \in F!Inums /\ ofile[p] \in F!Inums \cup {F!Nil}
  BY Before
<1>2. cur[p] # F!Nil
  BY <1>1 DEF Grip
<1>3. Working(p, fs, F!Nil, cur[p], F!Nil, ip[p])
  BY WorkStarts
<1>4. fs' = fs /\ Moves(p, cwd[p], ofile[p], "panic", cur[p], ip[p])
  <2>1. iat' = [iat EXCEPT ![p] = "panic"] /\ fs' = fs /\ cwd' = cwd /\ ofile' = ofile /\ cur' = cur /\ ip' = ip
    BY DEF F!Panic
  <2>2. /\ cwd' = [cwd EXCEPT ![p] = cwd[p]] /\ ofile' = [ofile EXCEPT ![p] = ofile[p]]
        /\ cur' = [cur EXCEPT ![p] = cur[p]] /\ ip' = [ip EXCEPT ![p] = ip[p]]
    BY <1>1, <2>1 DEF PointersOK
  <2> QED BY <1>1, <2>1, <2>2 DEF Moves, CallPlaces
<1>5. fs.type[cur[p]] = "none"
  BY DEF F!NoType
<1>6. Grips(p, fs, cwd[p], ofile[p], "panic", cur[p], ip[p])
  BY <1>2, <1>5 DEF Grips
<1>7. \A x \in F!Inums :
        Grasp(x, cwd[p], ofile[p], cur[p], ip[p]) = Grasp(x, cwd[p], ofile[p], F!Nil, F!Nil)
           + (IF cur[p] = x THEN 1 ELSE 0) + (IF F!Nil = x THEN 1 ELSE 0) + (IF ip[p] = x THEN 1 ELSE 0)
  BY InodeNumbers DEF Grasp
<1>8. ip[p] = (IF "panic" = "unlinkIp" THEN F!Nil ELSE ip[p]) /\ "panic" # "unlinkIp"
  OBVIOUS
<1> QED BY <1>3, <1>4, <1>6, <1>7, <1>8, WorkEnds
-----------------------------------------------------------------------------
(* What the larger steps do to the work.                                   *)
LEMMA WorkIn ==
  ASSUME NEW p, NEW s, NEW i, NEW k, NEW m, Working(p, s, F!Nil, i, k, m), NEW d,
         \A q \in FsProcs \ {p} : iat[q] = "unlinkIp" => cur[q] # d
  PROVE  Working(p, s, d, i, k, m)
<1>1. Keeps(fs, s, F!Nil)
  BY DEF Working
<1>2. Keeps(fs, s, d)
  BY <1>1, InodeNumbers DEF Keeps
<1> QED BY <1>2 DEF Working

(* The name that link has counted is made.                                 *)
LEMMA WorkEnters ==
  ASSUME InodesInv, NEW p \in FsProcs, NEW s, NEW d \in F!Inums, NEW i, NEW m \in F!Inums, Working(p, s, d, i, F!Nil, m),
         NEW n \in Names, s.type[d] = "dir", s.type[m] = "file", s.ent[d][n] = F!Nil
  PROVE  LET t == F!Enter(s, d, n, m) IN
         Working(p, t, d, i, m, F!Nil) /\ t.valid = s.valid /\ t.type = s.type
<1> DEFINE t == F!Enter(s, d, n, m)
           l == LinksWith(p, m)
<1>1. InodesGood(s, l) /\ Keeps(fs, s, d)
  BY DEF Working
<1>2. /\ l \in [F!Inums -> Nat] /\ LinksWith(p, F!Nil) \in [F!Inums -> Nat]
      /\ \A x \in F!Inums : LinkCount[x] \in Nat /\ fs.ref[x] \in Nat
  BY LinksWithType, Base
<1>3. \A x \in F!Inums : l[x] = LinksWith(p, F!Nil)[x] + (IF m = x THEN 1 ELSE 0)
  <2> SUFFICES ASSUME NEW x \in F!Inums
               PROVE  l[x] = LinksWith(p, F!Nil)[x] + (IF m = x THEN 1 ELSE 0)
    OBVIOUS
  <2>1. l[x] = LinkCount[x] - (IF iat[p] # "unlinkIp" /\ ip[p] = x THEN 1 ELSE 0) + (IF m = x THEN 1 ELSE 0)
    BY DEF LinksWith
  <2>2. LinksWith(p, F!Nil)[x] = LinkCount[x] - (IF iat[p] # "unlinkIp" /\ ip[p] = x THEN 1 ELSE 0) + (IF F!Nil = x THEN 1 ELSE 0)
    BY DEF LinksWith
  <2> QED BY <1>2, <2>1, <2>2, InodeNumbers
<1> HIDE DEF l
<1>5. /\ InodesGood(t, LinksWith(p, F!Nil)) /\ Keeps(s, t, d)
      /\ t.ref = s.ref /\ t.valid = s.valid /\ t.type = s.type
  <2> DEFINE h == LinksWith(p, F!Nil)
  <2>1. h \in [F!Inums -> Nat] /\ l[m] = h[m] + 1 /\ \A x \in F!Inums \ {m} : h[x] = l[x]
    BY <1>2, <1>3
  <2> HIDE DEF h
  <2>2. /\ InodesGood(t, h) /\ Keeps(s, t, d)
        /\ t.ref = s.ref /\ t.valid = s.valid /\ t.type = s.type
    BY <1>1, <1>2, <2>1, LinkedGood
  <2> QED BY <2>2 DEF h
<1> HIDE DEF t
<1>6. Keeps(fs, t, d)
  BY <1>1, <1>5, KeepsTrans
<1>7. Working(p, t, d, i, m, F!Nil)
  <2> SUFFICES ASSUME NEW y \in F!Inums
               PROVE  t.ref[y] = fs.ref[y] - (IF cur[p] = y THEN 1 ELSE 0) - (IF ip[p] = y THEN 1 ELSE 0)
                        + (IF i = y THEN 1 ELSE 0) + (IF m = y THEN 1 ELSE 0) + (IF F!Nil = y THEN 1 ELSE 0)
    BY <1>5, <1>6 DEF Working
  <2>1. s.ref[y] = fs.ref[y] - (IF cur[p] = y THEN 1 ELSE 0) - (IF ip[p] = y THEN 1 ELSE 0)
          + (IF i = y THEN 1 ELSE 0) + (IF F!Nil = y THEN 1 ELSE 0) + (IF m = y THEN 1 ELSE 0)
    BY DEF Working
  <2> QED BY <1>2, <1>5, <2>1, InodeNumbers
<1> QED BY <1>5, <1>7 DEF t

(* A new inode, and its name.                                              *)
LEMMA WorkMakes ==
  ASSUME InodesInv, NEW p \in FsProcs, NEW s, NEW d \in F!Inums, NEW i, Working(p, s, d, i, F!Nil, F!Nil),
         \A y \in F!Inums : s.ref[y] >= fs.ref[y],
         NEW n \in Names, NEW x \in F!Inums, NEW k \in {"file", "dir"},
         s.type[d] = "dir", s.type[x] = "none", s.ent[d][n] = F!Nil
  PROVE  LET t == F!Enter(F!New(s, x, d, k), d, n, x) IN
         /\ Working(p, t, d, i, x, F!Nil) /\ t.valid[x] /\ t.type[x] = k
         /\ s.valid[d] => t.valid[d]
<1> DEFINE t == F!Enter(F!New(s, x, d, k), d, n, x)
           l == LinksWith(p, F!Nil)
<1>1. InodesGood(s, l) /\ Keeps(fs, s, d) /\ s \in FsType
  BY DEF Working, InodesGood
<1>2. l \in [F!Inums -> Nat] /\ \A y \in F!Inums : fs.ref[y] \in Nat /\ s.ref[y] \in Nat
  BY <1>1, LinksWithType, Base DEF FsType
<1> HIDE DEF l
<1>3. /\ InodesGood(t, l) /\ Keeps(s, t, d) /\ t.ref = [s.ref EXCEPT ![x] = @ + 1]
      /\ t.valid = [s.valid EXCEPT ![x] = TRUE] /\ t.type = [s.type EXCEPT ![x] = k]
  <2>1. Made(s, t, l, d, x, k)
    BY <1>1, <1>2, MakeGood
  <2> HIDE DEF t
  <2> QED BY <2>1 DEF Made
<1> HIDE DEF t
<1>4. \A y \in F!Inums : t.ref[y] = s.ref[y] + (IF x = y THEN 1 ELSE 0)
  BY <1>1, <1>2, <1>3 DEF FsType
<1>5. Keeps(fs, t, d)
  <2>1. \A y \in F!Inums : fs.ref[y] > 0 /\ t.ref[y] > 0 => s.ref[y] > 0
    BY <1>2
  <2> QED BY <1>1, <1>3, <2>1, KeepsTrans
<1>6. Working(p, t, d, i, x, F!Nil)
  <2> SUFFICES ASSUME NEW y \in F!Inums
               PROVE  t.ref[y] = fs.ref[y] - (IF cur[p] = y THEN 1 ELSE 0) - (IF ip[p] = y THEN 1 ELSE 0)
                        + (IF i = y THEN 1 ELSE 0) + (IF x = y THEN 1 ELSE 0) + (IF F!Nil = y THEN 1 ELSE 0)
    BY <1>3, <1>5 DEF Working, l
  <2>1. s.ref[y] = fs.ref[y] - (IF cur[p] = y THEN 1 ELSE 0) - (IF ip[p] = y THEN 1 ELSE 0)
          + (IF i = y THEN 1 ELSE 0) + (IF F!Nil = y THEN 1 ELSE 0) + (IF F!Nil = y THEN 1 ELSE 0)
    BY DEF Working
  <2> QED BY <1>2, <1>4, <2>1, InodeNumbers
<1>7. t.valid[x] /\ t.type[x] = k /\ (s.valid[d] => t.valid[d])
  BY <1>1, <1>3 DEF FsType
<1> QED BY <1>6, <1>7 DEF t

(* A name is taken out.                                                    *)
LEMMA WorkRemoves ==
  ASSUME InodesInv, NEW p \in FsProcs, NEW s, NEW d \in F!Inums, NEW i \in F!Inums, Working(p, s, d, i, d, F!Nil),
         NEW n \in Names, s.ent[d][n] = i, s.type[i] = "dir" => s.ent[i] = F!NoEntries
  PROVE  LET t == F!Remove(s, d, n, i) IN Working(p, t, d, i, d, F!Nil) /\ t.valid = s.valid
<1> DEFINE t == F!Remove(s, d, n, i)
           l == LinksWith(p, F!Nil)
<1>1. InodesGood(s, l) /\ Keeps(fs, s, d)
  BY DEF Working
<1>2. l \in [F!Inums -> Nat] /\ s.ref[i] > 0 /\ s.ref[d] > 0
  BY LinksWithType, WorkHolds
<1> HIDE DEF l
<1>3. InodesGood(t, l) /\ Keeps(s, t, d) /\ t.ref = s.ref /\ t.valid = s.valid
  BY <1>1, <1>2, RemoveGood
<1> HIDE DEF t
<1>4. Keeps(fs, t, d)
  BY <1>1, <1>3, KeepsTrans
<1>5. Working(p, t, d, i, d, F!Nil)
  BY <1>3, <1>4 DEF Working, l
<1> QED BY <1>3, <1>5 DEF t

(* Link counts a name that is not there yet.                               *)
LEMMA WorkCounts ==
  ASSUME InodesInv, NEW p \in FsProcs, NEW s, NEW d, NEW i \in F!Inums, Working(p, s, d, i, F!Nil, F!Nil),
         s.type[i] = "file"
  PROVE  LET t == [s EXCEPT !.nlink[i] = @ + 1] IN
         Working(p, t, d, F!Nil, F!Nil, i) /\ t.valid = s.valid /\ t.type = s.type /\ t.ref = s.ref
<1> DEFINE k == s.nlink[i] + 1
           t == Recount(s, i, k)
           l == LinksWith(p, F!Nil)
           h == LinksWith(p, i)
<1>1. InodesGood(s, l) /\ Keeps(fs, s, d) /\ s.nlink[i] \in Nat
  BY DEF Working, InodesGood, FsType
<1>2. l \in [F!Inums -> Nat] /\ h \in [F!Inums -> Nat] /\ \A x \in F!Inums : LinkCount[x] \in Nat /\ fs.ref[x] \in Nat
  BY LinksWithType, Base
<1>3. h[i] = l[i] + 1 /\ \A x \in F!Inums \ {i} : h[x] = l[x]
  BY <1>2, InodeNumbers DEF LinksWith
<1>4. k \in Nat /\ s.nlink[i] + h[i] = l[i] + k
  BY <1>1, <1>2, <1>3
<1> HIDE DEF k, l, h
<1>5. /\ InodesGood(t, h) /\ (\A e : Keeps(s, t, e))
      /\ t.ref = s.ref /\ t.valid = s.valid /\ t.type = s.type
  BY <1>1, <1>2, <1>3, <1>4, CountGood
<1> HIDE DEF t
<1>6. Keeps(fs, t, d)
  BY <1>1, <1>5, KeepsTrans
<1>7. Working(p, t, d, F!Nil, F!Nil, i)
  <2> SUFFICES ASSUME NEW y \in F!Inums
               PROVE  t.ref[y] = fs.ref[y] - (IF cur[p] = y THEN 1 ELSE 0) - (IF ip[p] = y THEN 1 ELSE 0)
                        + (IF F!Nil = y THEN 1 ELSE 0) + (IF F!Nil = y THEN 1 ELSE 0) + (IF i = y THEN 1 ELSE 0)
    BY <1>5, <1>6 DEF Working, h
  <2>1. s.ref[y] = fs.ref[y] - (IF cur[p] = y THEN 1 ELSE 0) - (IF ip[p] = y THEN 1 ELSE 0)
          + (IF i = y THEN 1 ELSE 0) + (IF F!Nil = y THEN 1 ELSE 0) + (IF F!Nil = y THEN 1 ELSE 0)
    BY DEF Working
  <2> QED BY <1>2, <1>5, <2>1, InodeNumbers
<1>8. t = [s EXCEPT !.nlink[i] = @ + 1]
  BY DEF t, k, Recount
<1> QED BY <1>5, <1>7, <1>8

(* Link takes back what it has counted.                                    *)
LEMMA WorkUncounts ==
  ASSUME InodesInv, NEW p \in FsProcs, NEW s, NEW d, NEW i \in F!Inums, Working(p, s, d, F!Nil, F!Nil, i),
         s.type[i] = "file"
  PROVE  LET t == [s EXCEPT !.nlink[i] = @ - 1] IN
         Working(p, t, d, i, F!Nil, F!Nil) /\ t.valid = s.valid /\ t.type = s.type /\ t.ref = s.ref
<1> DEFINE k == s.nlink[i] - 1
           t == Recount(s, i, k)
           l == LinksWith(p, i)
           h == LinksWith(p, F!Nil)
<1>1. InodesGood(s, l) /\ Keeps(fs, s, d) /\ s.nlink[i] \in Nat
  BY DEF Working, InodesGood, FsType
<1>2. l \in [F!Inums -> Nat] /\ h \in [F!Inums -> Nat] /\ \A x \in F!Inums : LinkCount[x] \in Nat /\ fs.ref[x] \in Nat
  BY LinksWithType, Base
<1>3. l[i] = h[i] + 1 /\ \A x \in F!Inums \ {i} : h[x] = l[x]
  BY <1>2, InodeNumbers DEF LinksWith
<1>4. k \in Nat /\ s.nlink[i] + h[i] = l[i] + k
  <2>1. l[i] > 0
    BY <1>2, <1>3
  <2>2. s.nlink[i] >= Owed(s, l, i) /\ Owed(s, l, i) \in Nat /\ Owed(s, l, i) >= l[i]
    <3> HIDE DEF l
    <3> QED BY <1>1, <1>2, OwesNothing DEF InodesGood, LinksCounted
  <2>3. l[i] \in Nat /\ h[i] \in Nat
    BY <1>2
  <2>4. l[i] = h[i] + 1 /\ s.nlink[i] \in Nat
    BY <1>1, <1>3
  <2> HIDE DEF l, h
  <2>5. s.nlink[i] > 0
    BY <2>1, <2>2, <2>3, <2>4
  <2> QED BY <2>3, <2>4, <2>5
<1> HIDE DEF k, l, h
<1>5. /\ InodesGood(t, h) /\ (\A e : Keeps(s, t, e))
      /\ t.ref = s.ref /\ t.valid = s.valid /\ t.type = s.type
  BY <1>1, <1>2, <1>3, <1>4, CountGood
<1> HIDE DEF t
<1>6. Keeps(fs, t, d)
  BY <1>1, <1>5, KeepsTrans
<1>7. Working(p, t, d, i, F!Nil, F!Nil)
  <2> SUFFICES ASSUME NEW y \in F!Inums
               PROVE  t.ref[y] = fs.ref[y] - (IF cur[p] = y THEN 1 ELSE 0) - (IF ip[p] = y THEN 1 ELSE 0)
                        + (IF i = y THEN 1 ELSE 0) + (IF F!Nil = y THEN 1 ELSE 0) + (IF F!Nil = y THEN 1 ELSE 0)
    BY <1>5, <1>6 DEF Working, h
  <2>1. s.ref[y] = fs.ref[y] - (IF cur[p] = y THEN 1 ELSE 0) - (IF ip[p] = y THEN 1 ELSE 0)
          + (IF F!Nil = y THEN 1 ELSE 0) + (IF F!Nil = y THEN 1 ELSE 0) + (IF i = y THEN 1 ELSE 0)
    BY DEF Working
  <2> QED BY <1>2, <1>5, <2>1, InodeNumbers
<1>8. t = [s EXCEPT !.nlink[i] = @ - 1]
  BY DEF t, k, Recount
<1> QED BY <1>5, <1>7, <1>8
-----------------------------------------------------------------------------
(* Calls that look up, open, close or change directory.                    *)
LEMMA WorkDrops ==
  ASSUME InodesInv, NEW p \in FsProcs, NEW s, NEW d, NEW i \in F!Inums, NEW k, NEW m, Working(p, s, d, i, k, m),
         s.valid[i] \/ s.type[i] = "none" \/ s.nlink[i] > 0
  PROVE  /\ Working(p, F!Iput(s, i), d, F!Nil, k, m)
         /\ \A x \in F!Inums : x \in {k, m} =>
              /\ s.type[x] # "none" => F!Iput(s, i).type[x] = s.type[x]
              /\ s.valid[x] => F!Iput(s, i).valid[x]
              /\ F!Iput(s, i).type[x] = "none" /\ x \in s.stray => x \in F!Iput(s, i).stray
<1> DEFINE t == F!Iput(s, i)
<1>1. Working(p, t, d, F!Nil, k, m) /\ \A e : Keeps(s, t, e)
  BY WorkPuts
<1> HIDE DEF t
<1>2. ASSUME NEW x \in F!Inums, x \in {k, m}
      PROVE  s.ref[x] > 0 /\ t.ref[x] > 0
  <2>1. x \in {i, k, m} => s.ref[x] > 0
    BY WorkHolds
  <2>2. x \in {F!Nil, k, m} => t.ref[x] > 0
    BY <1>1, WorkHolds
  <2> QED BY <1>2, <2>1, <2>2
<1>3. \A x \in F!Inums : x \in {k, m} =>
        /\ s.type[x] # "none" => t.type[x] = s.type[x]
        /\ s.valid[x] => t.valid[x]
        /\ t.type[x] = "none" /\ x \in s.stray => x \in t.stray
  <2>1. Keeps(s, t, F!Nil)
    BY <1>1
  <2> QED BY <1>2, <2>1 DEF Keeps
<1> QED BY <1>1, <1>3 DEF t

(* A call has locked its inode.                                            *)
LEMMA Locks ==
  ASSUME InodesInv, NEW p \in FsProcs, iat[p] \in {"walk", "gotFile", "gotDir"}
  PROVE  LET s == F!Ilock(fs, cur[p]) IN
         /\ cur[p] \in F!Inums /\ Working(p, s, F!Nil, cur[p], F!Nil, ip[p]) /\ s.valid[cur[p]]
         /\ s.ref = fs.ref /\ SameDisk(fs, s) /\ s \in FsType
         /\ ip[p] \in F!Inums => s.type[ip[p]] = "file" /\ s.valid[ip[p]]
<1>1. Grip(p) /\ {cur[p], ip[p]} \subseteq F!Inums \cup {F!Nil}
  BY Before
<1>2. cur[p] \in F!Inums /\ (ip[p] \in F!Inums => fs.type[ip[p]] = "file" /\ fs.valid[ip[p]])
  BY <1>1, InodeNumbers DEF Grip
<1>3. Working(p, fs, F!Nil, cur[p], F!Nil, ip[p])
  BY WorkStarts
<1>4. /\ Working(p, F!Ilock(fs, cur[p]), F!Nil, cur[p], F!Nil, ip[p])
      /\ F!Ilock(fs, cur[p]).ref = fs.ref /\ F!Ilock(fs, cur[p]).valid[cur[p]] /\ SameDisk(fs, F!Ilock(fs, cur[p]))
  BY <1>2, <1>3, WorkLocks
<1>5. F!Ilock(fs, cur[p]) \in FsType
  BY <1>4 DEF Working, InodesGood
<1>6. fs.valid[ip[p]] /\ ip[p] \in F!Inums => F!Ilock(fs, cur[p]).valid[ip[p]]
  <2>1. fs \in FsType
    BY Before
  <2>2. F!Ilock(fs, cur[p]).valid = [fs.valid EXCEPT ![cur[p]] = TRUE]
    BY <1>2, <2>1, IlockFields
  <2> QED BY <1>2, <2>1, <2>2 DEF FsType
<1>7. F!Ilock(fs, cur[p]).type = fs.type
  BY <1>4 DEF SameDisk
<1> QED BY <1>2, <1>4, <1>5, <1>6, <1>7

(* The next inode is got, and the one before let go.                       *)
LEMMA WalksOn ==
  ASSUME InodesInv, NEW p \in FsProcs, NEW s, NEW i \in F!Inums, NEW m, Working(p, s, F!Nil, i, F!Nil, m),
         s.valid[i], s.ref = fs.ref, NEW x \in F!Inums
  PROVE  LET t == F!Iput(F!Iget(F!Strays(s, x), x), i) IN
         /\ Working(p, t, F!Nil, x, F!Nil, m)
         /\ t.type[x] = "none" => x \in t.stray
<1> DEFINE u == F!Strays(s, x)
           v == F!Iget(u, x)
           t == F!Iput(v, i)
<1>1. /\ Working(p, u, F!Nil, i, F!Nil, m) /\ u.ref = fs.ref /\ u.valid[i]
      /\ u.type = s.type /\ (s.type[x] = "none" => x \in u.stray)
  BY WorkStrays DEF SameDisk
<1> HIDE DEF u
<1>2. \A y \in F!Inums : fs.ref[y] \in Nat /\ u.ref[y] >= fs.ref[y]
  BY <1>1, Base
<1>3. /\ Working(p, v, F!Nil, i, x, m) /\ SameDisk(u, v) /\ v.stray = u.stray
      /\ \A y \in F!Inums : y # x => v.valid[y] = u.valid[y]
      /\ u.ref[x] > 0 => v.valid[x] = u.valid[x]
  BY <1>1, <1>2, WorkGets
<1> HIDE DEF v
<1>4. v.valid[i]
  <2>1. u.ref[i] > 0
    BY <1>1, WorkHolds
  <2> QED BY <1>1, <1>3, <2>1
<1>5. /\ Working(p, t, F!Nil, F!Nil, x, m)
      /\ \A y \in F!Inums : y \in {x, m} =>
           /\ v.type[y] # "none" => t.type[y] = v.type[y]
           /\ v.valid[y] => t.valid[y]
           /\ t.type[y] = "none" /\ y \in v.stray => y \in t.stray
  BY <1>3, <1>4, WorkDrops
<1> HIDE DEF t
<1>6. Working(p, t, F!Nil, x, F!Nil, m)
  BY <1>5, Before, WorkSwaps
<1>7. t.type[x] = "none" => x \in t.stray
  BY <1>1, <1>3, <1>5 DEF SameDisk
<1> QED BY <1>6, <1>7 DEF t, v, u

(* A call starts, in the root or in the directory of the process.          *)
LEMMA CallInodes ==
  ASSUME InodesInv, F!Running, NEW p \in FsProcs, F!Call(p)
  PROVE  InodesInv'
<1>1. PICK i \in {F!ROOTINO, cwd[p]} : F!Next1(p, F!Iget(fs, i), "walk", i)
  BY DEF F!Call
<1>2. iat[p] = "user" /\ cwd' = cwd /\ ofile' = ofile /\ ip' = ip
  BY DEF F!Call
<1>3. /\ cur[p] = F!Nil /\ ip[p] = F!Nil /\ i \in F!Inums /\ fs.type[i] = "dir" /\ PointersOK
  <2>1. Grip(p) /\ cwd[p] \in F!Inums /\ InodesGood(fs, LinkCount) /\ PointersOK
    BY Before
  <2>2. cur[p] = F!Nil /\ ip[p] = F!Nil /\ fs.type[cwd[p]] = "dir"
    BY <1>2, <2>1 DEF Grip
  <2>3. fs.type[F!ROOTINO] = "dir"
    BY <2>1 DEF InodesGood, KindsGood
  <2> QED BY <2>1, <2>2, <2>3, InodeNumbers
<1> DEFINE t == F!Iget(fs, i)
<1>4. Working(p, fs, F!Nil, F!Nil, F!Nil, F!Nil)
  BY <1>2, <1>3, WorkStarts
<1>5. Working(p, t, F!Nil, F!Nil, i, F!Nil) /\ t.type = fs.type
  <2>1. \A y \in F!Inums : fs.ref[y] >= fs.ref[y]
    BY Base
  <2> QED BY <1>3, <1>4, <2>1, WorkGets DEF SameDisk
<1> HIDE DEF t
<1>6. Working(p, t, F!Nil, i, F!Nil, F!Nil)
  BY <1>5, Before, WorkSwaps
<1>7. ip' = [ip EXCEPT ![p] = F!Nil]
  BY <1>2, <1>3 DEF PointersOK
<1>8. F!Next1(p, t, "walk", i)
  BY <1>1 DEF t
<1> QED BY <1>2, <1>3, <1>5, <1>6, <1>7, <1>8, WalkGoesOn

(* The inode that an entry, or "..", leads to.                             *)
LEMMA LookedUp ==
  ASSUME NEW s \in FsType, NEW d \in F!Inums, NEW n \in Names \cup {".."}
  PROVE  F!Lookup(s, d, n) \in F!Inums \cup {F!Nil}
<1>1. CASE n = ".."
  BY <1>1 DEF F!Lookup, FsType
<1>2. CASE n # ".."
  BY <1>2 DEF F!Lookup, FsType
<1> QED BY <1>1, <1>2

(* namex goes down one directory.                                          *)
LEMMA WalkInodes ==
  ASSUME InodesInv, F!Running, NEW p \in FsProcs, F!Walk(p)
  PROVE  InodesInv'
<1> DEFINE i == cur[p]
           s == F!Ilock(fs, i)
<1>1. iat[p] = "walk"
  BY DEF F!Walk
<1>2. /\ i \in F!Inums /\ Working(p, s, F!Nil, i, F!Nil, ip[p]) /\ s.valid[i]
      /\ s.ref = fs.ref /\ s \in FsType
  BY <1>1, Locks
<1>3. CASE F!NoType(i)
  <2>1. F!Panic(p)
    BY <1>3 DEF F!Walk
  <2> QED BY <1>1, <1>3, <2>1, PanicEnds
<1>4. CASE ~F!NoType(i)
  <2>1. cwd' = cwd /\ ofile' = ofile
    BY <1>4 DEF F!Walk
  <2>2. PICK n \in Names \cup {".."} :
          LET nx == IF s.type[i] = "dir" THEN F!Lookup(s, i, n) ELSE F!Nil IN
          IF nx = F!Nil THEN F!Fails(p, F!Iput(s, i))
          ELSE F!Next1(p, F!Iput(F!Iget(F!Strays(s, nx), nx), i), "walk", nx) /\ UNCHANGED ip
    BY <1>4 DEF F!Walk
  <2> DEFINE x == IF s.type[i] = "dir" THEN F!Lookup(s, i, n) ELSE F!Nil
  <2>3. x \in F!Inums \cup {F!Nil}
    BY <1>2, LookedUp
  <2>4. /\ x = F!Nil => F!Fails(p, F!Iput(s, i))
        /\ x # F!Nil => F!Next1(p, F!Iput(F!Iget(F!Strays(s, x), x), i), "walk", x) /\ ip' = ip
    BY <2>2
  <2> HIDE DEF x, s
  <2>5. CASE x = F!Nil
    <3>1. Working(p, F!Iput(s, i), F!Nil, F!Nil, F!Nil, ip[p])
      BY <1>2, WorkPuts
    <3> QED BY <1>1, <2>1, <2>4, <2>5, <3>1, FailsEnds
  <2>6. CASE x # F!Nil
    <3> DEFINE t == F!Iput(F!Iget(F!Strays(s, x), x), i)
    <3>1. x \in F!Inums
      BY <2>3, <2>6
    <3>2. Working(p, t, F!Nil, x, F!Nil, ip[p]) /\ (t.type[x] = "none" => x \in t.stray)
      BY <1>2, <3>1, WalksOn
    <3>3. F!Next1(p, t, "walk", x) /\ ip' = [ip EXCEPT ![p] = ip[p]]
      BY <2>4, <2>6, Before DEF PointersOK
    <3> HIDE DEF t
    <3> QED BY <1>1, <2>1, <3>1, <3>2, <3>3, WalkGoesOn
  <2> QED BY <2>5, <2>6
<1> QED BY <1>3, <1>4

(* open finds what it was looking for.                                     *)
LEMMA OpenInodes ==
  ASSUME InodesInv, F!Running, NEW p \in FsProcs, F!Open(p)
  PROVE  InodesInv'
<1> DEFINE i == cur[p]
           s == F!Ilock(fs, i)
<1>1. iat[p] = "walk" /\ ip[p] = F!Nil
  BY DEF F!Open
<1>2. /\ i \in F!Inums /\ Working(p, s, F!Nil, i, F!Nil, ip[p]) /\ s.valid[i] /\ s.type = fs.type
  BY <1>1, Locks DEF SameDisk
<1>3. CASE F!NoType(i)
  <2>1. F!Panic(p)
    BY <1>3 DEF F!Open
  <2> QED BY <1>1, <1>3, <2>1, PanicEnds
<1>4. CASE ~F!NoType(i)
  <2>1. F!Opened(p, s, i) /\ cwd' = cwd
    BY <1>4 DEF F!Open
  <2>2. s.type[i] # "none"
    BY <1>2, <1>4 DEF F!NoType
  <2> HIDE DEF s
  <2> QED BY <1>1, <1>2, <2>1, <2>2, OpenedEnds
<1> QED BY <1>3, <1>4

(* create has found the name, and locks what has it.                       *)
LEMMA CreateGotInodes ==
  ASSUME InodesInv, F!Running, NEW p \in FsProcs, F!CreateGot(p)
  PROVE  InodesInv'
<1> DEFINE i == cur[p]
           s == F!Ilock(fs, i)
<1>1. iat[p] \in {"gotFile", "gotDir"}
  BY DEF F!CreateGot
<1>2. /\ i \in F!Inums /\ Working(p, s, F!Nil, i, F!Nil, F!Nil) /\ s.valid[i] /\ s.type = fs.type
  <2>1. ip[p] = F!Nil
    BY <1>1, Before DEF Grip
  <2> QED BY <1>1, <2>1, Locks DEF SameDisk
<1>3. CASE F!NoType(i)
  <2>1. F!Panic(p)
    BY <1>3 DEF F!CreateGot
  <2> QED BY <1>1, <1>3, <2>1, PanicEnds
<1>4. CASE ~F!NoType(i)
  <2>1. cwd' = cwd /\ (F!Opened(p, s, i) \/ (F!End(p, F!Iput(s, i)) /\ ofile' = ofile))
    BY <1>4 DEF F!CreateGot
  <2>2. s.type[i] # "none"
    BY <1>2, <1>4 DEF F!NoType
  <2> HIDE DEF s
  <2>3. CASE F!Opened(p, s, i)
    BY <1>2, <2>1, <2>2, <2>3, OpenedEnds
  <2>4. CASE F!End(p, F!Iput(s, i)) /\ ofile' = ofile
    <3>1. Working(p, F!Iput(s, i), F!Nil, F!Nil, F!Nil, F!Nil)
      BY <1>2, WorkPuts
    <3> QED BY <2>1, <2>4, <3>1, Ends
  <2> QED BY <2>1, <2>3, <2>4
<1> QED BY <1>3, <1>4
-----------------------------------------------------------------------------
(* What a process lets go of that is not the inode it works on.            *)
LEMMA Releases ==
  ASSUME InodesInv, NEW p \in FsProcs, NEW s, InodesGood(s, LinkCount), s.ref = fs.ref, s.type = fs.type,
         \A e : Keeps(fs, s, e), NEW x \in F!Inums, x = cwd[p] \/ x = ofile[p]
  PROVE  LET t == F!Iput(s, x) IN
         /\ InodesGood(t, LinkCount) /\ (\A e : Keeps(s, t, e)) /\ (\A e : Keeps(fs, t, e))
         /\ t.ref = [s.ref EXCEPT ![x] = @ - 1]
<1> DEFINE t == F!Iput(s, x)
<1>1. F!RefsExact /\ Grip(p) /\ \A y \in F!Inums : fs.ref[y] \in Nat
  BY Before
<1>2. s.ref[x] > LinkCount[x] /\ LinkCount \in [F!Inums -> Nat]
  BY <1>1, HeldMore, LinkCountType
<1>3. s.valid[x] \/ s.nlink[x] > 0
  <2>1. fs.ref[x] > 0 /\ s.ref[x] > 0
    BY <1>1, Held
  <2>2. x # F!ROOTINO => fs.valid[x]
    BY <1>1, InodeNumbers DEF Grip
  <2>3. Keeps(fs, s, F!Nil)
    OBVIOUS
  <2>4. fs.valid[x] => s.valid[x]
    BY <2>1, <2>3 DEF Keeps
  <2>5. x = F!ROOTINO => s.nlink[x] # 0
    BY <1>2, Unlinked
  <2>6. s.nlink[x] \in Nat
    BY DEF InodesGood, FsType
  <2> QED BY <2>2, <2>4, <2>5, <2>6
<1>4. InodesGood(t, LinkCount) /\ (\A e : Keeps(s, t, e)) /\ t.ref = [s.ref EXCEPT ![x] = @ - 1]
  BY <1>2, <1>3, IputGood
<1> HIDE DEF t
<1>5. ASSUME NEW e
      PROVE  Keeps(fs, t, e)
  <2>1. Keeps(fs, s, e) /\ Keeps(s, t, e)
    BY <1>4
  <2>2. \A y \in F!Inums : fs.ref[y] > 0 /\ t.ref[y] > 0 => s.ref[y] > 0
    OBVIOUS
  <2> QED BY <2>1, <2>2, KeepsTrans
<1> QED BY <1>4, <1>5 DEF t

(* chdir.                                                                  *)
LEMMA ChdirInodes ==
  ASSUME InodesInv, F!Running, NEW p \in FsProcs, F!Chdir(p)
  PROVE  InodesInv'
<1> DEFINE i == cur[p]
           s == F!Ilock(fs, i)
<1>1. iat[p] = "walk" /\ ip[p] = F!Nil
  BY DEF F!Chdir
<1>2. /\ i \in F!Inums /\ Working(p, s, F!Nil, i, F!Nil, F!Nil) /\ s.valid[i]
      /\ s.ref = fs.ref /\ SameDisk(fs, s) /\ s \in FsType
  BY <1>1, Locks
<1>3. CASE F!NoType(i)
  <2>1. F!Panic(p)
    BY <1>3 DEF F!Chdir
  <2> QED BY <1>1, <1>3, <2>1, PanicEnds
<1>4. CASE ~F!NoType(i) /\ s.type[i] # "dir"
  <2>1. F!End(p, F!Iput(s, i)) /\ cwd' = cwd /\ ofile' = ofile
    BY <1>4 DEF F!Chdir
  <2> HIDE DEF s
  <2>2. Working(p, F!Iput(s, i), F!Nil, F!Nil, F!Nil, F!Nil)
    BY <1>2, WorkPuts
  <2> QED BY <2>1, <2>2, Ends
<1>5. CASE ~F!NoType(i) /\ s.type[i] = "dir"
  <2> DEFINE x == cwd[p]
             t == F!Iput(s, x)
  <2>1. F!End(p, t) /\ cwd' = [cwd EXCEPT ![p] = i] /\ ofile' = ofile
    BY <1>5 DEF F!Chdir
  <2>2. /\ PointersOK /\ F!RefsExact /\ x \in F!Inums /\ ofile[p] \in F!Inums \cup {F!Nil}
        /\ fs.ref \in [F!Inums -> Nat] /\ InodesGood(fs, LinkCount)
    BY Before
  <2>3. InodesGood(s, LinkCount) /\ \A e : Keeps(fs, s, e)
    BY <1>2, <2>2, IlockGood
  <2>4. s.type = fs.type
    BY <1>2 DEF SameDisk
  <2> HIDE DEF s, x
  <2>5. /\ InodesGood(t, LinkCount) /\ (\A e : Keeps(s, t, e)) /\ (\A e : Keeps(fs, t, e))
        /\ t.ref = [s.ref EXCEPT ![x] = @ - 1]
    BY <1>2, <2>2, <2>3, <2>4, Releases DEF x
  <2> HIDE DEF t
  <2>6. fs' = t /\ Moves(p, i, ofile[p], "user", F!Nil, F!Nil)
    <3>1. ofile' = [ofile EXCEPT ![p] = ofile[p]]
      BY <2>1, <2>2 DEF PointersOK
    <3>2. fs' = t /\ iat' = [iat EXCEPT ![p] = "user"] /\ cur' = [cur EXCEPT ![p] = F!Nil] /\ ip' = [ip EXCEPT ![p] = F!Nil]
      BY <2>1 DEF F!End, F!Next1
    <3> QED BY <1>2, <2>1, <2>2, <3>1, <3>2 DEF Moves, CallPlaces
  <2>7. LinkCount' = LinkCount
    BY <1>1, <2>2, <2>6, SameLinkCount
  <2>8. \A y \in F!Inums : t.ref[y] = fs.ref[y] - (IF x = y THEN 1 ELSE 0)
    BY <1>2, <2>2, <2>5
  <2>9. \A y \in F!Inums : t.ref[y] = fs.ref[y] - Grasp(y, cwd[p], ofile[p], cur[p], ip[p]) + Grasp(y, i, ofile[p], F!Nil, F!Nil)
    BY <1>1, <2>2, <2>8, InodeNumbers DEF Grasp, x
  <2>10. t.ref[i] > 0 /\ s.ref[i] > 0
    <3>1. fs.ref[i] = PointsTo(cwd, i) + PointsTo(ofile, i) + PointsTo(cur, i) + PointsTo(ip, i)
      BY <1>2, <2>2, RefsAre
    <3>2. PointsTo(cwd, i) \in Nat /\ (x = i => PointsTo(cwd, i) > 0)
      BY CountType DEF x
    <3>3. PointsTo(cur, i) \in Nat /\ PointsTo(cur, i) > 0
      BY CountType
    <3>4. PointsTo(ofile, i) \in Nat /\ PointsTo(ip, i) \in Nat
      BY CountType
    <3>5. fs.ref[i] > (IF x = i THEN 1 ELSE 0)
      BY <3>1, <3>2, <3>3, <3>4
    <3>6. fs.ref[i] \in Nat
      BY <1>2, <2>2
    <3> QED BY <1>2, <2>8, <3>5, <3>6
  <2>11. t.type[i] = "dir" /\ t.valid[i]
    <3>1. Keeps(s, t, F!Nil)
      BY <2>5
    <3> QED BY <1>2, <1>5, <2>10, <3>1 DEF Keeps
  <2>12. Grips(p, t, i, ofile[p], "user", F!Nil, F!Nil)
    BY <2>11 DEF Grips
  <2>13. \A q \in FsProcs \ {p} : iat[q] = "unlinkIp" => cur[q] # F!Nil
    BY DEF InodesInv, Grip
  <2>14. Lands(p, t, F!Nil, LinkCount, i, ofile[p], "user", F!Nil, F!Nil)
    BY <2>5, <2>6, <2>7, <2>9, <2>13 DEF Lands
  <2> QED BY <2>12, <2>14, CallStep
<1> QED BY <1>3, <1>4, <1>5

(* close.                                                                  *)
LEMMA CloseInodes ==
  ASSUME InodesInv, F!Running, NEW p \in FsProcs, F!Close(p)
  PROVE  InodesInv'
<1> DEFINE x == ofile[p]
           t == F!Iput(fs, x)
<1>1. /\ iat[p] = "user" /\ x # F!Nil /\ fs' = t /\ ofile' = [ofile EXCEPT ![p] = F!Nil]
      /\ cwd' = cwd /\ iat' = iat /\ cur' = cur /\ ip' = ip
  BY DEF F!Close
<1>2. /\ PointersOK /\ x \in F!Inums /\ cwd[p] \in F!Inums
      /\ fs.ref \in [F!Inums -> Nat] /\ InodesGood(fs, LinkCount)
  BY <1>1, Before
<1>3. cur[p] = F!Nil /\ ip[p] = F!Nil
  BY <1>1, Before DEF Grip
<1>4. \A e : Keeps(fs, fs, e)
  BY DEF Keeps
<1> HIDE DEF x
<1>5. /\ InodesGood(t, LinkCount) /\ (\A e : Keeps(fs, t, e))
      /\ t.ref = [fs.ref EXCEPT ![x] = @ - 1]
  BY <1>2, <1>4, Releases DEF x
<1> HIDE DEF t
<1>6. Moves(p, cwd[p], F!Nil, "user", F!Nil, F!Nil)
  <2>1. /\ cwd' = [cwd EXCEPT ![p] = cwd[p]] /\ iat' = [iat EXCEPT ![p] = "user"]
        /\ cur' = [cur EXCEPT ![p] = F!Nil] /\ ip' = [ip EXCEPT ![p] = F!Nil]
    BY <1>1, <1>2, <1>3 DEF PointersOK
  <2> QED BY <1>1, <1>2, <2>1 DEF Moves, CallPlaces
<1>7. LinkCount' = LinkCount
  BY <1>2, <1>3, <1>6, SameLinkCount
<1>8. \A y \in F!Inums : t.ref[y] = fs.ref[y] - (IF x = y THEN 1 ELSE 0)
  BY <1>2, <1>5
<1>9. \A y \in F!Inums : t.ref[y] = fs.ref[y] - Grasp(y, cwd[p], ofile[p], cur[p], ip[p]) + Grasp(y, cwd[p], F!Nil, F!Nil, F!Nil)
  BY <1>2, <1>3, <1>8, InodeNumbers DEF Grasp, x
<1>10. Grips(p, t, cwd[p], F!Nil, "user", F!Nil, F!Nil)
  BY DEF Grips
<1>11. \A q \in FsProcs \ {p} : iat[q] = "unlinkIp" => cur[q] # F!Nil
  BY DEF InodesInv, Grip
<1>12. Lands(p, t, F!Nil, LinkCount, cwd[p], F!Nil, "user", F!Nil, F!Nil)
  BY <1>1, <1>5, <1>6, <1>7, <1>9, <1>11 DEF Lands
<1> QED BY <1>10, <1>12, CallStep
-----------------------------------------------------------------------------
(* Calls that make names.                                                  *)
LEMMA Creates ==
  ASSUME InodesInv, NEW p \in FsProcs, iat[p] = "walk", ip[p] = F!Nil, fs.type[cur[p]] = "dir", ~F!Locked(cur[p]),
         NEW n \in Names \cup {".."}, F!Lookup(F!Ilock(fs, cur[p]), cur[p], n) = F!Nil,
         NEW i \in F!Inums, F!NoType(i), NEW k \in {"file", "dir"}
  PROVE  LET t == F!Iput(F!Enter(F!New(F!Ilock(fs, cur[p]), i, cur[p], k), cur[p], n, i), cur[p]) IN
         Working(p, t, cur[p], i, F!Nil, F!Nil) /\ t.valid[i] /\ t.type[i] = k
<1> DEFINE d == cur[p]
           s == F!Ilock(fs, d)
           w == F!Enter(F!New(s, i, d, k), d, n, i)
           t == F!Iput(w, d)
<1>1. /\ d \in F!Inums /\ Working(p, s, F!Nil, d, F!Nil, F!Nil) /\ s.valid[d]
      /\ s.ref = fs.ref /\ s.type = fs.type /\ s.up = fs.up /\ s \in FsType
  BY Locks DEF SameDisk
<1>2. s.type[d] = "dir" /\ s.type[i] = "none"
  BY <1>1 DEF F!NoType
<1>3. n \in Names /\ s.ent[d][n] = F!Nil
  <2>1. F!Lookup(s, d, n) = F!Nil
    OBVIOUS
  <2>2. s.up[d] # F!Nil
    BY <1>1, <1>2 DEF Working, InodesGood, KindsGood
  <2> HIDE DEF s
  <2> QED BY <2>1, <2>2 DEF F!Lookup
<1>4. \A q \in FsProcs \ {p} : iat[q] = "unlinkIp" => cur[q] # d
  BY DEF F!Locked
<1> HIDE DEF s
<1>5. Working(p, s, d, d, F!Nil, F!Nil)
  <2> HIDE DEF d
  <2> QED BY <1>1, <1>4, WorkIn
<1>6. Working(p, w, d, d, i, F!Nil) /\ w.valid[i] /\ w.type[i] = k /\ w.valid[d]
  <2>1. \A y \in F!Inums : s.ref[y] >= fs.ref[y]
    BY <1>1, Base
  <2> HIDE DEF d
  <2> QED BY <1>1, <1>2, <1>3, <1>5, <2>1, WorkMakes
<1> HIDE DEF w
<1>7. Working(p, t, d, F!Nil, i, F!Nil) /\ t.valid[i] /\ t.type[i] = k
  <2>1. /\ Working(p, t, d, F!Nil, i, F!Nil)
        /\ \A x \in F!Inums : x \in {i, F!Nil} =>
              /\ w.type[x] # "none" => t.type[x] = w.type[x]
              /\ w.valid[x] => t.valid[x]
              /\ t.type[x] = "none" /\ x \in w.stray => x \in t.stray
    <3> HIDE DEF d
    <3> QED BY <1>1, <1>6, WorkDrops
  <2> HIDE DEF t
  <2> QED BY <1>6, <2>1
<1> HIDE DEF t, d
<1>8. Working(p, t, d, i, F!Nil, F!Nil)
  BY <1>7, Before, WorkSwaps
<1> QED BY <1>7, <1>8 DEF t, w, s, d

(* create finds that the name is there, and lets go of the directory.      *)
LEMMA GotInodes ==
  ASSUME InodesInv, F!Running, NEW p \in FsProcs, iat[p] = "walk", ip[p] = F!Nil,
         NEW n \in Names \cup {".."}, NEW x, x = F!Lookup(F!Ilock(fs, cur[p]), cur[p], n), x # F!Nil,
         NEW a \in {"gotFile", "gotDir"},
         F!Next1(p, F!Iput(F!Iget(F!Strays(F!Ilock(fs, cur[p]), x), x), cur[p]), a, x),
         UNCHANGED ofile, UNCHANGED ip, UNCHANGED cwd
  PROVE  InodesInv'
<1> DEFINE d == cur[p]
           s == F!Ilock(fs, d)
           t == F!Iput(F!Iget(F!Strays(s, x), x), d)
<1>1. /\ d \in F!Inums /\ Working(p, s, F!Nil, d, F!Nil, F!Nil) /\ s.valid[d]
      /\ s.ref = fs.ref /\ s \in FsType
  BY Locks
<1>2. x \in F!Inums
  BY <1>1, LookedUp
<1>3. Working(p, t, F!Nil, x, F!Nil, F!Nil) /\ (t.type[x] = "none" => x \in t.stray)
  <2> HIDE DEF s, d
  <2> QED BY <1>1, <1>2, WalksOn
<1>4. F!Next1(p, t, a, x) /\ ip' = [ip EXCEPT ![p] = F!Nil]
  BY Before DEF PointersOK
<1> HIDE DEF t
<1> QED BY <1>2, <1>3, <1>4, WalkGoesOn

(* open with O_CREATE.                                                     *)
LEMMA CreatInodes ==
  ASSUME InodesInv, F!Running, NEW p \in FsProcs, F!Creat(p)
  PROVE  InodesInv'
<1> DEFINE d == cur[p]
           s == F!Ilock(fs, d)
<1>1. iat[p] = "walk" /\ ip[p] = F!Nil /\ fs.type[d] = "dir" /\ ~F!Locked(d) /\ cwd' = cwd
  BY DEF F!Creat, F!Create
<1>2. PICK n \in Names \cup {".."} :
        IF F!Lookup(s, d, n) # F!Nil
        THEN LET i == F!Lookup(s, d, n) IN
             F!Next1(p, F!Iput(F!Iget(F!Strays(s, i), i), d), "gotFile", i) /\ UNCHANGED ofile /\ UNCHANGED ip
        ELSE \E i \in F!Inums :
               /\ F!NoType(i)
               /\ F!Opened(p, F!Iput(F!Enter(F!New(s, i, d, "file"), d, n, i), d), i)
  BY DEF F!Creat, F!Create
<1>3. CASE F!Lookup(s, d, n) # F!Nil
  <2> DEFINE x == F!Lookup(s, d, n)
  <2>1. F!Next1(p, F!Iput(F!Iget(F!Strays(s, x), x), d), "gotFile", x) /\ ofile' = ofile /\ ip' = ip
    BY <1>2, <1>3
  <2>2. x = F!Lookup(F!Ilock(fs, cur[p]), cur[p], n) /\ x # F!Nil
    BY <1>3
  <2> HIDE DEF x
  <2> QED BY <1>1, <2>1, <2>2, GotInodes
<1>4. CASE F!Lookup(s, d, n) = F!Nil
  <2>1. PICK i \in F!Inums : F!NoType(i) /\ F!Opened(p, F!Iput(F!Enter(F!New(s, i, d, "file"), d, n, i), d), i)
    BY <1>2, <1>4
  <2> DEFINE t == F!Iput(F!Enter(F!New(s, i, d, "file"), d, n, i), d)
  <2>2. Working(p, t, d, i, F!Nil, F!Nil) /\ t.valid[i] /\ t.type[i] = "file"
    BY <1>1, <1>4, <2>1, Creates
  <2>3. F!Opened(p, t, i)
    BY <2>1
  <2> HIDE DEF t, d
  <2> QED BY <1>1, <2>2, <2>3, OpenedEnds
<1> QED BY <1>3, <1>4

(* mkdir.                                                                  *)
LEMMA MkdirInodes ==
  ASSUME InodesInv, F!Running, NEW p \in FsProcs, F!Mkdir(p)
  PROVE  InodesInv'
<1> DEFINE d == cur[p]
           s == F!Ilock(fs, d)
<1>1. iat[p] = "walk" /\ ip[p] = F!Nil /\ fs.type[d] = "dir" /\ ~F!Locked(d) /\ cwd' = cwd
  BY DEF F!Mkdir, F!Create
<1>2. PICK n \in Names \cup {".."} :
        IF F!Lookup(s, d, n) # F!Nil
        THEN LET i == F!Lookup(s, d, n) IN
             F!Next1(p, F!Iput(F!Iget(F!Strays(s, i), i), d), "gotDir", i) /\ UNCHANGED ofile /\ UNCHANGED ip
        ELSE \E i \in F!Inums :
               /\ F!NoType(i)
               /\ F!MkdirEnd(p, F!Iput(F!Enter(F!New(s, i, d, "dir"), d, n, i), d), i)
  BY DEF F!Mkdir, F!Create
<1>3. CASE F!Lookup(s, d, n) # F!Nil
  <2> DEFINE x == F!Lookup(s, d, n)
  <2>1. F!Next1(p, F!Iput(F!Iget(F!Strays(s, x), x), d), "gotDir", x) /\ ofile' = ofile /\ ip' = ip
    BY <1>2, <1>3
  <2>2. x = F!Lookup(F!Ilock(fs, cur[p]), cur[p], n) /\ x # F!Nil
    BY <1>3
  <2> HIDE DEF x
  <2> QED BY <1>1, <2>1, <2>2, GotInodes
<1>4. CASE F!Lookup(s, d, n) = F!Nil
  <2>1. PICK i \in F!Inums : F!NoType(i) /\ F!MkdirEnd(p, F!Iput(F!Enter(F!New(s, i, d, "dir"), d, n, i), d), i)
    BY <1>2, <1>4
  <2> DEFINE t == F!Iput(F!Enter(F!New(s, i, d, "dir"), d, n, i), d)
  <2>2. Working(p, t, d, i, F!Nil, F!Nil) /\ t.valid[i] /\ t.type[i] = "dir"
    BY <1>1, <1>4, <2>1, Creates
  <2>3. F!End(p, F!Iput(t, i)) /\ ofile' = ofile
    BY <2>1 DEF F!MkdirEnd
  <2> HIDE DEF t, d
  <2>4. Working(p, F!Iput(t, i), d, F!Nil, F!Nil, F!Nil)
    BY <2>2, WorkPuts
  <2> QED BY <1>1, <2>3, <2>4, Ends
<1> QED BY <1>3, <1>4
-----------------------------------------------------------------------------
(* Unlink.                                                                 *)
LEMMA UnlinkDirInodes ==
  ASSUME InodesInv, F!Running, NEW p \in FsProcs, F!UnlinkDir(p)
  PROVE  InodesInv'
<1> DEFINE d == cur[p]
           s == F!Ilock(fs, d)
<1>1. iat[p] = "walk" /\ ip[p] = F!Nil /\ fs.type[d] = "dir" /\ ~F!Locked(d) /\ cwd' = cwd /\ ofile' = ofile
  BY DEF F!UnlinkDir
<1>2. /\ d \in F!Inums /\ Working(p, s, F!Nil, d, F!Nil, F!Nil) /\ s.valid[d]
      /\ s.ref = fs.ref /\ s \in FsType /\ s.type = fs.type
  BY <1>1, Locks DEF SameDisk
<1>3. CASE F!End(p, F!Iput(s, d))
  <2> HIDE DEF s
  <2>1. Working(p, F!Iput(s, d), F!Nil, F!Nil, F!Nil, F!Nil)
    BY <1>2, WorkPuts
  <2> QED BY <1>1, <1>3, <2>1, Ends
<1>4. ASSUME NEW n \in Names, s.ent[d][n] # F!Nil, F!Next1(p, F!Iget(s, s.ent[d][n]), "unlinkIp", d),
             ip' = [ip EXCEPT ![p] = s.ent[d][n]]
      PROVE  InodesInv'
  <2>1. PICK x \in F!Inums : x = s.ent[d][n]
    BY <1>2, <1>4 DEF FsType
  <2> DEFINE t == F!Iget(s, x)
  <2>2. F!Next1(p, t, "unlinkIp", d) /\ ip' = [ip EXCEPT ![p] = x]
    BY <1>4, <2>1
  <2>3. \A y \in F!Inums : s.ref[y] >= fs.ref[y]
    BY <1>2, Base
  <2>4. s.ref[d] > 0
    BY <1>2, WorkHolds
  <2>5. \A q \in FsProcs \ {p} : iat[q] = "unlinkIp" => cur[q] # d
    BY <1>1 DEF F!Locked
  <2> HIDE DEF s
  <2>6. /\ Working(p, t, F!Nil, d, x, F!Nil) /\ SameDisk(s, t)
        /\ \A y \in F!Inums : y # x => t.valid[y] = s.valid[y]
        /\ s.ref[x] > 0 => t.valid[x] = s.valid[x]
    BY <1>2, <2>3, WorkGets
  <2> HIDE DEF t
  <2>7. t.type[d] = "dir" /\ t.valid[d] /\ t.ent[d][n] = x
    BY <1>1, <1>2, <2>1, <2>4, <2>6 DEF SameDisk
  <2>8. fs' = t /\ Moves(p, cwd[p], ofile[p], "unlinkIp", d, x)
    BY <1>1, <1>2, <2>2, StepMoves DEF CallPlaces
  <2>9. Grips(p, t, cwd[p], ofile[p], "unlinkIp", d, x)
    <3>1. d # F!Nil /\ x # F!Nil
      BY <1>2, InodeNumbers
    <3> HIDE DEF d
    <3> QED BY <2>7, <3>1 DEF Grips
  <2>10. \A y \in F!Inums :
           Grasp(y, cwd[p], ofile[p], d, x) = Grasp(y, cwd[p], ofile[p], F!Nil, F!Nil)
             + (IF d = y THEN 1 ELSE 0) + (IF x = y THEN 1 ELSE 0) + (IF F!Nil = y THEN 1 ELSE 0)
    BY InodeNumbers DEF Grasp
  <2>11. F!Nil = IF "unlinkIp" = "unlinkIp" THEN F!Nil ELSE x
    OBVIOUS
  <2> HIDE DEF d
  <2> QED BY <2>5, <2>6, <2>8, <2>9, <2>10, <2>11, WorkEnds
<1>5. \/ F!End(p, F!Iput(s, d))
      \/ \E n \in Names :
           /\ s.ent[d][n] # F!Nil
           /\ F!Next1(p, F!Iget(s, s.ent[d][n]), "unlinkIp", d)
           /\ ip' = [ip EXCEPT ![p] = s.ent[d][n]]
  BY DEF F!UnlinkDir
<1> HIDE DEF s, d
<1> QED BY <1>3, <1>4, <1>5

(* unlink, after it has locked what the name leads to.                     *)
LEMMA UnlinkIpInodes ==
  ASSUME InodesInv, F!Running, NEW p \in FsProcs, F!UnlinkIp(p)
  PROVE  InodesInv'
<1> DEFINE d == cur[p]
           i == ip[p]
           s == F!Ilock(fs, i)
<1>1. iat[p] = "unlinkIp" /\ cwd' = cwd /\ ofile' = ofile
  BY DEF F!UnlinkIp
<1>2. /\ d \in F!Inums /\ i \in F!Inums /\ fs.valid[d] /\ InodesGood(fs, LinkCount)
      /\ \E n \in Names : fs.ent[d][n] = i
  <2>1. Grip(p) /\ {d, i} \subseteq F!Inums \cup {F!Nil} /\ InodesGood(fs, LinkCount)
    BY Before
  <2> QED BY <1>1, <2>1 DEF Grip
<1>3. fs.type[i] # "none" /\ fs.nlink[i] > 0
  <2>1. PICK n \in Names : fs.ent[d][n] = i
    BY <1>2
  <2>2. fs.type[i] # "none"
    BY <1>2, <2>1, InodeNumbers DEF InodesGood, EntriesGood
  <2>3. <<d, n>> \in NamesOf(fs, i)
    BY <1>2, <2>1 DEF NamesOf
  <2>4. fs.nlink[i] # 0
    BY <1>2, <2>3, LinkCountType, Unlinked
  <2>5. fs.nlink[i] \in Nat
    BY <1>2 DEF InodesGood, FsType
  <2> QED BY <2>2, <2>4, <2>5
<1>4. Working(p, fs, F!Nil, i, d, F!Nil)
  <2>1. Working(p, fs, F!Nil, d, i, F!Nil)
    BY <1>1, WorkStarts
  <2> HIDE DEF d, i
  <2> QED BY <2>1, Before, WorkSwaps
<1>5. /\ Working(p, s, F!Nil, i, d, F!Nil) /\ s.valid[i] /\ s.valid[d] /\ SameDisk(fs, s)
      /\ s.nlink[i] > 0
  <2>1. Working(p, s, F!Nil, i, d, F!Nil) /\ s.valid[i] /\ SameDisk(fs, s) /\ s.ref = fs.ref
    <3> HIDE DEF d, i
    <3> QED BY <1>2, <1>4, WorkLocks
  <2>2. fs.ref[d] > 0
    <3> HIDE DEF d, i
    <3> QED BY <1>2, <1>4, WorkHolds
  <2>3. Keeps(fs, s, F!Nil)
    BY <2>1 DEF Working
  <2> HIDE DEF s, d, i
  <2> QED BY <1>2, <1>3, <2>1, <2>2, <2>3 DEF Keeps, SameDisk
<1>6. IF s.type[i] = "dir" /\ s.ent[i] # F!NoEntries THEN F!End(p, F!Iput(F!Iput(s, i), d))
      ELSE \E n \in Names : s.ent[d][n] = i /\ F!End(p, F!Iput(F!Iput(F!Remove(s, d, n, i), d), i))
  <2>1. IF F!NoType(i) \/ s.nlink[i] < 1 THEN F!Panic(p)
        ELSE IF s.type[i] = "dir" /\ s.ent[i] # F!NoEntries THEN F!End(p, F!Iput(F!Iput(s, i), d))
        ELSE \E n \in Names : s.ent[d][n] = i /\ F!End(p, F!Iput(F!Iput(F!Remove(s, d, n, i), d), i))
    BY DEF F!UnlinkIp
  <2>2. ~F!NoType(i) /\ ~(s.nlink[i] < 1)
    <3>1. s.nlink[i] \in Nat
      BY <1>2, <1>5 DEF InodesGood, FsType, SameDisk
    <3> HIDE DEF s
    <3> QED BY <1>3, <1>5, <3>1 DEF F!NoType
  <2> HIDE DEF s, d, i
  <2> QED BY <2>1, <2>2
<1> HIDE DEF s, d, i
<1>7. CASE s.type[i] = "dir" /\ s.ent[i] # F!NoEntries
  <2> DEFINE t == F!Iput(s, i)
  <2>1. F!End(p, F!Iput(t, d))
    BY <1>6, <1>7
  <2>2. Working(p, t, F!Nil, F!Nil, d, F!Nil) /\ t.valid[d]
    BY <1>2, <1>5, WorkDrops
  <2> HIDE DEF t
  <2>3. Working(p, t, F!Nil, d, F!Nil, F!Nil)
    BY <2>2, Before, WorkSwaps
  <2>4. Working(p, F!Iput(t, d), F!Nil, F!Nil, F!Nil, F!Nil)
    BY <1>2, <2>2, <2>3, WorkPuts
  <2> QED BY <1>1, <2>1, <2>4, Ends
<1>8. CASE s.type[i] = "dir" => s.ent[i] = F!NoEntries
  <2>1. PICK n \in Names : s.ent[d][n] = i /\ F!End(p, F!Iput(F!Iput(F!Remove(s, d, n, i), d), i))
    BY <1>6, <1>8
  <2>2. \A q \in FsProcs \ {p} : iat[q] = "unlinkIp" => cur[q] # d
    BY <1>1 DEF InodesInv, Apart, d
  <2>3. Working(p, s, d, i, d, F!Nil)
    BY <1>5, <2>2, WorkIn
  <2> DEFINE t == F!Remove(s, d, n, i)
             u == F!Iput(t, d)
  <2>4. Working(p, t, d, i, d, F!Nil) /\ t.valid = s.valid
    BY <1>2, <1>8, <2>1, <2>3, WorkRemoves
  <2>5. F!End(p, F!Iput(u, i))
    BY <2>1
  <2> HIDE DEF t
  <2>6. Working(p, t, d, d, i, F!Nil)
    BY <2>4, Before, WorkSwaps
  <2>7. Working(p, u, d, F!Nil, i, F!Nil) /\ u.valid[i]
    BY <1>2, <1>5, <2>4, <2>6, WorkDrops
  <2> HIDE DEF u
  <2>8. Working(p, u, d, i, F!Nil, F!Nil)
    BY <2>7, Before, WorkSwaps
  <2>9. Working(p, F!Iput(u, i), d, F!Nil, F!Nil, F!Nil)
    BY <1>2, <2>7, <2>8, WorkPuts
  <2> QED BY <1>1, <2>5, <2>9, Ends
<1> QED BY <1>7, <1>8
-----------------------------------------------------------------------------
(* Link.                                                                   *)
LEMMA LinkInodes ==
  ASSUME InodesInv, F!Running, NEW p \in FsProcs, F!Link(p)
  PROVE  InodesInv'
<1> DEFINE i == cur[p]
           s == F!Ilock(fs, i)
<1>1. iat[p] = "walk" /\ ip[p] = F!Nil /\ cwd' = cwd /\ ofile' = ofile
  BY DEF F!Link
<1>2. /\ i \in F!Inums /\ Working(p, s, F!Nil, i, F!Nil, F!Nil) /\ s.valid[i]
      /\ s.ref = fs.ref /\ s \in FsType /\ s.type = fs.type
  BY <1>1, Locks DEF SameDisk
<1>3. CASE F!NoType(i)
  <2>1. F!Panic(p)
    BY <1>3 DEF F!Link
  <2> QED BY <1>1, <1>3, <2>1, PanicEnds
<1>4. CASE ~F!NoType(i) /\ s.type[i] = "dir"
  <2>1. F!End(p, F!Iput(s, i))
    BY <1>4 DEF F!Link
  <2> HIDE DEF s, i
  <2>2. Working(p, F!Iput(s, i), F!Nil, F!Nil, F!Nil, F!Nil)
    BY <1>2, WorkPuts
  <2> QED BY <1>1, <2>1, <2>2, Ends
<1>5. CASE ~F!NoType(i) /\ s.type[i] # "dir"
  <2>1. ip' = [ip EXCEPT ![p] = i]
    BY <1>5 DEF F!Link
  <2>2. PICK j \in {F!ROOTINO, cwd[p]} : F!Next1(p, F!Iget([s EXCEPT !.nlink[i] = @ + 1], j), "walk", j)
    BY <1>5 DEF F!Link
  <2>3. j \in F!Inums /\ fs.type[j] = "dir"
    <3>1. Grip(p) /\ cwd[p] \in F!Inums /\ InodesGood(fs, LinkCount)
      BY Before
    <3>2. fs.type[cwd[p]] = "dir" /\ fs.type[F!ROOTINO] = "dir"
      BY <3>1 DEF Grip, InodesGood, KindsGood
    <3> QED BY <3>1, <3>2, InodeNumbers
  <2>4. s.type[i] = "file"
    BY <1>2, <1>5 DEF FsType, F!NoType
  <2> DEFINE u == [s EXCEPT !.nlink[i] = @ + 1]
             t == F!Iget(u, j)
  <2> HIDE DEF s, i
  <2>5. Working(p, u, F!Nil, F!Nil, F!Nil, i) /\ u.valid = s.valid /\ u.type = s.type /\ u.ref = s.ref
    BY <1>2, <2>4, WorkCounts
  <2>6. F!Next1(p, t, "walk", j)
    BY <2>2
  <2> HIDE DEF u
  <2>7. /\ Working(p, t, F!Nil, F!Nil, j, i) /\ t.type = u.type
        /\ \A y \in F!Inums : y # j => t.valid[y] = u.valid[y]
    <3>1. \A y \in F!Inums : u.ref[y] >= fs.ref[y]
      BY <1>2, <2>5, Base
    <3> QED BY <2>3, <2>5, <3>1, WorkGets DEF SameDisk
  <2> HIDE DEF t
  <2>8. Working(p, t, F!Nil, j, F!Nil, i)
    BY <2>7, Before, WorkSwaps
  <2>9. t.type[i] = "file" /\ t.valid[i] /\ t.type[j] = "dir"
    BY <1>2, <2>3, <2>4, <2>5, <2>7
  <2> QED BY <1>1, <2>1, <2>3, <2>6, <2>8, <2>9, WalkGoesOn
<1> QED BY <1>3, <1>4, <1>5

(* link makes the new name, or finds that it cannot.                       *)
LEMMA LinkNewInodes ==
  ASSUME InodesInv, F!Running, NEW p \in FsProcs, F!LinkNew(p)
  PROVE  InodesInv'
<1> DEFINE d == cur[p]
           i == ip[p]
           s == F!Ilock(fs, d)
<1>1. iat[p] = "walk" /\ i # F!Nil /\ ~F!Locked(d) /\ cwd' = cwd /\ ofile' = ofile
  BY DEF F!LinkNew
<1>2. /\ d \in F!Inums /\ Working(p, s, F!Nil, d, F!Nil, i) /\ s.valid[d]
      /\ s.ref = fs.ref /\ s \in FsType /\ i \in F!Inums /\ s.type[i] = "file" /\ s.valid[i]
  <2>1. i \in F!Inums
    BY <1>1, Before
  <2> QED BY <1>1, <2>1, Locks
<1>3. PICK n \in Names :
        LET there == s.ent[d][n] IN
        IF s.type[d] # "dir" THEN F!Fails(p, F!Iput(s, d))
        ELSE IF there # F!Nil THEN F!Fails(p, F!Iput(F!Iput(F!Iget(s, there), there), d))
        ELSE F!End(p, F!Iput(F!Iput(F!Enter(s, d, n, i), d), i))
  BY DEF F!LinkNew
<1>4. \A q \in FsProcs \ {p} : iat[q] = "unlinkIp" => cur[q] # d
  BY <1>1 DEF F!Locked
<1>5. iat[p] # "unlinkIp"
  BY <1>1
<1> HIDE DEF s, d
<1>6. CASE s.type[d] # "dir"
  <2>1. F!Fails(p, F!Iput(s, d))
    BY <1>3, <1>6
  <2>2. Working(p, F!Iput(s, d), F!Nil, F!Nil, F!Nil, i)
    <3> HIDE DEF i
    <3> QED BY <1>2, WorkPuts
  <2> QED BY <1>1, <1>5, <2>1, <2>2, FailsEnds
<1>7. CASE s.type[d] = "dir" /\ s.ent[d][n] # F!Nil
  <2>1. PICK x \in F!Inums : x = s.ent[d][n]
    BY <1>2, <1>7 DEF FsType
  <2> DEFINE g == F!Iget(s, x)
             h == F!Iput(g, x)
             t == F!Iput(h, d)
  <2>2. F!Fails(p, t)
    BY <1>3, <1>7, <2>1
  <2>3. Working(p, t, F!Nil, F!Nil, F!Nil, i)
    <3> HIDE DEF i
    <3>1. InodesGood(s, LinksWith(p, i)) /\ LinksWith(p, i) \in [F!Inums -> Nat]
      BY <1>2, LinksWithType DEF Working
    <3>2. s.nlink[x] > 0
      <4>1. <<d, n>> \in NamesOf(s, x)
        BY <1>2, <2>1 DEF NamesOf
      <4>2. s.nlink[x] # 0
        BY <3>1, <4>1, Unlinked
      <4>3. s.nlink[x] \in Nat
        BY <1>2 DEF FsType
      <4> QED BY <4>2, <4>3
    <3>3. s.ref[d] > 0 /\ \A y \in F!Inums : s.ref[y] >= fs.ref[y]
      BY <1>2, WorkHolds, Base
    <3>4. /\ Working(p, g, F!Nil, d, x, i) /\ SameDisk(s, g)
          /\ \A y \in F!Inums : y # x => g.valid[y] = s.valid[y]
          /\ s.ref[x] > 0 => g.valid[x] = s.valid[x]
      BY <1>2, <3>3, WorkGets
    <3> HIDE DEF g
    <3>5. g.valid[d] /\ g.nlink[x] > 0
      BY <1>2, <3>2, <3>3, <3>4 DEF SameDisk
    <3>6. Working(p, g, F!Nil, x, d, i)
      BY <3>4, Before, WorkSwaps
    <3>7. Working(p, h, F!Nil, F!Nil, d, i) /\ h.valid[d]
      BY <1>2, <3>5, <3>6, WorkDrops
    <3> HIDE DEF h
    <3>8. Working(p, h, F!Nil, d, F!Nil, i)
      BY <3>7, Before, WorkSwaps
    <3> QED BY <1>2, <3>7, <3>8, WorkPuts
  <2> HIDE DEF t
  <2> QED BY <1>1, <1>5, <2>2, <2>3, FailsEnds
<1>8. CASE s.type[d] = "dir" /\ s.ent[d][n] = F!Nil
  <2> DEFINE w == F!Enter(s, d, n, i)
             u == F!Iput(w, d)
  <2> HIDE DEF i
  <2>1. F!End(p, F!Iput(u, i))
    BY <1>3, <1>8 DEF i
  <2>2. Working(p, s, d, d, F!Nil, i)
    BY <1>2, <1>4, WorkIn
  <2>3. Working(p, w, d, d, i, F!Nil) /\ w.valid = s.valid /\ w.type = s.type
    BY <1>2, <1>8, <2>2, WorkEnters
  <2> HIDE DEF w
  <2>4. Working(p, u, d, F!Nil, i, F!Nil) /\ u.valid[i]
    BY <1>2, <2>3, WorkDrops
  <2> HIDE DEF u
  <2>5. Working(p, u, d, i, F!Nil, F!Nil)
    BY <2>4, Before, WorkSwaps
  <2>6. Working(p, F!Iput(u, i), d, F!Nil, F!Nil, F!Nil)
    BY <1>2, <2>4, <2>5, WorkPuts
  <2> QED BY <1>1, <2>1, <2>6, Ends
<1> QED BY <1>6, <1>7, <1>8

(* link takes back what it has counted.                                    *)
LEMMA LinkBadInodes ==
  ASSUME InodesInv, F!Running, NEW p \in FsProcs, F!LinkBad(p)
  PROVE  InodesInv'
<1> DEFINE i == ip[p]
           s == F!Ilock(fs, i)
           u == [s EXCEPT !.nlink[i] = @ - 1]
<1>1. iat[p] = "linkBad" /\ cwd' = cwd /\ ofile' = ofile /\ F!End(p, F!Iput(u, i))
  BY DEF F!LinkBad
<1>2. cur[p] = F!Nil /\ i \in F!Inums /\ fs.type[i] = "file"
  <2>1. Grip(p) /\ i \in F!Inums \cup {F!Nil}
    BY Before
  <2> QED BY <1>1, <2>1 DEF Grip
<1>3. Working(p, fs, F!Nil, F!Nil, F!Nil, i)
  BY <1>1, <1>2, WorkStarts
<1> HIDE DEF i
<1>4. Working(p, s, F!Nil, F!Nil, F!Nil, i) /\ s.valid[i] /\ s.type[i] = "file"
  BY <1>2, <1>3, WorkLocks DEF SameDisk
<1> HIDE DEF s
<1>5. Working(p, u, F!Nil, i, F!Nil, F!Nil) /\ u.valid[i]
  BY <1>2, <1>4, WorkUncounts
<1> HIDE DEF u
<1>6. Working(p, F!Iput(u, i), F!Nil, F!Nil, F!Nil, F!Nil)
  BY <1>2, <1>5, WorkPuts
<1> QED BY <1>1, <1>6, Ends
-----------------------------------------------------------------------------
(* A boot, the first one or after a crash.                                 *)
LEMMA AllPoint ==
  ASSUME NEW f, NEW c, \A q \in FsProcs : f[q] = c
  PROVE  \A x : PointsTo(f, x) = IF x = c THEN Cardinality(FsProcs) ELSE 0
<1> SUFFICES ASSUME NEW x
             PROVE  PointsTo(f, x) = IF x = c THEN Cardinality(FsProcs) ELSE 0
  OBVIOUS
<1>1. {q \in FsProcs : f[q] = x} = IF x = c THEN FsProcs ELSE {}
  OBVIOUS
<1> QED BY <1>1, FS_EmptySet DEF PointsTo

(* Every process is in the root, and nothing else is open.                 *)
Booted ==
  /\ cwd = [q \in FsProcs |-> F!ROOTINO] /\ ofile = [q \in FsProcs |-> F!Nil]
  /\ iat \in [FsProcs -> {"user"}] /\ cur \in [FsProcs -> {F!Nil}] /\ ip \in [FsProcs -> {F!Nil}]
  /\ fs.ref = [x \in F!Inums |-> IF x = F!ROOTINO THEN Cardinality(FsProcs) ELSE 0]

(* Then every pointer is right and counted.                                *)
LEMMA BootedGrips ==
  ASSUME Booted, fs.type[F!ROOTINO] = "dir"
  PROVE  /\ PointersOK /\ F!RefsExact /\ (\A p \in FsProcs : Grip(p)) /\ Apart
         /\ LinkCount = [x \in F!Inums |-> 0]
<1>1. /\ \A q \in FsProcs : /\ cwd[q] = F!ROOTINO /\ ofile[q] = F!Nil /\ iat[q] = "user"
                            /\ cur[q] = F!Nil /\ ip[q] = F!Nil
      /\ F!ROOTINO \in F!Inums /\ F!Nil \notin F!Inums
  BY InodeNumbers DEF Booted
<1>2. PointersOK
  BY <1>1 DEF Booted, PointersOK, CallPlaces
<1>3. F!RefsExact
  <2> SUFFICES ASSUME NEW x \in F!Inums
               PROVE  fs.ref[x] = PointsTo(cwd, x) + PointsTo(ofile, x) + PointsTo(cur, x) + PointsTo(ip, x)
    BY RefsAre
  <2>1. PointsTo(cwd, x) = IF x = F!ROOTINO THEN Cardinality(FsProcs) ELSE 0
    BY <1>1, AllPoint
  <2>2. PointsTo(ofile, x) = IF x = F!Nil THEN Cardinality(FsProcs) ELSE 0
    BY <1>1, AllPoint
  <2>3. PointsTo(cur, x) = IF x = F!Nil THEN Cardinality(FsProcs) ELSE 0
    BY <1>1, AllPoint
  <2>4. PointsTo(ip, x) = IF x = F!Nil THEN Cardinality(FsProcs) ELSE 0
    BY <1>1, AllPoint
  <2>5. Cardinality(FsProcs) \in Nat
    BY InodeNumbers, FS_CardinalityType
  <2>6. fs.ref[x] = IF x = F!ROOTINO THEN Cardinality(FsProcs) ELSE 0
    BY DEF Booted
  <2> QED BY <1>1, <2>1, <2>2, <2>3, <2>4, <2>5, <2>6
<1>4. \A p \in FsProcs : Grip(p)
  BY <1>1 DEF Grip
<1>5. Apart
  BY <1>1 DEF Apart
<1>6. LinkCount = [x \in F!Inums |-> 0]
  <2>1. \A q \in FsProcs : Linking[q] = F!Nil
    BY <1>1 DEF Linking
  <2>2. \A x : PointsTo(Linking, x) = IF x = F!Nil THEN Cardinality(FsProcs) ELSE 0
    BY <2>1, AllPoint
  <2>3. \A x \in F!Inums : PointsTo(Linking, x) = 0
    BY <1>1, <2>2
  <2> QED BY <2>3 DEF LinkCount
<1> QED BY <1>2, <1>3, <1>4, <1>5, <1>6

(* The invariant holds after the first boot.                               *)
LEMMA InodesInvInit ==
  ASSUME F!Init
  PROVE  InodesInv
<1> DEFINE l == [x \in F!Inums |-> 0]
<1>0. F!ROOTINO \in F!Inums /\ F!Nil \notin F!Inums /\ Cardinality(FsProcs) \in Nat
  BY InodeNumbers, FS_CardinalityType
<1>1. /\ fs.type = [x \in F!Inums |-> IF x = F!ROOTINO THEN "dir" ELSE "none"]
      /\ fs.nlink = [x \in F!Inums |-> IF x = F!ROOTINO THEN 1 ELSE 0]
      /\ fs.ent = [x \in F!Inums |-> F!NoEntries]
      /\ fs.up = [x \in F!Inums |-> IF x = F!ROOTINO THEN F!ROOTINO ELSE F!Nil]
      /\ fs.ref = [x \in F!Inums |-> IF x = F!ROOTINO THEN Cardinality(FsProcs) ELSE 0]
      /\ fs.valid = [x \in F!Inums |-> FALSE]
      /\ fs.removed = {} /\ fs.lost = {} /\ fs.stray = {}
  BY FsSize DEF F!Init
<1>2. fs \in FsType
  <2>1. fs = [type |-> fs.type, nlink |-> fs.nlink, ent |-> fs.ent, up |-> fs.up, ref |-> fs.ref,
              valid |-> fs.valid, removed |-> fs.removed, lost |-> fs.lost, stray |-> fs.stray]
    BY DEF F!Init
  <2>2. fs.type \in [F!Inums -> {"none", "file", "dir"}] /\ fs.nlink \in [F!Inums -> Nat]
    BY <1>1
  <2>3. fs.ref \in [F!Inums -> Nat] /\ fs.valid \in [F!Inums -> BOOLEAN]
    BY <1>0, <1>1
  <2>4. fs.ent \in [F!Inums -> [Names -> F!Inums \cup {F!Nil}]] /\ fs.up \in [F!Inums -> F!Inums \cup {F!Nil}]
    BY <1>0, <1>1 DEF F!NoEntries
  <2>5. fs.removed \in SUBSET F!Inums /\ fs.lost \in SUBSET F!Inums /\ fs.stray \in SUBSET F!Inums
    BY <1>1
  <2> QED BY <2>1, <2>2, <2>3, <2>4, <2>5 DEF FsType
<1>3. \A d \in F!Inums, n \in Names : fs.ent[d][n] = F!Nil
  BY <1>1 DEF F!NoEntries
<1>4. LinksCounted(fs, l)
  <2> SUFFICES ASSUME NEW x \in F!Inums
               PROVE  /\ fs.nlink[x] = Owed(fs, l, x) /\ l[x] = 0 /\ x \notin fs.lost /\ fs.nlink[x] \in Nat
    BY DEF LinksCounted
  <2>1. NamesOf(fs, x) = {}
    BY <1>0, <1>3 DEF NamesOf
  <2>2. ChildrenOf(fs, x) = {}
    BY <1>0, <1>1 DEF ChildrenOf
  <2>3. Cardinality(NamesOf(fs, x)) = 0 /\ Cardinality(ChildrenOf(fs, x)) = 0
    BY <2>1, <2>2, FS_EmptySet
  <2> QED BY <1>1, <2>3 DEF Owed
<1>5. EntriesGood(fs)
  BY <1>3 DEF EntriesGood
<1>6. KindsGood(fs)
  BY <1>0, <1>1 DEF KindsGood
<1>7. DirsNamed(fs)
  BY <1>1 DEF DirsNamed
<1>8. NoneLost(fs)
  BY <1>1 DEF NoneLost
<1>9. Booted
  <2>1. /\ cwd = [q \in FsProcs |-> F!ROOTINO] /\ ofile = [q \in FsProcs |-> F!Nil]
        /\ iat = [q \in FsProcs |-> "user"] /\ cur = [q \in FsProcs |-> F!Nil] /\ ip = [q \in FsProcs |-> F!Nil]
    BY DEF F!Init
  <2> QED BY <1>1, <2>1 DEF Booted
<1>10. InodesGood(fs, l)
  <2> HIDE DEF l
  <2> QED BY <1>2, <1>4, <1>5, <1>6, <1>7, <1>8 DEF InodesGood
<1>11. /\ PointersOK /\ F!RefsExact /\ (\A p \in FsProcs : Grip(p)) /\ Apart
       /\ LinkCount = l
  BY <1>0, <1>1, <1>9, BootedGrips
<1> HIDE DEF l
<1> QED BY <1>10, <1>11 DEF InodesInv

(* A crash leaves the disk alone, and what iput would have freed is lost.  *)
LEMMA CrashFields ==
  ASSUME F!Crash, fs \in FsType
  PROVE  /\ fs' \in FsType
         /\ fs'.type = fs.type /\ fs'.nlink = fs.nlink /\ fs'.ent = fs.ent /\ fs'.up = fs.up
         /\ fs'.removed = fs.removed /\ fs'.stray = fs.stray
         /\ fs'.ref = [x \in F!Inums |-> IF x = F!ROOTINO THEN Cardinality(FsProcs) ELSE 0]
         /\ fs'.lost = fs.lost \cup {x \in F!Inums : fs.type[x] # "none" /\ fs.nlink[x] = 0}
<1> DEFINE r == [x \in F!Inums |-> IF x = F!ROOTINO THEN Cardinality(FsProcs) ELSE 0]
           v == [x \in F!Inums |-> FALSE]
           b == fs.lost \cup {x \in F!Inums : fs.type[x] # "none" /\ fs.nlink[x] = 0}
<1>1. fs' = [fs EXCEPT !.ref = r, !.valid = v, !.lost = b]
  BY FsSize DEF F!Crash
<1>2. r \in [F!Inums -> Nat] /\ v \in [F!Inums -> BOOLEAN]
  <2>1. Cardinality(FsProcs) \in Nat
    BY InodeNumbers, FS_CardinalityType
  <2> QED BY <2>1
<1>3. b \in SUBSET F!Inums
  BY DEF FsType
<1> HIDE DEF r, v, b
<1>4. fs' \in FsType
  BY <1>1, <1>2, <1>3 DEF FsType
<1>5. /\ fs'.type = fs.type /\ fs'.nlink = fs.nlink /\ fs'.ent = fs.ent /\ fs'.up = fs.up
      /\ fs'.removed = fs.removed /\ fs'.stray = fs.stray /\ fs'.ref = r /\ fs'.lost = b
  BY <1>1 DEF FsType
<1> QED BY <1>4, <1>5 DEF r, b

(* The invariant holds after a crash, too.                                 *)
LEMMA CrashInodes ==
  ASSUME InodesInv, F!Crash
  PROVE  InodesInv'
<1> DEFINE l == [x \in F!Inums |-> 0]
           b == fs.lost \cup {x \in F!Inums : fs.type[x] # "none" /\ fs.nlink[x] = 0}
<1>1. PointersOK /\ InodesGood(fs, LinkCount) /\ fs \in FsType /\ \A p \in FsProcs : Grip(p)
  BY DEF InodesInv, InodesGood
<1>2. /\ \A p \in FsProcs : iat[p] = "user"
      /\ cwd' = [p \in FsProcs |-> F!ROOTINO] /\ ofile' = [p \in FsProcs |-> F!Nil]
      /\ iat' = iat /\ cur' = cur /\ ip' = ip
  BY DEF F!Crash
<1>3. /\ fs' \in FsType
      /\ fs'.type = fs.type /\ fs'.nlink = fs.nlink /\ fs'.ent = fs.ent /\ fs'.up = fs.up
      /\ fs'.removed = fs.removed
      /\ fs'.ref = [x \in F!Inums |-> IF x = F!ROOTINO THEN Cardinality(FsProcs) ELSE 0]
      /\ fs'.lost = b
  BY <1>1, CrashFields
<1>4. \A p \in FsProcs : cur[p] = F!Nil /\ ip[p] = F!Nil
  BY <1>1, <1>2 DEF Grip
<1>5. LinkCount = l
  <2>1. \A q \in FsProcs : Linking[q] = F!Nil
    BY <1>4 DEF Linking
  <2>2. \A x : PointsTo(Linking, x) = IF x = F!Nil THEN Cardinality(FsProcs) ELSE 0
    BY <2>1, AllPoint
  <2>3. \A x \in F!Inums : PointsTo(Linking, x) = 0
    BY <2>2, InodeNumbers
  <2> QED BY <2>3 DEF LinkCount
<1>6. LinksCounted(fs, l) /\ EntriesGood(fs) /\ KindsGood(fs) /\ DirsNamed(fs) /\ InodesGood(fs, l)
  BY <1>1, <1>5 DEF InodesGood
<1>7. l \in [F!Inums -> Nat] /\ \A x \in F!Inums : l[x] = 0
  OBVIOUS
<1> HIDE DEF l
<1>8. ASSUME NEW x \in F!Inums, fs.nlink[x] = 0
      PROVE  x # F!ROOTINO /\ (fs.type[x] = "dir" => x \in fs.removed)
  BY <1>6, <1>7, <1>8, Unlinked
<1>9. \A x \in b : x \in fs.lost \/ (x \in F!Inums /\ fs.type[x] # "none" /\ fs.nlink[x] = 0)
  OBVIOUS
<1>10. \A x : x \in fs.lost => x \in b
  OBVIOUS
<1>11. \A x \in F!Inums : fs.type[x] # "none" /\ fs.nlink[x] = 0 => x \in b
  OBVIOUS
<1> HIDE DEF b
<1>12. \A x \in F!Inums : Owed(fs', l, x) = Owed(fs, l, x) /\ ChildrenOf(fs', x) = ChildrenOf(fs, x)
  BY <1>3 DEF Owed, NamesOf, ChildrenOf
<1>13. LinksCounted(fs', l)
  <2> SUFFICES ASSUME NEW x \in F!Inums
               PROVE  /\ fs'.nlink[x] >= Owed(fs', l, x)
                      /\ x \notin fs'.lost => fs'.nlink[x] = Owed(fs', l, x)
                      /\ x \in fs'.lost \ fs'.removed /\ fs'.type[x] = "dir" => fs'.nlink[x] > Cardinality(ChildrenOf(fs', x))
                      /\ l[x] > 0 => fs'.type[x] = "file"
    BY DEF LinksCounted
  <2>1. /\ fs.nlink[x] >= Owed(fs, l, x)
        /\ x \notin fs.lost => fs.nlink[x] = Owed(fs, l, x)
        /\ x \in fs.lost \ fs.removed /\ fs.type[x] = "dir" => fs.nlink[x] > Cardinality(ChildrenOf(fs, x))
        /\ l[x] > 0 => fs.type[x] = "file"
    BY <1>6 DEF LinksCounted
  <2>2. x \notin fs'.lost => x \notin fs.lost
    BY <1>3, <1>10
  <2>3. x \in fs'.lost \ fs'.removed /\ fs'.type[x] = "dir" => x \in fs.lost \ fs.removed /\ fs.type[x] = "dir"
    BY <1>3, <1>8, <1>9
  <2> QED BY <1>3, <1>12, <2>1, <2>2, <2>3
<1>14. EntriesGood(fs')
  <2>1. \A x : x \in fs.lost => x \in fs'.lost
    BY <1>3, <1>10
  <2> QED BY <1>3, <1>6, <2>1 DEF EntriesGood
<1>15. KindsGood(fs')
  <2>1. F!ROOTINO \notin fs'.removed \cup fs'.lost
    BY <1>3, <1>6, <1>8, <1>9 DEF KindsGood
  <2>2. \A x \in fs'.lost : fs'.type[x] # "none"
    BY <1>3, <1>6, <1>9 DEF KindsGood
  <2> QED BY <1>3, <1>6, <2>1, <2>2 DEF KindsGood
<1>16. DirsNamed(fs')
  <2>1. \A x : x \notin fs'.removed \cup fs'.lost => x \notin fs.removed \cup fs.lost
    BY <1>3, <1>10
  <2> QED BY <1>3, <1>6, <2>1 DEF DirsNamed
<1>17. NoneLost(fs')
  <2> SUFFICES ASSUME NEW x \in F!Inums, fs.type[x] # "none", x # F!ROOTINO, x \notin b
               PROVE  \/ \E d \in F!Inums, n \in Names : fs.ent[d][n] = x
                      \/ x \in fs.removed /\ fs.nlink[x] > 0
    BY <1>3 DEF NoneLost
  <2>1. fs.nlink[x] > 0 /\ x \notin fs.lost
    <3>1. fs.nlink[x] \in Nat
      BY <1>1 DEF FsType
    <3> QED BY <1>10, <1>11, <3>1
  <2> QED BY <1>6, <1>7, <2>1, Linked
<1>18. InodesGood(fs', l)
  BY <1>3, <1>13, <1>14, <1>15, <1>16, <1>17 DEF InodesGood
<1>19. Booted'
  BY <1>1, <1>2, <1>3, <1>4 DEF Booted, PointersOK
<1>20. fs'.type[F!ROOTINO] = "dir"
  BY <1>3, <1>6 DEF KindsGood
<1>21. /\ PointersOK' /\ F!RefsExact' /\ (\A p \in FsProcs : Grip(p)') /\ Apart'
       /\ LinkCount' = l
  <2>1. (Booted /\ fs.type[F!ROOTINO] = "dir" =>
           /\ PointersOK /\ F!RefsExact /\ (\A p \in FsProcs : Grip(p)) /\ Apart
           /\ LinkCount = [x \in F!Inums |-> 0])'
    BY BootedGrips, PTL
  <2> QED BY <1>19, <1>20, <2>1 DEF l
<1> QED BY <1>18, <1>21 DEF InodesInv
-----------------------------------------------------------------------------
(* The invariant of the inodes.                                            *)
LEMMA InodesInvStep ==
  ASSUME InodesInv, F!Next
  PROVE  InodesInv'
<1>1. F!Running
  BY DEF F!Next
<1>2. CASE F!Crash
  BY <1>2, CrashInodes
<1>3. ASSUME NEW p \in FsProcs,
             \/ F!Call(p) \/ F!Walk(p) \/ F!Open(p) \/ F!Chdir(p) \/ F!Close(p) \/ F!Creat(p) \/ F!Mkdir(p)
             \/ F!CreateGot(p) \/ F!UnlinkDir(p) \/ F!UnlinkIp(p) \/ F!Link(p) \/ F!LinkNew(p) \/ F!LinkBad(p)
      PROVE  InodesInv'
  <2>1. CASE F!Call(p)
    BY <1>1, <2>1, CallInodes
  <2>2. CASE F!Walk(p)
    BY <1>1, <2>2, WalkInodes
  <2>3. CASE F!Open(p)
    BY <1>1, <2>3, OpenInodes
  <2>4. CASE F!Chdir(p)
    BY <1>1, <2>4, ChdirInodes
  <2>5. CASE F!Close(p)
    BY <1>1, <2>5, CloseInodes
  <2>6. CASE F!Creat(p)
    BY <1>1, <2>6, CreatInodes
  <2>7. CASE F!Mkdir(p)
    BY <1>1, <2>7, MkdirInodes
  <2>8. CASE F!CreateGot(p)
    BY <1>1, <2>8, CreateGotInodes
  <2>9. CASE F!UnlinkDir(p)
    BY <1>1, <2>9, UnlinkDirInodes
  <2>10. CASE F!UnlinkIp(p)
    BY <1>1, <2>10, UnlinkIpInodes
  <2>11. CASE F!Link(p)
    BY <1>1, <2>11, LinkInodes
  <2>12. CASE F!LinkNew(p)
    BY <1>1, <2>12, LinkNewInodes
  <2>13. CASE F!LinkBad(p)
    BY <1>1, <2>13, LinkBadInodes
  <2> QED BY <1>3, <2>1, <2>2, <2>3, <2>4, <2>5, <2>6, <2>7, <2>8, <2>9, <2>10, <2>11, <2>12, <2>13
<1> QED BY <1>2, <1>3 DEF F!Next

(* Nor does what the other parts do disturb it.                            *)
LEMMA InodesInvStutter ==
  ASSUME InodesInv, UNCHANGED inodeVars
  PROVE  InodesInv'
<1>1. fs' = fs /\ cwd' = cwd /\ ofile' = ofile /\ iat' = iat /\ cur' = cur /\ ip' = ip
  BY DEF inodeVars
<1>2. PointersOK' /\ F!RefsExact'
  BY <1>1 DEF InodesInv, PointersOK, F!RefsExact
<1>3. \A p \in FsProcs : Grip(p)'
  BY <1>1 DEF InodesInv, Grip
<1>4. Apart'
  BY <1>1 DEF InodesInv, Apart
<1>5. LinkCount' = LinkCount
  BY <1>1 DEF LinkCount, Linking, PointsTo
<1> QED BY <1>1, <1>2, <1>3, <1>4, <1>5 DEF InodesInv

(* From it follow the counts and the types,                                *)
LEMMA InodesInvCounts ==
  ASSUME InodesInv
  PROVE  F!CountsExact
<1>1. /\ PointersOK /\ InodesGood(fs, LinkCount) /\ fs \in FsType /\ F!RefsExact /\ LinksCounted(fs, LinkCount)
      /\ EntriesGood(fs) /\ DirsNamed(fs) /\ NoneLost(fs)
  BY DEF InodesInv, InodesGood
<1>2. F!InodesTypeOK
  <2>1. /\ fs.type \in [F!Inums -> {"none", "file", "dir"}]
        /\ fs.nlink \in [F!Inums -> Nat] /\ fs.ref \in [F!Inums -> Nat]
        /\ fs.ent \in [F!Inums -> [Names -> F!Inums \cup {F!Nil}]]
    BY <1>1 DEF FsType
  <2>2. /\ fs.up \in [F!Inums -> F!Inums \cup {F!Nil}] /\ fs.valid \in [F!Inums -> BOOLEAN]
        /\ fs.removed \subseteq F!Inums /\ fs.lost \subseteq F!Inums /\ fs.stray \subseteq F!Inums
    BY <1>1 DEF FsType
  <2> QED BY <1>1, <2>1, <2>2 DEF F!InodesTypeOK, PointersOK, CallPlaces
<1>3. \A i \in F!Inums : F!Named(i) = NamesOf(fs, i) /\ F!Children(i) = ChildrenOf(fs, i)
  BY DEF F!Named, F!Children, NamesOf, ChildrenOf
<1>4. F!LinksExact
  <2> SUFFICES ASSUME NEW i \in F!Inums \ fs.lost
               PROVE  fs.nlink[i] = Cardinality(F!Named(i)) + Cardinality(F!Children(i))
                        + (IF i = F!ROOTINO THEN 1 ELSE 0)
                        + Cardinality({p \in FsProcs : ip[p] = i /\ iat[p] # "unlinkIp"})
    BY FsSize DEF F!LinksExact
  <2>1. fs.nlink[i] = Owed(fs, LinkCount, i)
    BY <1>1 DEF LinksCounted
  <2>2. {p \in FsProcs : Linking[p] = i} = {p \in FsProcs : ip[p] = i /\ iat[p] # "unlinkIp"}
    BY InodeNumbers DEF Linking
  <2>3. LinkCount[i] = Cardinality({p \in FsProcs : ip[p] = i /\ iat[p] # "unlinkIp"})
    BY <2>2 DEF LinkCount, PointsTo
  <2> QED BY <1>3, <2>1, <2>3 DEF Owed
<1>5. F!NamesAlive
  BY <1>1 DEF F!NamesAlive, F!NoType, EntriesGood, DirsNamed
<1>6. F!NothingLost
  <2> SUFFICES ASSUME NEW i \in F!Inums, fs.type[i] # "none", fs.ref[i] = 0
               PROVE  i = F!ROOTINO \/ i \in fs.lost \/ F!Named(i) # {} \/ (i \in fs.removed /\ fs.nlink[i] > 0)
    BY DEF F!NothingLost
  <2>1. ASSUME NEW d \in F!Inums, NEW n \in Names, fs.ent[d][n] = i
        PROVE  F!Named(i) # {}
    <3>1. <<d, n>> \in NamesOf(fs, i)
      BY <2>1 DEF NamesOf
    <3> QED BY <1>3, <3>1
  <2> QED BY <1>1, <2>1 DEF NoneLost
<1> QED BY <1>1, <1>2, <1>4, <1>5, <1>6 DEF F!CountsExact

(* and where the kernel stops.                                             *)
LEMMA InodesInvPanics ==
  ASSUME InodesInv
  PROVE  F!PanicsOnlyAbove
<1>1. PointersOK /\ EntriesGood(fs) /\ \A p \in FsProcs : Grip(p)
  BY DEF InodesInv, InodesGood
<1>2. ASSUME NEW p \in FsProcs, iat[p] = "panic"
      PROVE  F!NoType(cur[p]) /\ cur[p] \in fs.stray
  BY <1>1, <1>2 DEF Grip, F!NoType
<1>3. ASSUME NEW p \in FsProcs, NEW q \in FsProcs, iat[p] = "unlinkIp", iat[q] = "unlinkIp",
             ip[p] = cur[q], ip[q] = cur[p]
      PROVE  FALSE
  <2>1. /\ {cur[p], cur[q], ip[p]} \subseteq F!Inums \cup {F!Nil}
        /\ cur[p] # F!Nil /\ cur[q] # F!Nil
    BY <1>1, <1>3 DEF PointersOK, Grip
  <2>2. PICK n \in Names : fs.ent[cur[p]][n] = cur[q]
    BY <1>1, <1>3 DEF Grip
  <2>3. PICK m \in Names : fs.ent[cur[q]][m] = cur[p]
    BY <1>1, <1>3 DEF Grip
  <2>4. \A b \in Names : fs.ent[fs.ent[cur[p]][n]][b] # cur[p]
    BY <1>1, <2>1, <2>2 DEF EntriesGood
  <2> QED BY <2>2, <2>3, <2>4
<1> QED BY <1>2, <1>3 DEF F!PanicsOnlyAbove
-----------------------------------------------------------------------------
(* The proofs about the driver.  They do not look at the variables of the  *)
(* cache, which may be anything here.                                      *)
D == INSTANCE DiskStackProofs WITH
       Procs <- DiskProcs, block <- io, valid <- io, refcnt <- io, lru <- io, locked <- io,
       pc <- io, buf <- io, dirty <- io, pinned <- io

(* What the four parts know.                                               *)
KernelInv == PipeInv /\ D!VirtioInv /\ ConsInv /\ InodesInv

(* Their constants.                                                        *)
LEMMA PartConstants ==
  /\ P!PipeConstants /\ D!VirtioConstants
  /\ D!IsFiniteSet(DiskProcs) /\ D!IsFiniteSet(Bufs)
BY KernelConstants DEF V!VirtioConstants, D!VirtioConstants, IsFiniteSet, D!IsFiniteSet

(* The driver DiskStackProofs speaks of is the one that is checked.        *)
LEMMA SameDriver ==
  /\ V!DriverInit => D!DriverInit
  /\ V!VirtioNext => D!VirtioNext
  /\ UNCHANGED V!driverVars => UNCHANGED D!driverVars
  /\ D!DescriptorsAccounted => V!DescriptorsAccounted
<1>1. V!DriverInit => D!DriverInit
  BY DEF V!DriverInit, D!DriverInit, V!Desc, D!Desc
<1>2. \A S : V!Cardinality(S) = D!Cardinality(S)
  BY DEF V!Cardinality, D!Cardinality
<1> USE DEF V!descVars, D!descVars, V!ringVars, D!ringVars, V!Chain, D!Chain, V!Desc, D!Desc
<1>3. \A p \in DiskProcs : V!Rw(p) => D!Rw(p)
  BY <1>2 DEF V!Rw, D!Rw, V!Queue, D!Queue, V!Full, D!Full, V!Least, D!Least, V!WakeFull, D!WakeFull
<1>4. \A p \in DiskProcs : V!Return(p) => D!Return(p)
  BY DEF V!Return, D!Return, V!WakeFull, D!WakeFull
<1>5. V!Intr => D!Intr
  BY DEF V!Intr, D!Intr, V!IntrAck, D!IntrAck, V!IntrNext, D!IntrNext, V!IntrEnd, D!IntrEnd
<1>6. V!Device => D!Device
  BY DEF V!Device, D!Device, V!DeviceDone, D!DeviceDone
<1>7. V!VirtioNext => D!VirtioNext
  BY <1>3, <1>4, <1>5, <1>6 DEF V!VirtioNext, D!VirtioNext, V!Driver, D!Driver
<1>8. UNCHANGED V!driverVars => UNCHANGED D!driverVars
  BY DEF V!driverVars, D!driverVars
<1>9. D!DescriptorsAccounted => V!DescriptorsAccounted
  BY <1>2 DEF V!DescriptorsAccounted, D!DescriptorsAccounted, V!VirtioTypeOK, D!VirtioTypeOK, V!IO, D!IO
<1> QED BY <1>1, <1>7, <1>8, <1>9

(* Its invariant, with the callers of MCVirtio.                            *)
LEMMA DriverStep ==
  ASSUME D!VirtioInv, V!Next \/ UNCHANGED diskVars
  PROVE  D!VirtioInv'
<1>1. CASE V!VirtioNext
  BY <1>1, PartConstants, SameDriver, D!VirtioInvStep
<1>2. ASSUME NEW p \in DiskProcs, V!Call(p)
      PROVE  D!VirtioInv'
  <2>1. PICK b \in Bufs, k \in Blocks, w \in BOOLEAN :
               io' = [io EXCEPT ![p] = [buf |-> b, block |-> k, write |-> w]]
    BY <1>2 DEF V!Call
  <2> DEFINE r == [buf |-> b, block |-> k, write |-> w]
  <2>2. r \in D!IO
    BY DEF D!IO
  <2>3. io' = [io EXCEPT ![p] = r]
    BY <2>1
  <2>4. io[p] = NoIO /\ UNCHANGED D!driverVars
    BY <1>2, SameDriver DEF V!Call
  <2> HIDE DEF r
  <2> QED BY <2>2, <2>3, <2>4, PartConstants, D!NewCall
<1>3. CASE UNCHANGED diskVars
  <2>1. UNCHANGED <<io, D!driverVars>>
    BY <1>3 DEF diskVars, D!driverVars, D!descVars, D!ringVars
  <2> QED BY <2>1, PartConstants, D!DataStep
<1> QED BY <1>1, <1>2, <1>3 DEF V!Next
-----------------------------------------------------------------------------
(* Every part starts right.                                                *)
LEMMA KernelInvInit == Init => KernelInv
<1>1. Init => PipeInv
  BY PartConstants, PipeInvInit DEF Init
<1>2. Init => D!VirtioInv
  BY PartConstants, SameDriver, D!VirtioInvInit DEF Init, V!Init
<1>3. Init => ConsInv
  BY ConsInvInit DEF Init
<1>4. Init => InodesInv
  BY InodesInvInit DEF Init
<1> QED BY <1>1, <1>2, <1>3, <1>4 DEF KernelInv

(* Whichever part moves, all of them stay right.                           *)
LEMMA KernelInvStep ==
  ASSUME KernelInv, [Next]_vars
  PROVE  KernelInv'
<1>1. [P!Next]_pipeVars
  BY DEF Next, vars
<1>2. V!Next \/ UNCHANGED diskVars
  BY DEF Next, vars
<1>3. [C!Next]_consVars
  BY DEF Next, vars
<1>4. PipeInv'
  BY <1>1, PartConstants, PipeInvStep DEF KernelInv
<1>5. D!VirtioInv'
  BY <1>2, DriverStep DEF KernelInv
<1>6. ConsInv'
  BY <1>3, RingStep, ReadersStep DEF KernelInv, ConsInv
<1>7. F!Next \/ UNCHANGED inodeVars
  BY DEF Next, vars
<1>8. InodesInv'
  BY <1>7, InodesInvStep, InodesInvStutter DEF KernelInv
<1> QED BY <1>4, <1>5, <1>6, <1>8 DEF KernelInv

(* So they always are.                                                     *)
LEMMA KernelInvariant == Spec => []KernelInv
<1>1. KernelInv /\ [Next]_vars => KernelInv'
  BY KernelInvStep
<1> QED BY <1>1, KernelInvInit, PTL DEF Spec
-----------------------------------------------------------------------------
(* No sleeper of a pipe is forgotten, the references to its ends are       *)
(* counted, and its page is given back once, when nobody can use it.       *)
THEOREM PipeIsSafe == Spec => []PipeSafe
<1>1. KernelInv => PipeSafe
  BY PartConstants, PipeInvSafe DEF KernelInv, PipeSafe
<1> QED BY <1>1, KernelInvariant, PTL

(* Bytes leave a pipe in the order they went in, for every size of the     *)
(* ring and every width of the counters that it divides.                   *)
THEOREM PipeIsFifo == Spec => ImplementsFifo
<1>1. Init => P!PipeFifo!Init
  BY PartConstants, FifoInit DEF Init
<1>2. KernelInv /\ KernelInv' /\ [Next]_vars => [part = "pipe" => P!PipeFifo!Next]_(P!PipeFifo!fifoVars)
  <2> SUFFICES ASSUME KernelInv, KernelInv', [Next]_vars
               PROVE  [P!PipeFifo!Next]_(P!PipeFifo!fifoVars)
    OBVIOUS
  <2>1. [P!Next]_pipeVars
    BY DEF Next, vars
  <2> QED BY <2>1, PartConstants, FifoStep DEF KernelInv
<1> QED BY <1>1, <1>2, KernelInvariant, PTL DEF Spec, ImplementsFifo

(* Every descriptor of the disk is free or in one request of three, and    *)
(* the handler will find the request.                                      *)
THEOREM DriverIsSafe == Spec => []DescriptorsAccounted
<1>1. KernelInv => DescriptorsAccounted
  BY PartConstants, SameDriver, D!VirtioInvSafe DEF KernelInv, DescriptorsAccounted
<1> QED BY <1>1, KernelInvariant, PTL

(* A reader of the console sleeps only while no line is complete, and the  *)
(* ring never holds more than fits.                                        *)
THEOREM NoReaderForgotten == Spec => []ReaderSleeps
<1>1. KernelInv => ReaderSleeps
  BY DEF KernelInv, ConsInv, ConsTypeOK, Between, Readers, Position, ReaderSleeps, C!ReaderSleeps
<1> QED BY <1>1, KernelInvariant, PTL

(* Links and references of inodes are counted, whatever the interleaving   *)
(* of the steps of system calls and after a crash: nlink counts the names, *)
(* the parents' links of ".." and the links on their way, ref counts the   *)
(* pointers of processes; every name leads to an inode that is not free;   *)
(* and what nobody can get to is free on the disk, but for what had no     *)
(* name at a crash, or got its name in a directory that was removed.       *)
THEOREM InodesAreCounted == Spec => []CountsExact
<1>1. KernelInv => CountsExact
  BY InodesInvCounts DEF KernelInv, CountsExact
<1> QED BY <1>1, KernelInvariant, PTL

(* ilock panics for want of a type only on an inode that a call got when   *)
(* it was free already, through the ".." of a removed directory, and two   *)
(* calls of unlink never wait for each other's directory.                  *)
THEOREM PanicsOnlyThere == Spec => []PanicsOnlyAbove
<1>1. KernelInv => PanicsOnlyAbove
  BY InodesInvPanics DEF KernelInv, PanicsOnlyAbove
<1> QED BY <1>1, KernelInvariant, PTL

(* The console is a line editor: the wrap of its ring and of the indices,  *)
(* and the end-of-file that is put back, lose, repeat and reorder nothing, *)
(* for every size of the ring and every width of the indices it divides.   *)
THEOREM ConsoleIsLineEditor == Spec => ImplementsLineEditor
<1>1. Init => C!Lines!Init
  <2> SUFFICES ASSUME Init
               PROVE  C!Lines!Init
    OBVIOUS
  <2>1. ConsTypeOK /\ consR = consW /\ consW = consE
    BY KernelInvInit DEF KernelInv, ConsInv, Init, C!Init
  <2>2. Segment(cbuf, consR, consW) = <<>> /\ Segment(cbuf, consW, consE) = <<>>
    BY <2>1, SegmentEmpty DEF ConsTypeOK
  <2> QED BY <2>2, Seen DEF C!Lines!Init
<1>2. KernelInv /\ [Next]_vars => [part = "console" => C!Lines!Next]_(C!Lines!editorVars)
  <2> SUFFICES ASSUME KernelInv, [Next]_vars
               PROVE  [C!Lines!Next]_(C!Lines!editorVars)
    OBVIOUS
  <2>1. [C!Next]_consVars
    BY DEF Next, vars
  <2> QED BY <2>1, LineStep DEF KernelInv
<1> QED BY <1>1, <1>2, KernelInvariant, PTL DEF Spec, ImplementsLineEditor
=============================================================================
