--------------------------- MODULE DiskStackProofs ---------------------------
(***************************************************************************)
(* Proofs about the buffer cache over the disk driver, for every number of *)
(* processes, buffers, blocks and descriptors, and whatever order the      *)
(* device works in.  First the driver: its lemmas speak of the variables   *)
(* of Virtio only, so that they hold with other callers too.               *)
(***************************************************************************)
EXTENDS DiskStack, Integers, FiniteSetTheorems, WellFoundedInduction, TLAPS

InCall == {"queued", "woken"}
D0(p) == head[p]
D1(p) == next[head[p]]
D2(p) == next[next[head[p]]]

(* A process in virtio_disk_rw with descriptors has a chain of three, which *)
(* is not free; two chains share nothing; what is in no chain is free.      *)
Chains ==
  /\ \A p \in Procs : st[p] \in InCall =>
       /\ io[p] # NoIO
       /\ D0(p) \in Desc /\ D1(p) \in Desc /\ D2(p) \in Desc
       /\ D0(p) # D1(p) /\ D0(p) # D2(p) /\ D1(p) # D2(p)
       /\ Chain(head[p]) \cap free = {}
  /\ \A p, q \in Procs : st[p] \in InCall /\ st[q] \in InCall /\ p # q =>
       Chain(head[p]) \cap Chain(head[q]) = {}
  /\ \A d \in Desc : d \in free \/ \E p \in Procs : st[p] \in InCall /\ d \in Chain(head[p])

(* The chain of a queued request says what was asked for, and the handler  *)
(* will meet it.                                                           *)
Requests ==
  \A p \in Procs : st[p] = "queued" =>
    /\ ops[D0(p)] = [block |-> io[p].block, write |-> io[p].write]
    /\ info[D0(p)] = io[p].buf /\ addr[D1(p)] = io[p].buf
    /\ D0(p) \in avail \/ \E i \in 1..Len(used) : used[i] = D0(p)

VirtioInv == VirtioTypeOK /\ Chains /\ Requests
-----------------------------------------------------------------------------
(* A set of numbers has a least one.                                       *)
LEMMA LeastIsIn ==
  ASSUME NEW S \in SUBSET Nat, S # {}
  PROVE  Least(S) \in S
<1>1. \E x \in S : \A y \in S : ~(<<y, x>> \in OpToRel(<, Nat))
  BY NatLessThanWellFounded, WFMin
<1>2. \E x \in S : \A y \in S : ~(y < x)
  BY <1>1 DEF OpToRel
<1>3. \E x \in S : \A y \in S : x <= y
  BY <1>2
<1> QED BY <1>3 DEF Least

(* Three descriptors are three.                                            *)
LEMMA ThreeOf ==
  ASSUME NEW S, IsFiniteSet(S), Cardinality(S) >= 3, S \subseteq Desc, NUM \in Nat
  PROVE  LET d0 == Least(S)
             d1 == Least(S \ {d0})
             d2 == Least(S \ {d0, d1})
         IN /\ d0 \in S /\ d1 \in S /\ d2 \in S
            /\ d0 # d1 /\ d0 # d2 /\ d1 # d2
<1> DEFINE d0 == Least(S)
           d1 == Least(S \ {d0})
           d2 == Least(S \ {d0, d1})
<1>0. S \in SUBSET Nat
  BY DEF Desc
<1>1. d0 \in S
  <2>1. S # {}
    BY FS_EmptySet
  <2> QED BY <1>0, <2>1, LeastIsIn
<1>2. d1 \in S \ {d0}
  <2>1. IsFiniteSet(S \ {d0}) /\ Cardinality(S \ {d0}) = Cardinality(S) - 1 /\ Cardinality(S) \in Nat
    BY <1>1, FS_RemoveElement, FS_CardinalityType
  <2>2. S \ {d0} # {}
    BY <2>1, FS_EmptySet
  <2>3. S \ {d0} \in SUBSET Nat
    BY <1>0
  <2> HIDE DEF d0
  <2> QED BY <2>2, <2>3, LeastIsIn
<1>3. d2 \in S \ {d0, d1}
  <2>1. IsFiniteSet(S \ {d0}) /\ Cardinality(S \ {d0}) = Cardinality(S) - 1 /\ Cardinality(S) \in Nat
    BY <1>1, FS_RemoveElement, FS_CardinalityType
  <2> HIDE DEF d0, d1
  <2>2. Cardinality((S \ {d0}) \ {d1}) = Cardinality(S) - 2
    <3> DEFINE T == S \ {d0}
    <3>1. IsFiniteSet(T) /\ d1 \in T /\ Cardinality(T) = Cardinality(S) - 1
      BY <1>2, <2>1
    <3> HIDE DEF T
    <3>2. Cardinality(T \ {d1}) = Cardinality(T) - 1
      BY <3>1, FS_RemoveElement
    <3>3. Cardinality(T \ {d1}) = Cardinality(S) - 2
      BY <2>1, <3>1, <3>2
    <3> QED BY <3>3 DEF T
  <2>3. (S \ {d0}) \ {d1} = S \ {d0, d1}
    OBVIOUS
  <2>4. S \ {d0, d1} # {}
    BY <2>1, <2>2, <2>3, FS_EmptySet
  <2>5. S \ {d0, d1} \in SUBSET Nat
    BY <1>0
  <2> QED BY <2>4, <2>5, LeastIsIn DEF d2
<1> QED BY <1>1, <1>2, <1>3
-----------------------------------------------------------------------------
(* A step that leaves the descriptors and the calls under way alone.       *)
LEMMA OthersStep ==
  ASSUME VirtioInv, VirtioTypeOK', UNCHANGED <<free, next, addr, ops, info, head>>,
         \A p \in Procs : st[p] \in InCall <=> st'[p] \in InCall,
         \A p \in Procs : st[p] \in InCall => io'[p] = io[p],
         \A p \in Procs : st'[p] = "queued" =>
           /\ st[p] = "queued"
           /\ head[p] \in avail' \/ \E i \in 1..Len(used') : used'[i] = head[p]
  PROVE  VirtioInv'
<1>1. Chains'
  <2>1. \A d : Chain(d)' = Chain(d)
    BY DEF Chain
  <2>2. \A p \in Procs : D0(p)' = D0(p) /\ D1(p)' = D1(p) /\ D2(p)' = D2(p)
    BY DEF D0, D1, D2
  <2> QED BY <2>1, <2>2 DEF VirtioInv, Chains
<1>2. Requests'
  BY DEF VirtioInv, Requests, D0, D1, InCall
<1> QED BY <1>1, <1>2 DEF VirtioInv

(* virtio_disk_rw, when it gets its descriptors: a new chain from what was *)
(* free.                                                                   *)
LEMMA QueueStep ==
  ASSUME VirtioConstants, VirtioInv, NEW p \in Procs, io[p] # NoIO, st[p] \in {"idle", "retry"},
         NEW d0 \in free, NEW d1 \in free, NEW d2 \in free, d0 # d1, d0 # d2, d1 # d2,
         Queue(p, d0, d1, d2), UNCHANGED <<io, data, disk>>
  PROVE  VirtioInv'
<1>t. VirtioTypeOK /\ Chains /\ Requests
  BY DEF VirtioInv
<1>c. io[p] \in IO /\ d0 \in Desc /\ d1 \in Desc /\ d2 \in Desc /\ st[p] \notin InCall
  BY <1>t DEF VirtioTypeOK, InCall
<1>1. /\ free' = free \ {d0, d1, d2}
      /\ \A d \in Desc : next'[d] = IF d = d0 THEN d1 ELSE IF d = d1 THEN d2 ELSE IF d = d2 THEN None ELSE next[d]
      /\ \A q \in Procs : st'[q] = IF q = p THEN "queued" ELSE st[q]
      /\ \A q \in Procs : head'[q] = IF q = p THEN d0 ELSE head[q]
      /\ io' = io /\ used' = used /\ avail' = avail \cup {d0}
  BY <1>t, <1>c DEF Queue, VirtioTypeOK
<1>2. VirtioTypeOK'
  BY <1>t, <1>c DEF Queue, VirtioTypeOK, IO
<1>3. D0(p)' = d0 /\ D1(p)' = d1 /\ D2(p)' = d2 /\ Chain(head[p])' = {d0, d1, d2}
  BY <1>1, <1>c DEF D0, D1, D2, Chain
<1>4. ASSUME NEW q \in Procs, st[q] \in InCall
      PROVE  /\ q # p /\ D0(q)' = D0(q) /\ D1(q)' = D1(q) /\ D2(q)' = D2(q)
             /\ Chain(head[q])' = Chain(head[q])
             /\ d0 \notin Chain(head[q]) /\ d1 \notin Chain(head[q]) /\ d2 \notin Chain(head[q])
  <2>1. D0(q) \in Desc /\ D1(q) \in Desc /\ Chain(head[q]) = {D0(q), D1(q), D2(q)}
        /\ Chain(head[q]) \cap free = {} /\ q # p
    BY <1>4, <1>c, <1>t DEF Chains, Chain, D0, D1, D2
  <2>2. \A d \in Chain(head[q]) : d # d0 /\ d # d1 /\ d # d2
    BY <2>1
  <2>3. D0(q)' = D0(q)
    BY <1>1, <2>1 DEF D0
  <2>4. D1(q)' = D1(q)
    BY <1>1, <2>1, <2>2, <2>3 DEF D0, D1
  <2>5. D2(q)' = D2(q)
    BY <1>1, <2>1, <2>2, <2>3, <2>4 DEF D0, D1, D2
  <2>6. Chain(head[q])' = {D0(q)', D1(q)', D2(q)'}
    BY DEF Chain, D0, D1, D2
  <2> QED BY <2>1, <2>2, <2>3, <2>4, <2>5, <2>6
<1>5. \A q \in Procs : st'[q] \in InCall <=> q = p \/ st[q] \in InCall
  BY <1>1 DEF InCall
<1>6. Chains'
  <2>1. ASSUME NEW q \in Procs, st'[q] \in InCall
        PROVE  /\ io'[q] # NoIO
               /\ D0(q)' \in Desc /\ D1(q)' \in Desc /\ D2(q)' \in Desc
               /\ D0(q)' # D1(q)' /\ D0(q)' # D2(q)' /\ D1(q)' # D2(q)'
               /\ Chain(head[q])' \cap free' = {}
    <3>1. CASE q = p
      BY <1>1, <1>3, <1>c, <3>1
    <3>2. CASE q # p
      BY <1>1, <1>4, <1>5, <1>t, <2>1, <3>2 DEF Chains
    <3> QED BY <3>1, <3>2
  <2>2. ASSUME NEW q \in Procs, NEW r \in Procs, st'[q] \in InCall, st'[r] \in InCall, q # r
        PROVE  Chain(head[q])' \cap Chain(head[r])' = {}
    <3>1. CASE q = p
      BY <1>3, <1>4, <1>5, <2>2, <3>1
    <3>2. CASE r = p
      BY <1>3, <1>4, <1>5, <2>2, <3>2
    <3>3. CASE q # p /\ r # p
      BY <1>4, <1>5, <1>t, <2>2, <3>3 DEF Chains
    <3> QED BY <3>1, <3>2, <3>3
  <2>3. ASSUME NEW d \in Desc, d \notin free'
        PROVE  \E q \in Procs : st'[q] \in InCall /\ d \in Chain(head[q])'
    <3>1. CASE d \in {d0, d1, d2}
      BY <1>3, <1>5, <3>1
    <3>2. CASE d \notin {d0, d1, d2}
      <4>1. PICK q \in Procs : st[q] \in InCall /\ d \in Chain(head[q])
        BY <1>1, <1>t, <2>3, <3>2 DEF Chains
      <4> QED BY <1>4, <1>5, <4>1
    <3> QED BY <3>1, <3>2
  <2> QED BY <2>1, <2>2, <2>3 DEF Chains
<1>7. Requests'
  <2>1. /\ \A d \in Desc : d # d0 => ops'[d] = ops[d] /\ info'[d] = info[d]
        /\ \A d \in Desc : d # d1 => addr'[d] = addr[d]
        /\ ops'[d0] = [block |-> io[p].block, write |-> io[p].write]
        /\ info'[d0] = io[p].buf /\ addr'[d1] = io[p].buf
    BY <1>t, <1>c DEF Queue, VirtioTypeOK
  <2>2. ASSUME NEW q \in Procs, st'[q] = "queued"
        PROVE  /\ ops'[D0(q)'] = [block |-> io'[q].block, write |-> io'[q].write]
               /\ info'[D0(q)'] = io'[q].buf /\ addr'[D1(q)'] = io'[q].buf
               /\ D0(q)' \in avail' \/ \E i \in 1..Len(used') : used'[i] = D0(q)'
    <3>1. CASE q = p
      BY <1>1, <1>3, <2>1, <3>1
    <3>2. CASE q # p
      <4>1. st[q] = "queued" /\ st[q] \in InCall
        BY <1>1, <2>2, <3>2 DEF InCall
      <4>2. /\ D0(q)' = D0(q) /\ D1(q)' = D1(q) /\ D0(q) \in Desc /\ D1(q) \in Desc
            /\ D0(q) # d0 /\ D1(q) # d1
        <5>1. D0(q) \in Chain(head[q]) /\ D1(q) \in Chain(head[q])
          BY DEF Chain, D0, D1
        <5> QED BY <1>4, <1>t, <4>1, <5>1 DEF Chains
      <4> QED BY <1>1, <1>t, <2>1, <4>1, <4>2 DEF Requests
    <3> QED BY <3>1, <3>2
  <2> QED BY <2>2 DEF Requests
<1> QED BY <1>2, <1>6, <1>7 DEF VirtioInv
(* virtio_disk_rw returns: its chain is free again, the others are as they *)
(* were.                                                                   *)
LEMMA ReturnStep ==
  ASSUME VirtioConstants, VirtioInv, NEW p \in Procs, Return(p)
  PROVE  VirtioInv'
<1>t. VirtioTypeOK /\ Chains /\ Requests
  BY DEF VirtioInv
<1>c. st[p] = "woken" /\ st[p] \in InCall /\ Chain(head[p]) = {D0(p), D1(p), D2(p)}
      /\ D0(p) \in Desc /\ D1(p) \in Desc /\ D2(p) \in Desc /\ D0(p) = head[p]
  BY <1>t DEF Return, InCall, Chain, Chains, D0, D1, D2
<1>1. /\ free' = free \cup Chain(head[p])
      /\ \A d \in Desc : next'[d] = IF d \in Chain(head[p]) THEN None ELSE next[d]
      /\ \A d \in Desc : addr'[d] = IF d \in Chain(head[p]) THEN None ELSE addr[d]
      /\ \A d \in Desc : d # head[p] => info'[d] = info[d]
      /\ \A q \in Procs : head'[q] = IF q = p THEN None ELSE head[q]
      /\ \A q \in Procs : io'[q] = IF q = p THEN NoIO ELSE io[q]
      /\ ops' = ops /\ used' = used /\ avail' = avail
  BY <1>t DEF Return, VirtioTypeOK
<1>2. VirtioTypeOK'
  <2>1. free' \subseteq Desc
    BY <1>t, <1>c, <1>1 DEF VirtioTypeOK
  <2>2. next' \in [Desc -> Desc \cup {None}] /\ addr' \in [Desc -> Bufs \cup {None}]
    BY <1>t DEF Return, VirtioTypeOK
  <2>3. st' \in [Procs -> {"idle", "full", "retry", "queued", "woken"}]
    BY <1>t DEF Return, WakeFull, VirtioTypeOK
  <2> QED BY <1>t, <2>1, <2>2, <2>3 DEF Return, VirtioTypeOK
<1>3. \A q \in Procs : /\ st'[q] \in InCall <=> q # p /\ st[q] \in InCall
                       /\ st'[q] = "queued" => st[q] = "queued" /\ q # p
  BY <1>t DEF Return, WakeFull, InCall, VirtioTypeOK
<1>4. ASSUME NEW q \in Procs, q # p, st[q] \in InCall
      PROVE  /\ D0(q)' = D0(q) /\ D1(q)' = D1(q) /\ D2(q)' = D2(q)
             /\ Chain(head[q])' = Chain(head[q])
             /\ D0(q) # head[p] /\ D1(q) \notin Chain(head[p])
             /\ Chain(head[q]) \cap Chain(head[p]) = {}
             /\ D0(q) \in Desc /\ D1(q) \in Desc
  <2>1. D0(q) \in Desc /\ D1(q) \in Desc /\ Chain(head[q]) = {D0(q), D1(q), D2(q)}
        /\ Chain(head[q]) \cap Chain(head[p]) = {}
    BY <1>4, <1>c, <1>t DEF Chains, Chain, D0, D1, D2
  <2>2. \A d \in Chain(head[q]) : d \notin Chain(head[p])
    BY <2>1
  <2>3. D0(q)' = D0(q)
    BY <1>1, <1>4 DEF D0
  <2>4. D1(q)' = D1(q)
    BY <1>1, <2>1, <2>2, <2>3 DEF D0, D1
  <2>5. D2(q)' = D2(q)
    BY <1>1, <2>1, <2>2, <2>3, <2>4 DEF D0, D1, D2
  <2>6. Chain(head[q])' = {D0(q)', D1(q)', D2(q)'}
    BY DEF Chain, D0, D1, D2
  <2> QED BY <1>c, <2>1, <2>2, <2>3, <2>4, <2>5, <2>6
<1>5. Chains'
  <2>1. ASSUME NEW q \in Procs, st'[q] \in InCall
        PROVE  /\ io'[q] # NoIO
               /\ D0(q)' \in Desc /\ D1(q)' \in Desc /\ D2(q)' \in Desc
               /\ D0(q)' # D1(q)' /\ D0(q)' # D2(q)' /\ D1(q)' # D2(q)'
               /\ Chain(head[q])' \cap free' = {}
    BY <1>1, <1>3, <1>4, <1>t, <2>1 DEF Chains
  <2>2. ASSUME NEW q \in Procs, NEW r \in Procs, st'[q] \in InCall, st'[r] \in InCall, q # r
        PROVE  Chain(head[q])' \cap Chain(head[r])' = {}
    BY <1>3, <1>4, <1>t, <2>2 DEF Chains
  <2>3. ASSUME NEW d \in Desc, d \notin free'
        PROVE  \E q \in Procs : st'[q] \in InCall /\ d \in Chain(head[q])'
    <3>1. PICK q \in Procs : st[q] \in InCall /\ d \in Chain(head[q])
      BY <1>1, <1>t, <2>3 DEF Chains
    <3>2. q # p
      BY <1>1, <2>3, <3>1
    <3> QED BY <1>3, <1>4, <3>1, <3>2
  <2> QED BY <2>1, <2>2, <2>3 DEF Chains
<1>6. Requests'
  <2>1. ASSUME NEW q \in Procs, st'[q] = "queued"
        PROVE  /\ ops'[D0(q)'] = [block |-> io'[q].block, write |-> io'[q].write]
               /\ info'[D0(q)'] = io'[q].buf /\ addr'[D1(q)'] = io'[q].buf
               /\ D0(q)' \in avail' \/ \E i \in 1..Len(used') : used'[i] = D0(q)'
    <3>1. st[q] = "queued" /\ st[q] \in InCall /\ q # p
      BY <1>3, <2>1 DEF InCall
    <3> QED BY <1>1, <1>4, <1>t, <3>1 DEF Requests
  <2> QED BY <2>1 DEF Requests
<1> QED BY <1>2, <1>5, <1>6 DEF VirtioInv

(* The interrupt handler wakes exactly the process whose request it takes  *)
(* from the used ring, so nobody's request is forgotten.                   *)
LEMMA IntrStep ==
  ASSUME VirtioConstants, VirtioInv, IntrNext
  PROVE  VirtioInv'
<1>t. VirtioTypeOK /\ Chains /\ Requests
  BY DEF VirtioInv
<1> DEFINE b == info[Head(used)]
<1>1. /\ used \in Seq(Desc) /\ used # <<>> /\ used' = Tail(used) /\ avail' = avail
      /\ UNCHANGED <<free, next, addr, ops, info, head, io>>
      /\ \A q \in Procs : st'[q] = IF st[q] = "queued" /\ io[q].buf = b THEN "woken" ELSE st[q]
  BY <1>t DEF IntrNext, descVars, VirtioTypeOK
<1>2. VirtioTypeOK'
  <2>1. used' \in Seq(Desc) /\ busy' \subseteq Bufs
    BY <1>1, <1>t DEF IntrNext, VirtioTypeOK
  <2>2. st' \in [Procs -> {"idle", "full", "retry", "queued", "woken"}]
    BY <1>t DEF IntrNext, VirtioTypeOK
  <2> QED BY <1>t, <2>1, <2>2 DEF IntrNext, descVars, VirtioTypeOK
<1>3. ASSUME NEW q \in Procs, st'[q] = "queued"
      PROVE  /\ st[q] = "queued"
             /\ head[q] \in avail' \/ \E i \in 1..Len(used') : used'[i] = head[q]
  <2>1. st[q] = "queued" /\ io[q].buf # b
    BY <1>1, <1>3
  <2>2. info[head[q]] = io[q].buf
        /\ (head[q] \in avail \/ \E i \in 1..Len(used) : used[i] = head[q])
    BY <1>t, <2>1 DEF Requests, D0
  <2>3. CASE head[q] \in avail
    BY <1>1, <2>1, <2>3
  <2>4. ASSUME NEW i \in 1..Len(used), used[i] = head[q]
        PROVE  \E j \in 1..Len(used') : used'[j] = head[q]
    <3>1. i # 1
      BY <1>1, <2>1, <2>2, <2>4
    <3>2. Len(used') = Len(used) - 1 /\ \A j \in 1..Len(used') : used'[j] = used[j + 1]
      BY <1>1
    <3>3. i - 1 \in 1..Len(used') /\ (i - 1) + 1 = i
      BY <1>1, <3>1, <3>2
    <3> QED BY <2>4, <3>2, <3>3
  <2> QED BY <2>1, <2>2, <2>3, <2>4
<1>4. \A q \in Procs : st[q] \in InCall <=> st'[q] \in InCall
  BY <1>1 DEF InCall
<1> HIDE DEF b
<1> QED BY <1>1, <1>2, <1>3, <1>4, OthersStep

(* The device takes a chain from one ring to the other.                    *)
LEMMA DeviceStep ==
  ASSUME VirtioInv, NEW d \in Desc, DeviceDone(d)
  PROVE  VirtioInv'
<1>t. VirtioTypeOK /\ Chains /\ Requests
  BY DEF VirtioInv
<1>1. /\ used \in Seq(Desc) /\ used' = Append(used, d) /\ avail' = avail \ {d}
      /\ UNCHANGED <<free, next, addr, ops, info, head, io, st>>
  BY <1>t DEF DeviceDone, descVars, VirtioTypeOK
<1>2. VirtioTypeOK'
  <2>1. used' \in Seq(Desc) /\ avail' \subseteq Desc /\ irq' = TRUE /\ busy' = busy /\ handling' = handling
    BY <1>1, <1>t DEF DeviceDone, VirtioTypeOK
  <2> QED BY <1>t, <1>1, <2>1 DEF VirtioTypeOK
<1>3. Len(used') = Len(used) + 1 /\ used'[Len(used) + 1] = d
      /\ \A i \in 1..Len(used) : used'[i] = used[i]
  BY <1>1
<1>4. ASSUME NEW q \in Procs, st'[q] = "queued"
      PROVE  /\ st[q] = "queued"
             /\ head[q] \in avail' \/ \E i \in 1..Len(used') : used'[i] = head[q]
  <2>1. st[q] = "queued" /\ (head[q] \in avail \/ \E i \in 1..Len(used) : used[i] = head[q])
    BY <1>1, <1>4, <1>t DEF Requests, D0
  <2>2. Len(used) \in Nat
    BY <1>1
  <2>3. CASE head[q] \in avail
    BY <1>1, <1>3, <2>1, <2>2, <2>3
  <2>4. CASE \E i \in 1..Len(used) : used[i] = head[q]
    BY <1>3, <2>1, <2>2, <2>4
  <2> QED BY <2>1, <2>3, <2>4
<1> QED BY <1>1, <1>2, <1>4, OthersStep

(* Everything else leaves the chains alone.                                *)
LEMMA VirtioInvStep ==
  ASSUME VirtioConstants, VirtioInv, VirtioNext
  PROVE  VirtioInv'
<1> USE DEF descVars, ringVars, driverVars
<1>t. VirtioTypeOK /\ Chains /\ Requests
  BY DEF VirtioInv
<1>1. ASSUME VirtioTypeOK', UNCHANGED <<free, next, addr, ops, info, head, avail, used>>,
             \A q \in Procs : st[q] \in InCall <=> st'[q] \in InCall,
             \A q \in Procs : st[q] \in InCall => io'[q] = io[q] /\ st'[q] = st[q]
      PROVE  VirtioInv'
  <2>1. ASSUME NEW q \in Procs, st'[q] = "queued"
        PROVE  /\ st[q] = "queued"
               /\ head[q] \in avail' \/ \E i \in 1..Len(used') : used'[i] = head[q]
    <3>1. st[q] = "queued"
      BY <1>1, <2>1 DEF InCall
    <3> QED BY <1>1, <1>t, <3>1 DEF Requests, D0
  <2> QED BY <1>1, <2>1, OthersStep
<1>3. ASSUME NEW p \in Procs, Rw(p)
      PROVE  VirtioInv'
  <2>1. CASE Cardinality(free) >= 3
    <3> DEFINE d0 == Least(free)
               d1 == Least(free \ {d0})
               d2 == Least(free \ {d0, d1})
    <3>1. Queue(p, d0, d1, d2) /\ UNCHANGED <<io, data, disk>> /\ io[p] # NoIO /\ st[p] \in {"idle", "retry"}
      BY <1>3, <2>1 DEF Rw
    <3>2. free \subseteq Desc /\ NUM \in Nat /\ IsFiniteSet(free)
      <4>1. IsFiniteSet(Desc)
        BY FS_Interval DEF Desc, VirtioConstants
      <4> QED BY <1>t, <4>1, FS_Subset DEF VirtioTypeOK, VirtioConstants
    <3>3. /\ d0 \in free /\ d1 \in free /\ d2 \in free
          /\ d0 # d1 /\ d0 # d2 /\ d1 # d2
      BY <2>1, <3>2, ThreeOf
    <3> HIDE DEF d0, d1, d2
    <3> QED BY <3>1, <3>3, QueueStep
  <2>2. CASE ~(Cardinality(free) >= 3)
    <3>1. Full(p) /\ UNCHANGED <<io, data, disk>> /\ st[p] \in {"idle", "retry"}
      BY <1>3, <2>2 DEF Rw
    <3>2. st' \in [Procs -> {"idle", "full", "retry", "queued", "woken"}]
      BY <1>t, <3>1 DEF Full, WakeFull, VirtioTypeOK
    <3>3. VirtioTypeOK'
      BY <1>t, <3>1, <3>2 DEF Full, VirtioTypeOK
    <3>4. \A q \in Procs : /\ st[q] \in InCall <=> st'[q] \in InCall
                           /\ st[q] \in InCall => st'[q] = st[q]
      BY <1>t, <3>1 DEF Full, WakeFull, InCall, VirtioTypeOK
    <3> QED BY <1>1, <3>1, <3>3, <3>4 DEF Full
  <2> QED BY <2>1, <2>2
<1>4. CASE IntrAck \/ IntrEnd
  <2>1. VirtioTypeOK'
    BY <1>4, <1>t DEF IntrAck, IntrEnd, VirtioTypeOK
  <2> QED BY <1>1, <1>4, <2>1 DEF IntrAck, IntrEnd
<1> QED BY <1>3, <1>4, ReturnStep, IntrStep, DeviceStep
        DEF VirtioNext, Driver, Intr, Device

(* A new call has no chain yet.                                            *)
LEMMA NewCall ==
  ASSUME VirtioInv, NEW p \in Procs, NEW r \in IO, io[p] = NoIO,
         io' = [io EXCEPT ![p] = r], UNCHANGED driverVars
  PROVE  VirtioInv'
<1> USE DEF descVars, ringVars, driverVars
<1>t. VirtioTypeOK /\ Chains /\ Requests
  BY DEF VirtioInv
<1>1. VirtioTypeOK'
  <2>1. io' \in [Procs -> IO \cup {NoIO}]
    BY <1>t DEF VirtioTypeOK
  <2> QED BY <1>t, <2>1 DEF VirtioTypeOK
<1>2. \A q \in Procs : st[q] \in InCall => io'[q] = io[q]
  BY <1>t DEF Chains, VirtioTypeOK
<1>3. ASSUME NEW q \in Procs, st'[q] = "queued"
      PROVE  /\ st[q] = "queued"
             /\ head[q] \in avail' \/ \E i \in 1..Len(used') : used'[i] = head[q]
  BY <1>3, <1>t DEF Requests, D0
<1> QED BY <1>1, <1>2, <1>3, OthersStep

(* The driver does not care what its callers have in their buffers.        *)
LEMMA DataStep ==
  ASSUME VirtioInv, UNCHANGED <<io, driverVars>>
  PROVE  VirtioInv'
<1>1. VirtioTypeOK'
  BY DEF VirtioInv, VirtioTypeOK, driverVars, descVars, ringVars
<1>2. ASSUME NEW q \in Procs, st'[q] = "queued"
      PROVE  /\ st[q] = "queued"
             /\ head[q] \in avail' \/ \E i \in 1..Len(used') : used'[i] = head[q]
  BY <1>2 DEF VirtioInv, Requests, D0, driverVars, descVars, ringVars
<1> QED BY <1>1, <1>2, OthersStep DEF driverVars, descVars, ringVars

(* At the start every descriptor is free.                                  *)
LEMMA VirtioInvInit ==
  ASSUME DriverInit, io = [p \in Procs |-> NoIO]
  PROVE  VirtioInv
<1>1. VirtioTypeOK
  <2>1. /\ io \in [Procs -> IO \cup {NoIO}] /\ free \subseteq Desc
        /\ next \in [Desc -> Desc \cup {None}] /\ addr \in [Desc -> Bufs \cup {None}]
        /\ info \in [Desc -> Bufs \cup {None}] /\ head \in [Procs -> Desc \cup {None}]
    BY DEF DriverInit
  <2>2. ops \in [Desc -> [block : Blocks \cup {None}, write : BOOLEAN]]
    BY DEF DriverInit
  <2>3. st \in [Procs -> {"idle", "full", "retry", "queued", "woken"}]
    BY DEF DriverInit
  <2>4. used = <<>> /\ busy = {} /\ avail = {} /\ irq = FALSE /\ handling = FALSE
    BY DEF DriverInit
  <2>5. used \in Seq(Desc)
    BY <2>4
  <2> QED BY <2>1, <2>2, <2>3, <2>4, <2>5 DEF VirtioTypeOK
<1> QED BY <1>1 DEF DriverInit, VirtioInv, Chains, Requests, InCall

(* Then every descriptor is accounted for.                                 *)
LEMMA VirtioInvSafe == VirtioInv => DescriptorsAccounted
<1> SUFFICES ASSUME VirtioInv
             PROVE  DescriptorsAccounted
  OBVIOUS
<1>t. VirtioTypeOK /\ Chains /\ Requests
  BY DEF VirtioInv
<1> DEFINE active == {p \in Procs : st[p] \in {"queued", "woken"}}
<1>1. ASSUME NEW p \in active
      PROVE  Cardinality(Chain(head[p]) \cap Desc) = 3 /\ Chain(head[p]) \cap free = {}
  <2>1. /\ D0(p) \in Desc /\ D1(p) \in Desc /\ D2(p) \in Desc
        /\ D0(p) # D1(p) /\ D0(p) # D2(p) /\ D1(p) # D2(p)
        /\ Chain(head[p]) \cap free = {}
    BY <1>t DEF Chains, InCall
  <2>2. Chain(head[p]) \cap Desc = ({D0(p)} \cup {D1(p)}) \cup {D2(p)}
    BY <2>1 DEF Chain, D0, D1, D2
  <2>3. IsFiniteSet({D0(p)}) /\ Cardinality({D0(p)}) = 1
    BY FS_Singleton
  <2>4. IsFiniteSet({D0(p)} \cup {D1(p)}) /\ Cardinality({D0(p)} \cup {D1(p)}) = 2
    BY <2>1, <2>3, FS_AddElement
  <2>5. Cardinality(({D0(p)} \cup {D1(p)}) \cup {D2(p)}) = 3
    <3> DEFINE T == {D0(p)} \cup {D1(p)}
    <3>1. IsFiniteSet(T) /\ Cardinality(T) = 2 /\ D2(p) \notin T
      BY <2>1, <2>4
    <3> HIDE DEF T
    <3>2. Cardinality(T \cup {D2(p)}) = Cardinality(T) + 1
      BY <3>1, FS_AddElement
    <3>3. Cardinality(T \cup {D2(p)}) = 3
      BY <3>1, <3>2
    <3> QED BY <3>3 DEF T
  <2> QED BY <2>1, <2>2, <2>5
<1>2. \A p, q \in active : p # q => Chain(head[p]) \cap Chain(head[q]) = {}
  BY <1>t DEF Chains, InCall
<1>3. free = Desc \ UNION {Chain(head[p]) : p \in active}
  <2>1. \A d \in free : d \in Desc /\ \A p \in active : d \notin Chain(head[p])
    BY <1>1, <1>t DEF VirtioTypeOK
  <2>2. \A d \in Desc \ free : \E p \in active : d \in Chain(head[p])
    BY <1>t DEF Chains, InCall
  <2> QED BY <2>1, <2>2
<1> QED BY <1>t, <1>1, <1>2, <1>3 DEF DescriptorsAccounted, Requests, D0, D1
-----------------------------------------------------------------------------

Holding == {"read", "reading", "got", "writing"}
InHand == {"got", "writing"}

(* Who has which buffer, and what is known of it.                          *)
Places ==
  /\ \A p \in Procs : pc[p] \in {"idle", "panic"} <=> buf[p] = None
  /\ \A p \in Procs : pc[p] \in Holding => locked[buf[p]] = p
  /\ \A p \in Procs : buf[p] # None => block[buf[p]] # None
  /\ \A p \in Procs : pc[p] \in InHand => buf[p] \in valid
  /\ \A p \in Procs : pc[p] \in {"read", "reading"} => buf[p] \notin valid
  /\ \A p \in Procs : pc[p] = "writing" => buf[p] \in dirty

(* A buffer that is not dirty has what is on the disk; one that is dirty is *)
(* in somebody's hands or pinned.                                          *)
Clean ==
  /\ dirty \subseteq valid /\ \A b \in valid : block[b] # None
  /\ \A b \in valid \ dirty : data[b] = disk[block[b]]
  /\ \A b \in dirty : b \in pinned \/ \E p \in Procs : buf[p] = b /\ pc[p] \in InHand

(* What the driver is asked for.                                           *)
Calling ==
  \A p \in Procs : io[p] # NoIO =>
    /\ pc[p] \in {"reading", "writing"}
    /\ io[p].buf = buf[p] /\ io[p].block = block[buf[p]]
    /\ io[p].write <=> pc[p] = "writing"

(* What is in the two rings is asked for, once.                            *)
Rings ==
  /\ \A d \in avail : \E p \in Procs : st[p] = "queued" /\ head[p] = d
  /\ \A i \in 1..Len(used) : used[i] \notin avail /\ \E p \in Procs : st[p] = "queued" /\ head[p] = used[i]
  /\ \A i, j \in 1..Len(used) : used[i] = used[j] => i = j

(* The device has done what p asked for; then buffer and disk agree.       *)
Done(p) ==
  /\ pc[p] \in {"reading", "writing"}
  /\ io[p] = NoIO \/ st[p] = "woken" \/ (st[p] = "queued" /\ head[p] \notin avail)
Transferred == \A p \in Procs : Done(p) => data[buf[p]] = disk[block[buf[p]]]

StackInv ==
  /\ VirtioInv /\ CacheConsistent
  /\ Places /\ Clean /\ Calling /\ Rings /\ Transferred
-----------------------------------------------------------------------------
(* Who works on a buffer works on a block.                                 *)
LEMMA Has ==
  ASSUME StackInv, NEW p \in Procs, pc[p] \notin {"idle", "panic"}
  PROVE  buf[p] \in Bufs /\ block[buf[p]] \in Blocks /\ buf[p] # None
<1>1. Places /\ CacheTypeOK
  BY DEF StackInv, CacheConsistent
<1>2. buf[p] # None /\ buf[p] \in Bufs
  BY <1>1 DEF Places, CacheTypeOK
<1> QED BY <1>1, <1>2 DEF Places, CacheTypeOK

(* Nobody else holds the buffer of one who holds it, nor one of its block. *)
LEMMA Alone ==
  ASSUME StackInv, NEW p \in Procs, NEW q \in Procs, pc[p] \in Holding, pc[q] \in Holding, p # q
  PROVE  /\ buf[p] # buf[q] /\ block[buf[p]] # block[buf[q]]
         /\ buf[p] \in Bufs /\ buf[q] \in Bufs /\ block[buf[p]] \in Blocks
<1>1. Places /\ OneBufferPerBlock /\ CacheTypeOK
  BY DEF StackInv, CacheConsistent
<1>2. buf[p] # buf[q] /\ buf[p] # None /\ buf[q] # None
  BY <1>1 DEF Places, Holding
<1>3. buf[p] \in Bufs /\ buf[q] \in Bufs
  BY <1>1, <1>2 DEF CacheTypeOK
<1>4. block[buf[p]] # None /\ block[buf[p]] \in Blocks
  BY <1>1, <1>2, <1>3 DEF Places, CacheTypeOK
<1> QED BY <1>1, <1>2, <1>3, <1>4 DEF OneBufferPerBlock

(* What the driver's invariant says of the requests.                       *)
LEMMA Queued ==
  ASSUME VirtioInv, NEW p \in Procs, st[p] = "queued"
  PROVE  /\ io[p] # NoIO /\ head[p] \in Desc
         /\ ops[head[p]].block = io[p].block /\ ops[head[p]].write = io[p].write
         /\ info[head[p]] = io[p].buf /\ addr[next[head[p]]] = io[p].buf
         /\ \A q \in Procs : st[q] \in {"queued", "woken"} /\ q # p => head[q] # head[p]
         /\ head[p] \notin free
<1>1. VirtioTypeOK /\ Chains /\ Requests
  BY DEF VirtioInv
<1>2. /\ io[p] # NoIO /\ head[p] \in Desc
  BY <1>1 DEF Chains, InCall, D0, Desc
<1>3. /\ ops[head[p]].block = io[p].block /\ ops[head[p]].write = io[p].write
      /\ info[head[p]] = io[p].buf /\ addr[next[head[p]]] = io[p].buf
  <2>1. ops[head[p]] = [block |-> io[p].block, write |-> io[p].write]
    BY <1>1 DEF Requests, D0
  <2>2. ops[head[p]].block = io[p].block
    BY <2>1
  <2>3. ops[head[p]].write = io[p].write
    BY <2>1
  <2> QED BY <1>1, <2>2, <2>3 DEF Requests, D0, D1
<1>4. \A q \in Procs : head[q] \in Chain(head[q])
  BY DEF Chain
<1>5. \A q \in Procs : st[q] \in {"queued", "woken"} /\ q # p => head[q] # head[p]
  BY <1>1, <1>4 DEF Chains, InCall
<1>6. head[p] \notin free
  BY <1>1, <1>4 DEF Chains, InCall
<1> QED BY <1>2, <1>3, <1>5, <1>6

(* Whoever is in the driver is waiting for it.                             *)
LEMMA Waiting ==
  ASSUME StackInv, NEW p \in Procs, st[p] \in {"queued", "woken"}
  PROVE  io[p] # NoIO /\ pc[p] \in {"reading", "writing"}
<1>1. io[p] # NoIO
  BY DEF StackInv, VirtioInv, Chains, InCall
<1> QED BY <1>1 DEF StackInv, Calling
-----------------------------------------------------------------------------
(* The driver's steps keep its own invariant.                              *)
LEMMA DriverKeeps ==
  ASSUME StackInv, VirtioNext
  PROVE  VirtioInv'
BY StackConstants, VirtioInvStep DEF StackInv

(* They leave the books of the cache alone.                                *)
LEMMA BooksSame ==
  ASSUME StackInv, UNCHANGED cacheVars
  PROVE  Places' /\ OneBufferPerBlock' /\ RefcntCounts'
BY DEF StackInv, CacheConsistent, Places, OneBufferPerBlock, RefcntCounts, Users, cacheVars, listVars

(* A step of the driver that neither transfers nor ends a transfer.        *)
LEMMA NothingDone ==
  ASSUME StackInv, UNCHANGED <<cacheVars, io, data, disk>>,
         \A p \in Procs : Done(p)' => Done(p)
  PROVE  CacheTypeOK' /\ Clean' /\ Calling' /\ Transferred'
<1> USE DEF cacheVars, listVars
<1>1. CacheTypeOK'
  BY DEF StackInv, CacheConsistent, CacheTypeOK
<1>2. Clean' /\ Calling'
  BY DEF StackInv, Clean, Calling
<1>3. Transferred'
  BY DEF StackInv, Transferred
<1> QED BY <1>1, <1>2, <1>3

(* virtio_disk_rw up to the sleep.                                         *)
LEMMA RwServes ==
  ASSUME StackInv, NEW p \in Procs, Rw(p), UNCHANGED cacheVars
  PROVE  StackInv'
<1>t. VirtioTypeOK /\ Rings /\ VirtioInv
  BY DEF StackInv, VirtioInv
<1>v. VirtioInv'
  BY DriverKeeps DEF VirtioNext, Driver
<1>1. CASE Cardinality(free) >= 3
  <2>0. PICK d0 \in Desc : (\E d1, d2 : Queue(p, d0, d1, d2)) /\ io[p] # NoIO /\ st[p] \in {"idle", "retry"} /\ d0 \in free
    <3>1. free \in SUBSET Nat /\ free # {}
      <4>1. free \subseteq Desc
        BY <1>t DEF VirtioTypeOK, Desc
      <4>2. free # {}
        BY <1>1, FS_EmptySet
      <4> QED BY <4>1, <4>2 DEF Desc
    <3>2. Least(free) \in free
      BY <3>1, LeastIsIn DEF Least
    <3>3. Least(free) \in Desc
      BY <1>t, <3>2 DEF VirtioTypeOK, Desc
    <3> QED BY <1>1, <3>2, <3>3 DEF Rw
  <2>1. PICK d1, d2 : Queue(p, d0, d1, d2) /\ io[p] # NoIO /\ st[p] \in {"idle", "retry"} /\ d0 \in free
    BY <2>0
  <2>2. /\ UNCHANGED <<io, data, disk, used>> /\ avail' = avail \cup {d0}
        /\ \A q \in Procs : st'[q] = IF q = p THEN "queued" ELSE st[q]
        /\ \A q \in Procs : head'[q] = IF q = p THEN d0 ELSE head[q]
    BY <1>t, <2>1 DEF Rw, Queue, VirtioTypeOK
  <2>3. \A q \in Procs : Done(q)' => Done(q)
    BY <2>1, <2>2 DEF Done, cacheVars
  <2>4. \A q \in Procs : st[q] = "queued" => head[q] # d0 /\ q # p
    BY <1>t, <2>1, Queued
  <2>5. Rings'
    BY <1>t, <2>1, <2>2, <2>4 DEF Rings
  <2> QED BY <1>v, <2>2, <2>3, <2>5, BooksSame, NothingDone DEF StackInv, CacheConsistent
<1>2. CASE ~(Cardinality(free) >= 3)
  <2>1. Full(p) /\ UNCHANGED <<io, data, disk, avail, used, head>> /\ st[p] \in {"idle", "retry"}
    BY <1>2 DEF Rw, Full, ringVars
  <2>2. \A q \in Procs : /\ st'[q] = "queued" <=> st[q] = "queued"
                         /\ st'[q] = "woken" <=> st[q] = "woken"
    BY <1>t, <2>1 DEF Full, WakeFull, VirtioTypeOK
  <2>3. \A q \in Procs : Done(q)' => Done(q)
    BY <2>1, <2>2 DEF Done, cacheVars
  <2>4. Rings'
    BY <1>t, <2>1, <2>2 DEF Rings
  <2> QED BY <1>v, <2>1, <2>3, <2>4, BooksSame, NothingDone DEF StackInv, CacheConsistent
<1> QED BY <1>1, <1>2

(* virtio_disk_rw returns: what it was asked for is done.                  *)
LEMMA ReturnServes ==
  ASSUME StackInv, NEW p \in Procs, Return(p), UNCHANGED cacheVars
  PROVE  StackInv'
<1>t. VirtioTypeOK /\ Rings /\ VirtioInv /\ Calling /\ Transferred /\ Clean /\ CacheTypeOK
  BY DEF StackInv, VirtioInv, CacheConsistent
<1>v. VirtioInv'
  BY DriverKeeps DEF VirtioNext, Driver
<1>1. /\ UNCHANGED <<data, disk, avail, used>> /\ st[p] = "woken"
      /\ \A q \in Procs : io'[q] = IF q = p THEN NoIO ELSE io[q]
      /\ \A q \in Procs : q # p => head'[q] = head[q]
  BY <1>t DEF Return, VirtioTypeOK
<1>2. \A q \in Procs : /\ st'[q] = "queued" <=> st[q] = "queued"
                       /\ st'[q] = "woken" <=> st[q] = "woken" /\ q # p
  BY <1>t DEF Return, WakeFull, VirtioTypeOK
<1>3. \A q \in Procs : Done(q)' => Done(q)
  BY <1>1, <1>2 DEF Done, cacheVars
<1>4. Rings'
  BY <1>t, <1>1, <1>2 DEF Rings
<1>5. CacheTypeOK' /\ Clean'
  BY <1>t, <1>1 DEF CacheTypeOK, Clean, cacheVars, listVars
<1>6. Calling'
  BY <1>t, <1>1 DEF Calling, cacheVars, listVars
<1>7. Transferred'
  BY <1>t, <1>1, <1>3 DEF Transferred, cacheVars, listVars
<1> QED BY <1>v, <1>4, <1>5, <1>6, <1>7, BooksSame DEF StackInv, CacheConsistent

(* The interrupt handler wakes the process whose request is done, and no   *)
(* other, because a buffer is in one call.                                 *)
LEMMA IntrServes ==
  ASSUME StackInv, Intr, UNCHANGED cacheVars
  PROVE  StackInv'
<1>t. VirtioTypeOK /\ Rings /\ VirtioInv /\ Calling
  BY DEF StackInv, VirtioInv
<1>v. VirtioInv'
  BY DriverKeeps DEF VirtioNext
<1>1. CASE IntrAck \/ IntrEnd
  <2>1. UNCHANGED <<io, data, disk, avail, used, st, head>>
    BY <1>1 DEF IntrAck, IntrEnd, descVars
  <2>2. \A q \in Procs : Done(q)' => Done(q)
    BY <2>1 DEF Done, cacheVars
  <2>3. Rings'
    BY <1>t, <2>1 DEF Rings
  <2> QED BY <1>v, <2>1, <2>2, <2>3, BooksSame, NothingDone DEF StackInv, CacheConsistent
<1>2. CASE IntrNext
  <2> DEFINE b == info[Head(used)]
  <2>1. /\ UNCHANGED <<io, data, disk, avail, head>> /\ used' = Tail(used) /\ used # <<>> /\ used \in Seq(Desc)
        /\ \A q \in Procs : st'[q] = IF st[q] = "queued" /\ io[q].buf = b THEN "woken" ELSE st[q]
    BY <1>2, <1>t DEF IntrNext, VirtioTypeOK, Desc
  <2>2. PICK o \in Procs : st[o] = "queued" /\ head[o] = used[1] /\ used[1] \notin avail
    BY <1>t, <2>1 DEF Rings
  <2>3. b = io[o].buf
    <3>1. info[head[o]] = io[o].buf
      BY <1>t, <2>2, Queued
    <3>2. Head(used) = used[1]
      BY <2>1
    <3> QED BY <2>2, <3>1, <3>2
  <2>4. ASSUME NEW q \in Procs, st[q] = "queued", io[q].buf = b
        PROVE  q = o
    <3> HIDE DEF b
    <3>1. io[q] # NoIO /\ io[o] # NoIO
      BY <1>t, <2>2, <2>4, Queued
    <3>2. pc[q] \in Holding /\ pc[o] \in Holding
      BY <1>t, <3>1 DEF Calling, Holding
    <3>3. io[q].buf = buf[q] /\ io[o].buf = buf[o]
      BY <1>t, <3>1 DEF Calling
    <3>4. buf[q] = buf[o]
      BY <2>3, <2>4, <3>3
    <3> QED BY <3>2, <3>4, Alone
  <2> HIDE DEF b
  <2>5. \A q \in Procs : st'[q] = IF q = o THEN "woken" ELSE st[q]
    BY <2>1, <2>2, <2>3, <2>4
  <2>6. \A q \in Procs : Done(q)' => Done(q)
    BY <2>1, <2>2, <2>5 DEF Done, cacheVars
  <2>7. Len(used') = Len(used) - 1 /\ Len(used) \in Nat /\ \A i \in 1..Len(used') : used'[i] = used[i + 1]
    BY <2>1
  <2>8. Rings'
    <3>1. \A i \in 1..Len(used') : i + 1 \in 1..Len(used) /\ i + 1 # 1 /\ 1 \in 1..Len(used)
      BY <2>7
    <3>2. \A i \in 1..Len(used') : used'[i] # head[o]
      BY <1>t, <2>2, <2>7, <3>1 DEF Rings
    <3>3. ASSUME NEW i \in 1..Len(used')
          PROVE  used'[i] \notin avail' /\ \E q \in Procs : st'[q] = "queued" /\ head'[q] = used'[i]
      <4>1. PICK q \in Procs : st[q] = "queued" /\ head[q] = used[i + 1]
        BY <1>t, <3>1 DEF Rings
      <4> QED BY <1>t, <2>1, <2>5, <2>7, <3>1, <3>2, <4>1 DEF Rings
    <3>4. ASSUME NEW d \in avail'
          PROVE  \E q \in Procs : st'[q] = "queued" /\ head'[q] = d
      BY <1>t, <2>1, <2>2, <2>5, <3>4 DEF Rings
    <3>5. ASSUME NEW i \in 1..Len(used'), NEW j \in 1..Len(used'), used'[i] = used'[j]
          PROVE  i = j
      <4>1. i + 1 = j + 1
        BY <1>t, <2>7, <3>1, <3>5 DEF Rings
      <4> QED BY <2>7, <4>1
    <3> QED BY <3>3, <3>4, <3>5 DEF Rings
  <2> QED BY <1>v, <2>1, <2>6, <2>8, BooksSame, NothingDone DEF StackInv, CacheConsistent
<1> QED BY <1>1, <1>2 DEF Intr

(* The device does what the process waits for that owns the chain, and     *)
(* touches nobody else's buffer and block.                                 *)
LEMMA DeviceServes ==
  ASSUME StackInv, NEW d \in Desc, DeviceDone(d), UNCHANGED cacheVars
  PROVE  StackInv'
<1>t. /\ VirtioTypeOK /\ Rings /\ VirtioInv /\ Calling /\ Transferred /\ Clean
      /\ CacheTypeOK /\ Places /\ OneBufferPerBlock
  BY DEF StackInv, VirtioInv, CacheConsistent
<1>v. VirtioInv'
  BY DriverKeeps DEF VirtioNext, Device
<1>1. PICK p \in Procs : st[p] = "queued" /\ head[p] = d
  BY <1>t DEF DeviceDone, Rings
<1>2. io[p] # NoIO /\ pc[p] \in {"reading", "writing"} /\ pc[p] \in Holding
  BY <1>1, Waiting DEF Holding
<1>3. buf[p] \in Bufs /\ block[buf[p]] \in Blocks
  BY <1>2, Has
<1>4. /\ ops[d].block = block[buf[p]] /\ addr[next[d]] = buf[p]
      /\ ops[d].write <=> pc[p] = "writing"
  <2>1. ops[d].block = io[p].block /\ addr[next[d]] = io[p].buf /\ ops[d].write = io[p].write
    BY <1>t, <1>1, Queued
  <2> QED BY <1>t, <1>2, <2>1 DEF Calling
<1>5. /\ UNCHANGED <<io, st, head>> /\ d \in avail /\ avail' = avail \ {d}
      /\ used \in Seq(Desc) /\ used' = Append(used, d)
  BY <1>t DEF DeviceDone, descVars, VirtioTypeOK, Desc
<1>6. ASSUME NEW q \in Procs, Done(q)', q # p
      PROVE  Done(q) /\ pc[q] \in Holding
  <2>1. head[q] # d \/ st[q] # "queued"
    BY <1>t, <1>1, <1>6, Queued
  <2> QED BY <1>5, <1>6, <2>1 DEF Done, cacheVars, Holding
<1>7. Rings'
  <2>1. /\ Len(used) \in Nat /\ Len(used') = Len(used) + 1 /\ used'[Len(used) + 1] = d
        /\ \A i \in 1..Len(used) : used'[i] = used[i]
    BY <1>5
  <2>2. \A i \in 1..Len(used) : used[i] # d
    BY <1>t, <1>5 DEF Rings
  <2>3. \A e \in avail' : \E q \in Procs : st'[q] = "queued" /\ head'[q] = e
    BY <1>t, <1>5 DEF Rings
  <2>4. ASSUME NEW i \in 1..Len(used')
        PROVE  used'[i] \notin avail' /\ \E q \in Procs : st'[q] = "queued" /\ head'[q] = used'[i]
    <3>1. CASE i = Len(used) + 1
      BY <1>1, <1>5, <2>1, <3>1
    <3>2. CASE i # Len(used) + 1
      <4>1. i \in 1..Len(used)
        BY <2>1, <3>2
      <4> QED BY <1>t, <1>5, <2>1, <4>1 DEF Rings
    <3> QED BY <3>1, <3>2
  <2>5. ASSUME NEW i \in 1..Len(used'), NEW j \in 1..Len(used'), used'[i] = used'[j]
        PROVE  i = j
    <3>1. CASE i \in 1..Len(used) /\ j \in 1..Len(used)
      BY <1>t, <2>1, <2>5, <3>1 DEF Rings
    <3>2. CASE i \notin 1..Len(used) \/ j \notin 1..Len(used)
      BY <2>1, <2>2, <2>5, <3>2
    <3> QED BY <3>1, <3>2
  <2> QED BY <2>3, <2>4, <2>5 DEF Rings
<1>8. Calling'
  BY <1>t, <1>5 DEF Calling, cacheVars, listVars
<1>9. CASE pc[p] = "writing"
  <2>1. /\ data' = data /\ disk' \in [Blocks -> Values]
        /\ \A k \in Blocks : disk'[k] = IF k = block[buf[p]] THEN data[buf[p]] ELSE disk[k]
    BY <1>t, <1>3, <1>4, <1>9 DEF DeviceDone, CacheTypeOK
  <2>2. CacheTypeOK'
    BY <1>t, <2>1 DEF CacheTypeOK, cacheVars, listVars
  <2>3. Clean'
    <3>1. ASSUME NEW b \in valid \ dirty
          PROVE  data[b] = disk'[block[b]]
      <4>1. b \in Bufs /\ b # buf[p] /\ block[b] # None /\ data[b] = disk[block[b]] /\ block[b] \in Blocks
        BY <1>t, <1>9, <3>1 DEF Places, Clean, CacheTypeOK
      <4>2. block[b] # block[buf[p]]
        BY <1>t, <1>3, <4>1 DEF OneBufferPerBlock
      <4> QED BY <2>1, <4>1, <4>2
    <3> QED BY <1>t, <2>1, <3>1 DEF Clean, cacheVars, listVars
  <2>4. Transferred'
    <3>1. ASSUME NEW q \in Procs, Done(q)'
          PROVE  data[buf[q]] = disk'[block[buf[q]]]
      <4>1. CASE q = p
        BY <1>3, <2>1, <4>1
      <4>2. CASE q # p
        <5>1. Done(q) /\ pc[q] \in Holding
          BY <1>6, <3>1, <4>2
        <5>2. block[buf[q]] # block[buf[p]] /\ block[buf[q]] \in Blocks
          BY <1>2, <4>2, <5>1, Alone
        <5> QED BY <1>t, <2>1, <5>1, <5>2 DEF Transferred
      <4> QED BY <4>1, <4>2
    <3> QED BY <2>1, <3>1 DEF Transferred, cacheVars, listVars
  <2> QED BY <1>v, <1>7, <1>8, <2>2, <2>3, <2>4, BooksSame DEF StackInv, CacheConsistent
<1>10. CASE pc[p] = "reading"
  <2>1. /\ disk' = disk /\ data' \in [Bufs -> Values]
        /\ \A b \in Bufs : data'[b] = IF b = buf[p] THEN disk[block[buf[p]]] ELSE data[b]
    BY <1>t, <1>3, <1>4, <1>10 DEF DeviceDone, CacheTypeOK
  <2>2. CacheTypeOK'
    BY <1>t, <2>1 DEF CacheTypeOK, cacheVars, listVars
  <2>3. \A b \in valid : b \in Bufs /\ b # buf[p]
    BY <1>t, <1>10 DEF Places, CacheTypeOK
  <2>4. Clean'
    BY <1>t, <2>1, <2>3 DEF Clean, cacheVars, listVars
  <2>5. Transferred'
    <3>1. ASSUME NEW q \in Procs, Done(q)'
          PROVE  data'[buf[q]] = disk[block[buf[q]]]
      <4>1. CASE q = p
        BY <1>3, <2>1, <4>1
      <4>2. CASE q # p
        <5>1. Done(q) /\ pc[q] \in Holding
          BY <1>6, <3>1, <4>2
        <5>2. buf[q] # buf[p] /\ buf[q] \in Bufs
          BY <1>2, <4>2, <5>1, Alone
        <5> QED BY <1>t, <2>1, <5>1, <5>2 DEF Transferred
      <4> QED BY <4>1, <4>2
    <3> QED BY <2>1, <3>1 DEF Transferred, cacheVars, listVars
  <2> QED BY <1>v, <1>7, <1>8, <2>2, <2>4, <2>5, BooksSame DEF StackInv, CacheConsistent
<1> QED BY <1>2, <1>9, <1>10

(* All that the driver and the device do.                                  *)
LEMMA ServedKeeps ==
  ASSUME StackInv, Served
  PROVE  StackInv'
BY RwServes, ReturnServes, IntrServes, DeviceServes DEF Served, VirtioNext, Driver, Device
-----------------------------------------------------------------------------
(* A step of the cache that calls nothing leaves the driver as it is.      *)
LEMMA Aside ==
  ASSUME StackInv, UNCHANGED <<io, driver>>
  PROVE  VirtioInv' /\ Rings'
<1>1. UNCHANGED <<io, driverVars>>
  BY DEF driver, driverVars, descVars, ringVars
<1>2. VirtioInv'
  BY <1>1, DataStep DEF StackInv
<1>3. Rings'
  BY DEF StackInv, Rings, driver
<1> QED BY <1>2, <1>3

(* The count of a buffer's users is a number, and nobody is counted twice. *)
LEMMA UsersCount ==
  ASSUME NEW b
  PROVE  /\ IsFiniteSet(Users(b)) /\ Cardinality(Users(b)) \in Nat
         /\ Cardinality(Users(b)) = 0 <=> Users(b) = {}
<1>1. IsFiniteSet(Procs)
  BY StackConstants
<1>2. IsFiniteSet(Users(b))
  BY <1>1, FS_Subset DEF Users
<1> QED BY <1>2, FS_CardinalityType, FS_EmptySet

(* bget finds the block: one user more.                                    *)
LEMMA HitKeeps ==
  ASSUME StackInv, NEW p \in Procs, NEW k \in Blocks, Hit(p, k), UNCHANGED driver
  PROVE  StackInv'
<1>t. /\ Calling /\ Transferred /\ Clean /\ Places
      /\ CacheTypeOK /\ OneBufferPerBlock /\ RefcntCounts
  BY DEF StackInv, CacheConsistent
<1>c. None \notin Bufs \cup Blocks \cup Procs
  BY StackConstants DEF VirtioConstants
<1>1. PICK b \in Bufs :
        /\ block[b] = k /\ pc[p] = "idle"
        /\ pc' = [pc EXCEPT ![p] = "lock"] /\ buf' = [buf EXCEPT ![p] = b]
        /\ refcnt' = [refcnt EXCEPT ![b] = @ + 1]
        /\ UNCHANGED <<io, data, disk, block, lru, valid, locked, dirty, pinned>>
  BY DEF Hit, CachedIn, Goto
<1>2. /\ \A q \in Procs : pc'[q] = IF q = p THEN "lock" ELSE pc[q]
      /\ \A q \in Procs : buf'[q] = IF q = p THEN b ELSE buf[q]
      /\ \A c \in Bufs : refcnt'[c] = IF c = b THEN refcnt[c] + 1 ELSE refcnt[c]
      /\ \A c \in Bufs : refcnt[c] \in Nat
  BY <1>1, <1>t DEF CacheTypeOK
<1>3. CacheTypeOK'
  BY <1>1, <1>t DEF CacheTypeOK, PCs
<1>4. OneBufferPerBlock'
  BY <1>1, <1>t DEF OneBufferPerBlock
<1>5. RefcntCounts'
  <2>1. ASSUME NEW c \in Bufs
        PROVE  refcnt'[c] = Cardinality(Users(c)') + (IF c \in pinned THEN 1 ELSE 0)
    <3>1. refcnt[c] = Cardinality(Users(c)) + (IF c \in pinned THEN 1 ELSE 0)
      BY <1>t DEF RefcntCounts
    <3>2. CASE c = b
      <4>1. Users(c)' = Users(c) \cup {p} /\ p \notin Users(c)
        BY <1>1, <1>2, <1>c, <1>t, <3>2 DEF Users, Places
      <4>2. Cardinality(Users(c)') = Cardinality(Users(c)) + 1
        BY <4>1, UsersCount, FS_AddElement
      <4> QED BY <1>2, <3>1, <3>2, <4>2, UsersCount
    <3>3. CASE c # b
      <4>1. Users(c)' = Users(c)
        BY <1>1, <1>2, <1>c, <1>t, <3>3 DEF Users, Places
      <4> QED BY <1>2, <3>1, <3>3, <4>1
    <3> QED BY <3>2, <3>3
  <2> QED BY <1>1, <2>1 DEF RefcntCounts
<1>6. Places'
  BY <1>1, <1>2, <1>c, <1>t DEF Places, Holding, InHand
<1>7. Clean'
  BY <1>1, <1>2, <1>t DEF Clean, InHand
<1>8. Calling'
  BY <1>1, <1>2, <1>t DEF Calling
<1>9. Transferred'
  BY <1>1, <1>2, <1>t DEF Transferred, Done, driver
<1> QED BY <1>1, <1>3, <1>4, <1>5, <1>6, <1>7, <1>8, <1>9, Aside DEF StackInv, CacheConsistent

(* bget takes a buffer nobody uses or has pinned: what it had is on disk.  *)
LEMMA RecycleKeeps ==
  ASSUME StackInv, NEW p \in Procs, NEW k \in Blocks, Recycle(p, k), UNCHANGED driver
  PROVE  StackInv'
<1>t. /\ Calling /\ Transferred /\ Clean /\ Places
      /\ CacheTypeOK /\ OneBufferPerBlock /\ RefcntCounts
  BY DEF StackInv, CacheConsistent
<1>c. None \notin Bufs \cup Blocks \cup Procs
  BY StackConstants DEF VirtioConstants
<1>1. PICK b \in Bufs :
        /\ refcnt[b] = 0 /\ pc[p] = "idle" /\ \A c \in Bufs : block[c] # k
        /\ pc' = [pc EXCEPT ![p] = "lock"] /\ buf' = [buf EXCEPT ![p] = b]
        /\ block' = [block EXCEPT ![b] = k] /\ valid' = valid \ {b}
        /\ refcnt' = [refcnt EXCEPT ![b] = 1]
        /\ UNCHANGED <<io, data, disk, lru, locked, dirty, pinned>>
  <2>1. \A i \in DOMAIN lru : lru[i] \in Bufs
    BY <1>t DEF CacheTypeOK
  <2> QED BY <2>1 DEF Recycle, Unused, CachedIn, Goto
<1>2. /\ \A q \in Procs : pc'[q] = IF q = p THEN "lock" ELSE pc[q]
      /\ \A q \in Procs : buf'[q] = IF q = p THEN b ELSE buf[q]
      /\ \A c \in Bufs : block'[c] = IF c = b THEN k ELSE block[c]
      /\ \A c \in Bufs : refcnt'[c] = IF c = b THEN 1 ELSE refcnt[c]
  BY <1>1, <1>t DEF CacheTypeOK
<1>3. CacheTypeOK'
  BY <1>1, <1>t DEF CacheTypeOK, PCs
<1>4. OneBufferPerBlock'
  BY <1>1, <1>2, <1>t DEF OneBufferPerBlock
<1>u. Users(b) = {} /\ b \notin pinned
  <2>1. 0 = Cardinality(Users(b)) + (IF b \in pinned THEN 1 ELSE 0)
    BY <1>1, <1>t DEF RefcntCounts
  <2> QED BY <2>1, UsersCount
<1>n. \A q \in Procs : buf[q] # b
  BY <1>u DEF Users
<1>d. b \notin dirty
  BY <1>n, <1>t, <1>u DEF Clean
<1>5. RefcntCounts'
  <2>1. ASSUME NEW c \in Bufs
        PROVE  refcnt'[c] = Cardinality(Users(c)') + (IF c \in pinned THEN 1 ELSE 0)
    <3>2. CASE c = b
      <4>1. Users(c)' = {p}
        BY <1>1, <1>2, <1>n, <3>2 DEF Users
      <4>2. Cardinality({p}) = 1
        BY FS_Singleton
      <4> QED BY <1>2, <1>u, <3>2, <4>1, <4>2
    <3>3. CASE c # b
      <4>1. Users(c)' = Users(c)
        BY <1>1, <1>2, <1>c, <1>t, <3>3 DEF Users, Places
      <4> QED BY <1>2, <1>t, <3>3, <4>1 DEF RefcntCounts
    <3> QED BY <3>2, <3>3
  <2> QED BY <1>1, <2>1 DEF RefcntCounts
<1>o. \A q \in Procs : buf[q] # None => buf[q] \in Bufs
  BY <1>t DEF CacheTypeOK
<1>6. Places'
  BY <1>1, <1>2, <1>c, <1>n, <1>o, <1>t DEF Places, Holding, InHand
<1>7. Clean'
  <2>1. \A c \in valid' : c \in valid /\ c \in Bufs /\ c # b
    BY <1>1, <1>t DEF CacheTypeOK
  <2>2. \A c \in valid' : block'[c] = block[c]
    BY <1>2, <2>1
  <2>3. ASSUME NEW c \in dirty
        PROVE  c \in pinned \/ \E q \in Procs : buf'[q] = c /\ pc'[q] \in InHand
    <3>1. CASE c \in pinned
      BY <3>1
    <3>2. CASE c \notin pinned
      <4>1. PICK q \in Procs : buf[q] = c /\ pc[q] \in InHand
        BY <1>t, <2>3, <3>2 DEF Clean
      <4>2. q # p
        BY <1>1, <4>1 DEF InHand
      <4> QED BY <1>2, <4>1, <4>2
    <3> QED BY <3>1, <3>2
  <2>4. dirty \subseteq valid'
    BY <1>1, <1>d, <1>t DEF Clean
  <2> QED BY <1>1, <1>t, <2>1, <2>2, <2>3, <2>4 DEF Clean
<1>8. Calling'
  BY <1>1, <1>2, <1>n, <1>o, <1>t DEF Calling, Places
<1>9. Transferred'
  BY <1>1, <1>2, <1>n, <1>o, <1>t DEF Transferred, Done, driver, Places
<1> QED BY <1>1, <1>3, <1>4, <1>5, <1>6, <1>7, <1>8, <1>9, Aside DEF StackInv, CacheConsistent

(* The counts stay where nobody starts or stops using or pinning.          *)
LEMMA BooksStay ==
  ASSUME StackInv, UNCHANGED <<block, refcnt, buf, pinned>>
  PROVE  OneBufferPerBlock' /\ RefcntCounts'
BY DEF StackInv, CacheConsistent, OneBufferPerBlock, RefcntCounts, Users

(* acquiresleep: the lock is free, and from now on it is p's.              *)
LEMMA AcquireKeeps ==
  ASSUME StackInv, NEW p \in Procs, Acquire(p), UNCHANGED driver
  PROVE  StackInv'
<1>t. /\ Calling /\ Transferred /\ Clean /\ Places /\ CacheTypeOK
  BY DEF StackInv, CacheConsistent
<1>c. None \notin Bufs \cup Blocks \cup Procs
  BY StackConstants DEF VirtioConstants
<1>1. /\ pc[p] = "lock" /\ locked[buf[p]] = None /\ buf[p] \in Bufs
      /\ \A q \in Procs : pc'[q] = IF q = p THEN (IF buf[p] \in valid THEN "got" ELSE "read") ELSE pc[q]
      /\ \A b \in Bufs : locked'[b] = IF b = buf[p] THEN p ELSE locked[b]
      /\ UNCHANGED <<io, data, disk, listVars, valid, buf, dirty, pinned>>
  BY <1>t, Has DEF Acquire, CacheTypeOK
<1>2. CacheTypeOK'
  BY <1>1, <1>t DEF CacheTypeOK, PCs, Acquire, listVars
<1>3. \A q \in Procs : pc[q] \in Holding => buf[q] # buf[p] /\ buf[q] \in Bufs
  <2>1. ASSUME NEW q \in Procs, pc[q] \in Holding
        PROVE  locked[buf[q]] = q /\ buf[q] # None
    BY <1>t, <2>1 DEF Places, Holding
  <2>2. \A q \in Procs : buf[q] \in Bufs \cup {None}
    BY <1>t DEF CacheTypeOK
  <2> QED BY <1>1, <1>c, <2>1, <2>2
<1>4. Places'
  <2>1. \A q \in Procs : pc'[q] \in Holding => locked'[buf[q]] = q
    <3>1. pc'[p] \in {"got", "read"} /\ locked'[buf[p]] = p
      BY <1>1
    <3>2. ASSUME NEW q \in Procs, q # p, pc[q] \in Holding
          PROVE  locked'[buf[q]] = q
      BY <1>1, <1>3, <1>t, <3>2 DEF Places
    <3>3. \A q \in Procs : q # p => pc'[q] = pc[q]
      BY <1>1
    <3> QED BY <3>1, <3>2, <3>3
  <2> QED BY <1>1, <1>t, <2>1 DEF Places, InHand, listVars
<1>5. Clean'
  BY <1>1, <1>t DEF Clean, InHand, listVars
<1>6. Calling'
  BY <1>1, <1>t DEF Calling, listVars
<1>7. Transferred'
  BY <1>1, <1>t DEF Transferred, Done, driver, listVars
<1> QED BY <1>1, <1>2, <1>4, <1>5, <1>6, <1>7, Aside, BooksStay DEF StackInv, CacheConsistent, listVars

(* Going to sleep, and giving up for want of a buffer, changes no buffer.  *)
LEMMA WaitKeeps ==
  ASSUME StackInv, NEW p \in Procs, SleepOnLock(p) \/ \E k \in Blocks : NoBuffers(p, k), UNCHANGED driver
  PROVE  StackInv'
<1>t. /\ Calling /\ Transferred /\ Clean /\ Places /\ CacheTypeOK
  BY DEF StackInv, CacheConsistent
<1>1. /\ \A q \in Procs : q # p => pc'[q] = pc[q]
      /\ \/ pc[p] = "lock" /\ pc'[p] = "asleep"
         \/ pc[p] = "idle" /\ pc'[p] = "panic"
      /\ UNCHANGED <<io, data, disk, listVars, valid, locked, buf, dirty, pinned>>
  BY <1>t DEF SleepOnLock, NoBuffers, Goto, CacheTypeOK
<1>2. CacheTypeOK'
  BY <1>1, <1>t DEF CacheTypeOK, PCs, SleepOnLock, NoBuffers, Goto, listVars
<1>3. Places'
  BY <1>1, <1>t DEF Places, Holding, InHand, listVars
<1>4. Clean'
  BY <1>1, <1>t DEF Clean, InHand, listVars
<1>5. Calling'
  BY <1>1, <1>t DEF Calling, listVars
<1>6. Transferred'
  BY <1>1, <1>t DEF Transferred, Done, driver, listVars
<1> QED BY <1>1, <1>2, <1>3, <1>4, <1>5, <1>6, Aside, BooksStay DEF StackInv, CacheConsistent, listVars

(* bread and bwrite call the driver with a buffer that is in no other call. *)
LEMMA CallKeeps ==
  ASSUME StackInv, NEW p \in Procs, StartRead(p) \/ StartWrite(p), UNCHANGED driver
  PROVE  StackInv'
<1>t. /\ Calling /\ Transferred /\ Clean /\ Places /\ CacheTypeOK /\ VirtioInv /\ VirtioTypeOK
  BY DEF StackInv, CacheConsistent, VirtioInv
<1>c. VirtioConstants
  BY StackConstants
<1>1. PICK w \in BOOLEAN :
        /\ io' = [io EXCEPT ![p] = [buf |-> buf[p], block |-> block[buf[p]], write |-> w]]
        /\ pc[p] = (IF w THEN "got" ELSE "read")
        /\ pc' = [pc EXCEPT ![p] = IF w THEN "writing" ELSE "reading"]
        /\ w => buf[p] \in dirty
        /\ UNCHANGED <<data, disk, listVars, valid, locked, buf, dirty, pinned>>
  <2>1. CASE StartRead(p)
    <3> WITNESS FALSE \in BOOLEAN
    <3> QED BY <2>1 DEF StartRead, Goto
  <2>2. CASE StartWrite(p)
    <3> WITNESS TRUE \in BOOLEAN
    <3> QED BY <2>2 DEF StartWrite, Goto
  <2> QED BY <2>1, <2>2
<1>2. buf[p] \in Bufs /\ block[buf[p]] \in Blocks /\ pc[p] \in Holding
  BY <1>1, Has DEF Holding
<1>3. io[p] = NoIO /\ st[p] \notin {"queued", "woken"}
  <2>1. io[p] = NoIO
    BY <1>1, <1>t DEF Calling
  <2> QED BY <2>1, Waiting
<1> DEFINE r == [buf |-> buf[p], block |-> block[buf[p]], write |-> w]
<1>4. r \in IO /\ r.buf = buf[p] /\ r.block = block[buf[p]] /\ r.write = w
  BY <1>2 DEF IO
<1>5. r # NoIO
  BY <1>4, <1>c DEF VirtioConstants, IO
<1> HIDE DEF r
<1>6. /\ \A q \in Procs : io'[q] = IF q = p THEN r ELSE io[q]
      /\ \A q \in Procs : pc'[q] = IF q = p THEN (IF w THEN "writing" ELSE "reading") ELSE pc[q]
  BY <1>1, <1>t DEF r, VirtioTypeOK, CacheTypeOK
<1>v. VirtioInv'
  <2>1. io' = [io EXCEPT ![p] = r]
    BY <1>1 DEF r
  <2>2. UNCHANGED driverVars
    BY DEF driver, driverVars, descVars, ringVars
  <2> QED BY <1>3, <1>4, <1>t, <2>1, <2>2, NewCall
<1>7. CacheTypeOK'
  <2>1. pc' \in [Procs -> PCs]
    BY <1>1, <1>t DEF CacheTypeOK, PCs
  <2> QED BY <1>1, <1>t, <2>1 DEF CacheTypeOK, listVars
<1>8. Places'
  BY <1>1, <1>6, <1>t DEF Places, Holding, InHand, listVars
<1>9. Clean'
  BY <1>1, <1>6, <1>t DEF Clean, InHand, listVars
<1>10. Calling'
  <2>1. ASSUME NEW q \in Procs, io'[q] # NoIO
        PROVE  /\ pc'[q] \in {"reading", "writing"}
               /\ io'[q].buf = buf'[q] /\ io'[q].block = block'[buf'[q]]
               /\ io'[q].write <=> pc'[q] = "writing"
    <3>1. CASE q = p
      BY <1>1, <1>4, <1>6, <3>1 DEF listVars
    <3>2. CASE q # p
      BY <1>1, <1>6, <1>t, <2>1, <3>2 DEF Calling, listVars
    <3> QED BY <3>1, <3>2
  <2> QED BY <2>1 DEF Calling
<1>11. Transferred'
  <2>1. ASSUME NEW q \in Procs, Done(q)'
        PROVE  Done(q)
    <3>1. CASE q = p
      BY <1>3, <1>5, <1>6, <2>1, <3>1 DEF Done, driver
    <3>2. CASE q # p
      BY <1>6, <2>1, <3>2 DEF Done, driver
    <3> QED BY <3>1, <3>2
  <2> QED BY <1>1, <1>t, <2>1 DEF Transferred, listVars
<1>12. Rings'
  BY DEF StackInv, Rings, driver
<1> QED BY <1>1, <1>v, <1>7, <1>8, <1>9, <1>10, <1>11, <1>12, BooksStay DEF StackInv, CacheConsistent, listVars

(* The driver returns: what the disk has is in the buffer.                 *)
LEMMA EndKeeps ==
  ASSUME StackInv, NEW p \in Procs, EndRead(p) \/ EndWrite(p), UNCHANGED driver
  PROVE  StackInv'
<1>t. /\ Calling /\ Transferred /\ Clean /\ Places /\ CacheTypeOK
  BY DEF StackInv, CacheConsistent
<1>1. /\ io[p] = NoIO /\ pc[p] \in {"reading", "writing"}
      /\ \A q \in Procs : pc'[q] = IF q = p THEN "got" ELSE pc[q]
      /\ pc[p] = "reading" => valid' = valid \cup {buf[p]} /\ dirty' = dirty
      /\ pc[p] = "writing" => dirty' = dirty \ {buf[p]} /\ valid' = valid
      /\ UNCHANGED <<io, data, disk, listVars, locked, buf, pinned>>
  BY <1>t DEF EndRead, EndWrite, Goto, CacheTypeOK
<1>2. buf[p] \in Bufs /\ block[buf[p]] # None /\ pc[p] \in Holding
  BY <1>1, <1>t, Has DEF Holding, Places
<1>3. data[buf[p]] = disk[block[buf[p]]]
  BY <1>1, <1>t DEF Transferred, Done
<1>4. CacheTypeOK'
  <2>1. pc' \in [Procs -> PCs]
    BY <1>t DEF CacheTypeOK, PCs, EndRead, EndWrite, Goto
  <2> QED BY <1>1, <1>2, <1>t, <2>1 DEF CacheTypeOK, listVars
<1>5. \A q \in Procs : q # p /\ pc[q] \in Holding => buf[q] # buf[p]
  BY <1>2, Alone
<1>6. Places'
  BY <1>1, <1>2, <1>5, <1>t DEF Places, Holding, InHand, listVars
<1>7. Clean'
  <2>1. \A b \in valid' : b \in valid \/ b = buf[p]
    BY <1>1
  <2>2. \A b \in valid' \ dirty' : b \in valid \ dirty \/ b = buf[p]
    BY <1>1
  <2>3. \A b \in dirty' : b \in pinned \/ \E q \in Procs : buf[q] = b /\ pc'[q] \in InHand
    BY <1>1, <1>t DEF Clean, InHand
  <2> QED BY <1>1, <1>2, <1>3, <1>t, <2>1, <2>2, <2>3 DEF Clean, listVars
<1>8. Calling'
  BY <1>1, <1>t DEF Calling, listVars
<1>9. Transferred'
  BY <1>1, <1>t DEF Transferred, Done, driver, listVars
<1> QED BY <1>1, <1>4, <1>6, <1>7, <1>8, <1>9, Aside, BooksStay DEF StackInv, CacheConsistent, listVars

(* The holder changes its buffer, which nobody else has.                   *)
LEMMA ChangeKeeps ==
  ASSUME StackInv, NEW p \in Procs, NEW v \in Values, Change(p, v), UNCHANGED driver
  PROVE  StackInv'
<1>t. /\ Calling /\ Transferred /\ Clean /\ Places /\ CacheTypeOK
  BY DEF StackInv, CacheConsistent
<1>1. pc[p] = "got" /\ pc[p] \in Holding /\ pc[p] \in InHand /\ buf[p] \in Bufs
  BY Has DEF Change, Holding, InHand
<1>2. /\ \A b \in Bufs : data'[b] = IF b = buf[p] THEN v ELSE data[b]
      /\ dirty' = dirty \cup {buf[p]}
      /\ UNCHANGED <<io, disk, listVars, valid, locked, pc, buf, pinned>>
  BY <1>t DEF Change, CacheTypeOK
<1>3. CacheTypeOK'
  BY <1>1, <1>t DEF CacheTypeOK, Change, listVars
<1>4. Places'
  BY <1>2, <1>t DEF Places, listVars
<1>5. Clean'
  <2>1. buf[p] \in valid
    BY <1>1, <1>t DEF Places
  <2> QED BY <1>1, <1>2, <1>t, <2>1 DEF Clean, CacheTypeOK, listVars
<1>6. Calling'
  BY <1>2, <1>t DEF Calling, listVars
<1>7. Transferred'
  <2>1. ASSUME NEW q \in Procs, Done(q)'
        PROVE  data'[buf[q]] = disk[block[buf[q]]]
    <3>1. Done(q) /\ q # p /\ pc[q] \in Holding
      BY <1>1, <1>2, <2>1 DEF Done, driver, Holding
    <3>2. buf[q] # buf[p] /\ buf[q] \in Bufs
      BY <1>1, <3>1, Alone
    <3> QED BY <1>2, <1>t, <3>1, <3>2 DEF Transferred
  <2> QED BY <1>2, <2>1 DEF Transferred, listVars
<1> QED BY <1>2, <1>3, <1>4, <1>5, <1>6, <1>7, Aside, BooksStay DEF StackInv, CacheConsistent, listVars

(* A pin counts as a user.                                                 *)
LEMMA PinKeeps ==
  ASSUME StackInv, NEW p \in Procs, Pin(p) \/ Unpin(p), UNCHANGED driver
  PROVE  StackInv'
<1>t. /\ Calling /\ Transferred /\ Clean /\ Places
      /\ CacheTypeOK /\ OneBufferPerBlock /\ RefcntCounts
  BY DEF StackInv, CacheConsistent
<1>1. pc[p] = "got" /\ buf[p] \in Bufs
  BY Has DEF Pin, Unpin
<1>2. /\ Pin(p) => /\ \A b \in Bufs : refcnt'[b] = IF b = buf[p] THEN refcnt[b] + 1 ELSE refcnt[b]
                   /\ pinned' = pinned \cup {buf[p]} /\ buf[p] \notin pinned
      /\ Unpin(p) => /\ \A b \in Bufs : refcnt'[b] = IF b = buf[p] THEN refcnt[b] - 1 ELSE refcnt[b]
                     /\ pinned' = pinned \ {buf[p]} /\ buf[p] \in pinned \ dirty
      /\ UNCHANGED <<io, data, disk, block, lru, valid, locked, pc, buf, dirty>>
  BY <1>t DEF Pin, Unpin, CacheTypeOK
<1>3. RefcntCounts'
  <2>1. ASSUME NEW b \in Bufs
        PROVE  refcnt'[b] = Cardinality(Users(b)') + (IF b \in pinned' THEN 1 ELSE 0)
    <3>1. refcnt[b] = Cardinality(Users(b)) + (IF b \in pinned THEN 1 ELSE 0)
      BY <1>t DEF RefcntCounts
    <3>2. Users(b)' = Users(b) /\ Cardinality(Users(b)) \in Nat
      BY <1>2, UsersCount DEF Users
    <3> QED BY <1>1, <1>2, <3>1, <3>2
  <2> QED BY <2>1 DEF RefcntCounts
<1>4. CacheTypeOK'
  <2>1. ASSUME NEW b \in Bufs
        PROVE  refcnt'[b] \in Nat
    <3>1. Cardinality(Users(b)) \in Nat /\ Users(b)' = Users(b)
      BY <1>2, UsersCount DEF Users
    <3>2. refcnt'[b] = Cardinality(Users(b)') + (IF b \in pinned' THEN 1 ELSE 0)
      BY <1>3 DEF RefcntCounts
    <3> QED BY <3>1, <3>2
  <2>2. refcnt' \in [Bufs -> Nat]
    <3>1. refcnt' = [b \in Bufs |-> refcnt'[b]]
      BY <1>t DEF Pin, Unpin, CacheTypeOK
    <3> QED BY <2>1, <3>1
  <2> QED BY <1>1, <1>2, <1>t, <2>2 DEF CacheTypeOK
<1>5. OneBufferPerBlock'
  BY <1>2, <1>t DEF OneBufferPerBlock
<1>6. Places'
  BY <1>2, <1>t DEF Places
<1>7. Clean'
  BY <1>2, <1>t DEF Clean
<1>8. Calling'
  BY <1>2, <1>t DEF Calling
<1>9. Transferred'
  BY <1>2, <1>t DEF Transferred, Done, driver
<1> QED BY <1>2, <1>3, <1>4, <1>5, <1>6, <1>7, <1>8, <1>9, Aside DEF StackInv, CacheConsistent

(* brelse: the lock is free again, the sleepers try for it; a change is    *)
(* pinned before its holder lets go.                                       *)
LEMMA ReleaseKeeps ==
  ASSUME StackInv, NEW p \in Procs, Release(p), UNCHANGED driver
  PROVE  StackInv'
<1>t. /\ Calling /\ Transferred /\ Clean /\ Places /\ CacheTypeOK
  BY DEF StackInv, CacheConsistent
<1>1. /\ pc[p] = "got" /\ pc[p] \in Holding /\ buf[p] \in Bufs /\ (buf[p] \in dirty => buf[p] \in pinned)
      /\ \A b \in Bufs : locked'[b] = IF b = buf[p] THEN None ELSE locked[b]
      /\ UNCHANGED <<io, data, disk, listVars, valid, buf, dirty, pinned>>
  BY <1>t, Has DEF Release, CacheTypeOK, Holding
<1>2. \A q \in Procs : /\ q = p => pc'[q] = "unref"
                       /\ q # p => pc'[q] = pc[q] \/ (pc[q] = "asleep" /\ pc'[q] = "lock")
  BY DEF Release
<1>3. CacheTypeOK'
  <2>1. pc' \in [Procs -> PCs] /\ locked' \in [Bufs -> Procs \cup {None}]
    BY <1>t DEF CacheTypeOK, PCs, Release
  <2> QED BY <1>1, <1>t, <2>1 DEF CacheTypeOK, listVars
<1>4. \A q \in Procs : q # p /\ pc[q] \in Holding => buf[q] # buf[p] /\ buf[q] \in Bufs
  BY <1>1, Alone
<1>5. Places'
  <2>1. ASSUME NEW q \in Procs
        PROVE  /\ pc'[q] \in Holding => pc[q] = pc'[q] /\ q # p
               /\ pc'[q] \in {"idle", "panic"} <=> pc[q] \in {"idle", "panic"}
    BY <1>1, <1>2 DEF Holding
  <2>2. \A q \in Procs : pc'[q] \in Holding => locked'[buf[q]] = q
    BY <1>1, <1>4, <1>t, <2>1 DEF Places
  <2> QED BY <1>1, <1>t, <2>1, <2>2 DEF Places, InHand, Holding, listVars
<1>6. Clean'
  <2>1. ASSUME NEW b \in dirty, b \notin pinned
        PROVE  \E q \in Procs : buf[q] = b /\ pc'[q] \in InHand
    <3>1. PICK q \in Procs : buf[q] = b /\ pc[q] \in InHand
      BY <1>t, <2>1 DEF Clean
    <3>2. q # p
      BY <1>1, <2>1, <3>1
    <3> QED BY <1>2, <3>1, <3>2 DEF InHand
  <2> QED BY <1>1, <1>t, <2>1 DEF Clean, listVars
<1>7. Calling'
  BY <1>1, <1>2, <1>t DEF Calling, listVars
<1>8. Transferred'
  BY <1>1, <1>2, <1>t DEF Transferred, Done, driver, listVars
<1> QED BY <1>1, <1>3, <1>5, <1>6, <1>7, <1>8, Aside, BooksStay DEF StackInv, CacheConsistent, listVars

(* The end of brelse: one user less.                                       *)
LEMMA UnrefKeeps ==
  ASSUME StackInv, NEW p \in Procs, Unref(p), UNCHANGED driver
  PROVE  StackInv'
<1>t. /\ Calling /\ Transferred /\ Clean /\ Places
      /\ CacheTypeOK /\ OneBufferPerBlock /\ RefcntCounts
  BY DEF StackInv, CacheConsistent
<1>c. None \notin Bufs \cup Blocks \cup Procs
  BY StackConstants DEF VirtioConstants
<1>1. pc[p] = "unref" /\ buf[p] \in Bufs
  BY Has DEF Unref, Goto
<1>2. /\ \A q \in Procs : pc'[q] = IF q = p THEN "idle" ELSE pc[q]
      /\ \A q \in Procs : buf'[q] = IF q = p THEN None ELSE buf[q]
      /\ \A b \in Bufs : refcnt'[b] = IF b = buf[p] THEN refcnt[b] - 1 ELSE refcnt[b]
      /\ UNCHANGED <<io, data, disk, block, valid, locked, dirty, pinned>>
  BY <1>t DEF Unref, Goto, CacheTypeOK
<1>3. RefcntCounts'
  <2>1. ASSUME NEW b \in Bufs
        PROVE  refcnt'[b] = Cardinality(Users(b)') + (IF b \in pinned THEN 1 ELSE 0)
    <3>1. refcnt[b] = Cardinality(Users(b)) + (IF b \in pinned THEN 1 ELSE 0)
      BY <1>t DEF RefcntCounts
    <3>2. CASE b = buf[p]
      <4>1. Users(b)' = Users(b) \ {p} /\ p \in Users(b)
        BY <1>2, <1>c, <3>2 DEF Users
      <4>2. Cardinality(Users(b)') = Cardinality(Users(b)) - 1
        BY <4>1, UsersCount, FS_RemoveElement
      <4> QED BY <1>2, <3>1, <3>2, <4>2, UsersCount
    <3>3. CASE b # buf[p]
      <4>1. Users(b)' = Users(b)
        BY <1>2, <1>c, <3>3 DEF Users
      <4> QED BY <1>2, <3>1, <3>3, <4>1
    <3> QED BY <3>2, <3>3
  <2> QED BY <1>2, <2>1 DEF RefcntCounts
<1>4. CacheTypeOK'
  <2>1. ASSUME NEW b \in Bufs
        PROVE  refcnt'[b] \in Nat
    <3>1. IsFiniteSet(Users(b)')
      <4>1. Users(b)' \subseteq Procs
        BY DEF Users
      <4> QED BY <4>1, FS_Subset, StackConstants
    <3>2. Cardinality(Users(b)') \in Nat
      BY <3>1, FS_CardinalityType
    <3> QED BY <1>3, <3>2 DEF RefcntCounts
  <2>2. refcnt' \in [Bufs -> Nat]
    <3>1. refcnt' = [b \in Bufs |-> refcnt'[b]]
      BY <1>t DEF Unref, CacheTypeOK
    <3> QED BY <2>1, <3>1
  <2>3. lru' \in Seq(Bufs)
    <3>1. lru \in Seq(Bufs) /\ Len(lru) \in Nat /\ DOMAIN lru = 1..Len(lru)
      BY <1>t DEF CacheTypeOK
    <3>2. ToFront(buf[p]) \in Seq(Bufs)
      <4> DEFINE i == CHOOSE i \in DOMAIN lru : lru[i] = buf[p]
                 f == [j \in DOMAIN lru |-> IF j = 1 THEN buf[p] ELSE IF j <= i THEN lru[j - 1] ELSE lru[j]]
      <4> HIDE DEF i
      <4>1. \A j \in 1..Len(lru) : f[j] \in Bufs
        <5>1. \A j \in 1..Len(lru) : j # 1 => j - 1 \in 1..Len(lru)
          BY <3>1
        <5>2. \A j \in 1..Len(lru) : lru[j] \in Bufs
          BY <3>1
        <5> QED BY <1>1, <3>1, <5>1, <5>2
      <4>2. f \in [1..Len(lru) -> Bufs]
        BY <3>1, <4>1
      <4> HIDE DEF f
      <4>3. f \in Seq(Bufs)
        BY <3>1, <4>2
      <4> QED BY <4>3 DEF f, i, ToFront
    <3> QED BY <3>1, <3>2 DEF Unref
  <2>4. pc' \in [Procs -> PCs] /\ buf' \in [Procs -> Bufs \cup {None}]
    BY <1>t DEF CacheTypeOK, Unref, Goto, PCs
  <2> QED BY <1>2, <1>t, <2>2, <2>3, <2>4 DEF CacheTypeOK
<1>5. OneBufferPerBlock'
  BY <1>2, <1>t DEF OneBufferPerBlock
<1>6. Places'
  BY <1>1, <1>2, <1>t DEF Places, Holding, InHand
<1>7. Clean'
  <2>1. ASSUME NEW b \in dirty, b \notin pinned
        PROVE  \E q \in Procs : buf'[q] = b /\ pc'[q] \in InHand
    <3>1. PICK q \in Procs : buf[q] = b /\ pc[q] \in InHand
      BY <1>t, <2>1 DEF Clean
    <3>2. q # p
      BY <1>1, <3>1 DEF InHand
    <3> QED BY <1>2, <3>1, <3>2
  <2> QED BY <1>2, <1>t, <2>1 DEF Clean
<1>8. Calling'
  BY <1>1, <1>2, <1>t DEF Calling
<1>9. Transferred'
  BY <1>1, <1>2, <1>t DEF Transferred, Done, driver
<1> QED BY <1>2, <1>3, <1>4, <1>5, <1>6, <1>7, <1>8, <1>9, Aside DEF StackInv, CacheConsistent

(* All that the processes do.                                              *)
LEMMA CallsKeep ==
  ASSUME StackInv, NEW p \in Procs, Calls(p)
  PROVE  StackInv'
BY HitKeeps, RecycleKeeps, AcquireKeeps, WaitKeeps, CallKeeps, EndKeeps, ChangeKeeps, PinKeeps,
   ReleaseKeeps, UnrefKeeps DEF Calls, CacheStep
-----------------------------------------------------------------------------
(* At the start nothing is cached and nobody is in a call.                 *)
LEMMA StackInvInit == Init => StackInv
<1> SUFFICES ASSUME Init
             PROVE  StackInv
  OBVIOUS
<1> USE DEF Init
<1>c. None \notin Bufs \cup Blocks \cup Procs /\ IsFiniteSet(Bufs)
  BY StackConstants DEF VirtioConstants
<1>1. VirtioInv
  BY VirtioInvInit
<1>2. CacheTypeOK
  <2>1. Cardinality(Bufs) \in Nat
    BY <1>c, FS_CardinalityType
  <2>2. lru \in [1..Cardinality(Bufs) -> Bufs]
    BY DEF CacheInit
  <2>3. lru \in Seq(Bufs)
    BY <2>1, <2>2
  <2> QED BY <2>3 DEF CacheInit, CacheTypeOK, PCs
<1>3. OneBufferPerBlock
  BY DEF CacheInit, OneBufferPerBlock
<1>4. RefcntCounts
  <2>1. \A b \in Bufs : Users(b) = {}
    BY <1>c DEF Users, CacheInit
  <2>2. \A b \in Bufs : Cardinality(Users(b)) = 0
    BY <2>1, UsersCount
  <2> QED BY <2>2 DEF RefcntCounts, CacheInit
<1>5. Places /\ Clean /\ Calling /\ Rings /\ Transferred
  BY DEF CacheInit, DriverInit, Places, Clean, Calling, Rings, Transferred, Done, Holding, InHand
<1> QED BY <1>1, <1>2, <1>3, <1>4, <1>5 DEF StackInv, CacheConsistent

(* A stuttering step.                                                      *)
LEMMA StackInvStutters ==
  ASSUME StackInv, UNCHANGED vars
  PROVE  StackInv'
<1>1. UNCHANGED <<io, driver, data, disk, block, refcnt, buf, pinned, cacheVars>>
  BY DEF vars, cacheVars, listVars
<1>2. \A p \in Procs : Done(p)' => Done(p)
  BY <1>1 DEF Done, cacheVars, driver
<1> QED BY <1>1, <1>2, Aside, BooksSame, NothingDone DEF StackInv, CacheConsistent

(* The invariant is inductive.                                             *)
LEMMA StackInvStep == StackInv /\ [Next]_vars => StackInv'
BY StackInvStutters, CallsKeep, ServedKeeps DEF Next

(* Every descriptor is free or in one request of three, and a request that *)
(* is queued is one the handler will find, for any number of descriptors.  *)
THEOREM DriverSafety == Spec => []DescriptorsAccounted
<1>1. StackInv => DescriptorsAccounted
  BY VirtioInvSafe DEF StackInv
<1> QED BY <1>1, StackInvInit, StackInvStep, PTL DEF Spec

(* A block is cached once, and its count is that of its users, whatever    *)
(* the processes do and however late and in whatever order the disk does   *)
(* its work.                                                               *)
THEOREM CacheSafety == Spec => []CacheConsistent
<1>1. StackInv => CacheConsistent
  BY DEF StackInv
<1> QED BY <1>1, StackInvInit, StackInvStep, PTL DEF Spec
-----------------------------------------------------------------------------
(* What BlockStore sees: the holder of a block, and its content, which is  *)
(* that of a changed buffer if there is one and that of the disk if not.   *)
Seen ==
  \A k \in Blocks :
    /\ \A p \in Procs : pc[p] \in InHand /\ block[buf[p]] = k => Holder(k) = p
    /\ (\A p \in Procs : ~(pc[p] \in InHand /\ block[buf[p]] = k)) => Holder(k) = None
    /\ \A b \in dirty : block[b] = k => Content(k) = data[b]
    /\ (\A b \in dirty : block[b] # k) => Content(k) = disk[k]

(* There is one candidate for each CHOOSE.                                 *)
LEMMA StackInvSeen == StackInv => Seen
<1> SUFFICES ASSUME StackInv, NEW k \in Blocks
             PROVE  Seen!(k)
  BY DEF Seen
<1>t. Clean /\ OneBufferPerBlock /\ CacheTypeOK
  BY DEF StackInv, CacheConsistent
<1>c. None \notin Blocks
  BY StackConstants DEF VirtioConstants
<1>1. ASSUME NEW p \in Procs, pc[p] \in InHand, block[buf[p]] = k
      PROVE  Holder(k) = p
  <2>1. \A q \in Procs : pc[q] \in {"got", "writing"} /\ block[buf[q]] = k => q = p
    BY <1>1, Alone DEF Holding, InHand
  <2> QED BY <1>1, <2>1 DEF Holder, InHand
<1>2. ASSUME \A p \in Procs : ~(pc[p] \in InHand /\ block[buf[p]] = k)
      PROVE  Holder(k) = None
  BY <1>2 DEF Holder, InHand
<1>3. ASSUME NEW b \in valid, block[b] = k
      PROVE  Content(k) = data[b]
  <2>1. \A c \in valid : block[c] = k => c = b
    BY <1>3, <1>c, <1>t DEF OneBufferPerBlock, CacheTypeOK
  <2> QED BY <1>3, <2>1 DEF Content
<1>4. ASSUME \A b \in dirty : block[b] # k
      PROVE  Content(k) = disk[k]
  <2>1. CASE \E b \in valid : block[b] = k
    <3>1. PICK b \in valid : block[b] = k
      BY <2>1
    <3> QED BY <1>3, <1>4, <1>t, <3>1 DEF Clean
  <2>2. CASE ~ \E b \in valid : block[b] = k
    BY <2>2 DEF Content
  <2> QED BY <2>1, <2>2
<1> QED BY <1>1, <1>2, <1>3, <1>4, <1>t DEF Clean

(* The same of the next state.                                             *)
LEMMA StackInvSeenNext == StackInv' => Seen'
BY StackInvSeen, PTL

(* A step that takes no block in hand and lets none go.                    *)
LEMMA SameHolders ==
  ASSUME Seen, Seen',
         \A q \in Procs : pc'[q] \in InHand <=> pc[q] \in InHand,
         \A q \in Procs : pc[q] \in InHand => block'[buf'[q]] = block[buf[q]]
  PROVE  \A k \in Blocks : Holder(k)' = Holder(k)
<1> SUFFICES ASSUME NEW k \in Blocks
             PROVE  Holder(k)' = Holder(k)
  OBVIOUS
<1>1. CASE \E p \in Procs : pc[p] \in InHand /\ block[buf[p]] = k
  <2>1. PICK p \in Procs : pc[p] \in InHand /\ block[buf[p]] = k
    BY <1>1
  <2>2. Holder(k) = p
    BY <2>1 DEF Seen
  <2>3. Holder(k)' = p
    BY <2>1 DEF Seen
  <2> QED BY <2>2, <2>3
<1>2. CASE \A p \in Procs : ~(pc[p] \in InHand /\ block[buf[p]] = k)
  <2>1. Holder(k) = None
    BY <1>2 DEF Seen
  <2>2. Holder(k)' = None
    BY <1>2 DEF Seen
  <2> QED BY <2>1, <2>2
<1> QED BY <1>1, <1>2

(* A step that changes no changed buffer, and no other block on the disk.  *)
LEMMA SameContents ==
  ASSUME Seen, Seen', UNCHANGED dirty,
         \A b \in dirty : block'[b] = block[b] /\ data'[b] = data[b],
         \A k \in Blocks : (\A b \in dirty : block[b] # k) => disk'[k] = disk[k]
  PROVE  \A k \in Blocks : Content(k)' = Content(k)
<1> SUFFICES ASSUME NEW k \in Blocks
             PROVE  Content(k)' = Content(k)
  OBVIOUS
<1>1. CASE \E b \in dirty : block[b] = k
  <2>1. PICK b \in dirty : block[b] = k
    BY <1>1
  <2>2. Content(k) = data[b]
    BY <2>1 DEF Seen
  <2>3. Content(k)' = data'[b]
    BY <2>1 DEF Seen
  <2> QED BY <2>1, <2>2, <2>3
<1>2. CASE \A b \in dirty : block[b] # k
  <2>1. Content(k) = disk[k]
    BY <1>2 DEF Seen
  <2>2. Content(k)' = disk'[k]
    BY <1>2 DEF Seen
  <2> QED BY <1>2, <2>1, <2>2
<1> QED BY <1>1, <1>2

(* What the store is asked for, in terms of holders and contents.          *)
LEMMA Stutters ==
  ASSUME \A k \in Blocks : Holder(k)' = Holder(k), \A k \in Blocks : Content(k)' = Content(k)
  PROVE  [Store!Next]_(Store!storeVars)
<1>1. [k \in Blocks |-> Holder(k)'] = [k \in Blocks |-> Holder(k)]
  OBVIOUS
<1>2. [k \in Blocks |-> Content(k)'] = [k \in Blocks |-> Content(k)]
  OBVIOUS
<1> QED BY <1>1, <1>2 DEF Store!storeVars

(* A block nobody has is taken: acquiresleep of a buffer with the block in *)
(* it, or the end of the read that puts it there.                          *)
LEMMA Takes ==
  ASSUME StackInv, StackInv', NEW p \in Procs, (Acquire(p) /\ buf[p] \in valid) \/ EndRead(p), UNCHANGED driver
  PROVE  [Store!Next]_(Store!storeVars)
<1>t. Places /\ OneBufferPerBlock /\ CacheTypeOK /\ Clean
  BY DEF StackInv, CacheConsistent
<1>s. Seen /\ Seen'
  BY StackInvSeen, StackInvSeenNext
<1>c. None \notin Bufs \cup Blocks \cup Procs
  BY StackConstants DEF VirtioConstants
<1>0. PICK k \in Blocks : k = block[buf[p]]
  BY Has DEF Acquire, EndRead, Goto
<1>1. /\ pc[p] \in {"lock", "reading"} /\ buf[p] \in Bufs /\ k = block[buf[p]]
      /\ \A q \in Procs : pc'[q] = IF q = p THEN "got" ELSE pc[q]
      /\ UNCHANGED <<data, disk, block, buf, dirty>>
  BY <1>0, <1>t, Has DEF Acquire, EndRead, Goto, CacheTypeOK, listVars
<1>2. ASSUME NEW q \in Procs, pc[q] \in InHand
      PROVE  q # p /\ block[buf[q]] # k /\ pc'[q] \in InHand
  <2>1. q # p /\ pc[q] \in Holding /\ locked[buf[q]] = q /\ buf[q] \in Bufs /\ block[buf[q]] # None
    BY <1>1, <1>2, <1>t, Has DEF InHand, Holding, Places
  <2>2. CASE Acquire(p)
    <3>1. buf[q] # buf[p]
      BY <1>c, <2>1, <2>2 DEF Acquire
    <3> QED BY <1>1, <1>2, <1>t, <2>1, <3>1 DEF OneBufferPerBlock
  <2>3. CASE EndRead(p)
    <3>1. pc[p] \in Holding
      BY <2>3 DEF EndRead, Goto, Holding
    <3> QED BY <1>1, <1>2, <2>1, <3>1, Alone
  <2> QED BY <2>2, <2>3
<1>3. Holder(k) = None
  <2>1. \A q \in Procs : ~(pc[q] \in InHand /\ block[buf[q]] = k)
    BY <1>2
  <2> QED BY <1>1, <1>s, <2>1 DEF Seen
<1>4. Holder(k)' = p
  <2>1. pc'[p] \in InHand /\ block'[buf'[p]] = k
    BY <1>1 DEF InHand
  <2> QED BY <1>1, <1>s, <2>1 DEF Seen
<1>5. ASSUME NEW j \in Blocks, j # k
      PROVE  Holder(j)' = Holder(j)
  <2>1. CASE \E q \in Procs : pc[q] \in InHand /\ block[buf[q]] = j
    <3>1. PICK q \in Procs : pc[q] \in InHand /\ block[buf[q]] = j
      BY <2>1
    <3>2. pc'[q] \in InHand /\ block'[buf'[q]] = j
      BY <1>1, <1>2, <3>1
    <3>3. Holder(j) = q
      BY <1>s, <3>1 DEF Seen
    <3>4. Holder(j)' = q
      BY <1>s, <3>2 DEF Seen
    <3> QED BY <3>3, <3>4
  <2>2. CASE \A q \in Procs : ~(pc[q] \in InHand /\ block[buf[q]] = j)
    <3>1. \A q \in Procs : ~(pc'[q] \in InHand /\ block'[buf'[q]] = j)
      BY <1>1, <1>5, <2>2
    <3>2. Holder(j) = None
      BY <1>s, <2>2 DEF Seen
    <3>3. Holder(j)' = None
      BY <1>s, <3>1 DEF Seen
    <3> QED BY <3>2, <3>3
  <2> QED BY <2>1, <2>2
<1>6. \A j \in Blocks : Content(j)' = Content(j)
  BY <1>1, <1>s, SameContents
<1>7. Store!Take(p, k)
  <2>1. [j \in Blocks |-> Holder(j)][k] = None
    BY <1>1, <1>3
  <2>2. [j \in Blocks |-> Holder(j)'] = [[j \in Blocks |-> Holder(j)] EXCEPT ![k] = p]
    <3>1. \A j \in Blocks : Holder(j)' = IF j = k THEN p ELSE Holder(j)
      BY <1>4, <1>5
    <3> QED BY <3>1
  <2>3. [j \in Blocks |-> Content(j)'] = [j \in Blocks |-> Content(j)]
    BY <1>6
  <2> QED BY <2>1, <2>2, <2>3 DEF Store!Take
<1> QED BY <1>1, <1>7 DEF Store!Next

(* The holder changes what it has.                                         *)
LEMMA Changes ==
  ASSUME StackInv, StackInv', NEW p \in Procs, NEW v \in Values, Change(p, v), UNCHANGED driver
  PROVE  [Store!Next]_(Store!storeVars)
<1>t. Clean /\ OneBufferPerBlock /\ CacheTypeOK
  BY DEF StackInv, CacheConsistent
<1>s. Seen /\ Seen'
  BY StackInvSeen, StackInvSeenNext
<1>c. None \notin Bufs \cup Blocks \cup Procs
  BY StackConstants DEF VirtioConstants
<1>0. PICK k \in Blocks : k = block[buf[p]]
  BY Has DEF Change
<1>1. /\ pc[p] \in InHand /\ buf[p] \in Bufs /\ k = block[buf[p]]
      /\ \A b \in Bufs : data'[b] = IF b = buf[p] THEN v ELSE data[b]
      /\ dirty' = dirty \cup {buf[p]} /\ dirty \subseteq Bufs
      /\ UNCHANGED <<disk, block, pc, buf>>
  BY <1>0, <1>t, Has DEF Change, InHand, CacheTypeOK, listVars
<1>2. Holder(k) = p
  BY <1>1, <1>s DEF Seen
<1>3. \A j \in Blocks : Holder(j)' = Holder(j)
  BY <1>1, <1>s, SameHolders
<1>4. Content(k)' = v
  <2>1. buf[p] \in dirty' /\ block'[buf[p]] = k /\ data'[buf[p]] = v
    BY <1>1
  <2> QED BY <1>1, <1>s, <2>1 DEF Seen
<1>5. ASSUME NEW j \in Blocks, j # k
      PROVE  Content(j)' = Content(j)
  <2>1. CASE \E b \in dirty : block[b] = j
    <3>1. PICK b \in dirty : block[b] = j
      BY <2>1
    <3>2. b \in Bufs /\ b # buf[p]
      BY <1>1, <1>5, <3>1
    <3>3. Content(j) = data[b]
      BY <1>s, <3>1 DEF Seen
    <3>4. Content(j)' = data'[b]
      BY <1>1, <1>s, <3>1 DEF Seen
    <3> QED BY <1>1, <3>2, <3>3, <3>4
  <2>2. CASE \A b \in dirty : block[b] # j
    <3>1. \A b \in dirty' : block'[b] # j
      BY <1>1, <1>5, <2>2
    <3>2. Content(j) = disk[j]
      BY <1>s, <2>2 DEF Seen
    <3>3. Content(j)' = disk'[j]
      BY <1>s, <3>1 DEF Seen
    <3> QED BY <1>1, <3>2, <3>3
  <2> QED BY <2>1, <2>2
<1>6. Store!Change(p, k, v)
  <2>1. [j \in Blocks |-> Holder(j)][k] = p
    BY <1>1, <1>2
  <2>2. [j \in Blocks |-> Content(j)'] = [[j \in Blocks |-> Content(j)] EXCEPT ![k] = v]
    <3>1. \A j \in Blocks : Content(j)' = IF j = k THEN v ELSE Content(j)
      BY <1>4, <1>5
    <3> QED BY <3>1
  <2>3. [j \in Blocks |-> Holder(j)'] = [j \in Blocks |-> Holder(j)]
    BY <1>3
  <2> QED BY <2>1, <2>2, <2>3 DEF Store!Change
<1> QED BY <1>1, <1>6 DEF Store!Next

(* brelse gives the block back.                                            *)
LEMMA Gives ==
  ASSUME StackInv, StackInv', NEW p \in Procs, Release(p), UNCHANGED driver
  PROVE  [Store!Next]_(Store!storeVars)
<1>t. Places /\ CacheTypeOK
  BY DEF StackInv, CacheConsistent
<1>s. Seen /\ Seen'
  BY StackInvSeen, StackInvSeenNext
<1>0. PICK k \in Blocks : k = block[buf[p]]
  BY Has DEF Release
<1>1. /\ pc[p] \in InHand /\ k = block[buf[p]] /\ pc'[p] \notin InHand
      /\ \A q \in Procs : q # p => (pc'[q] \in InHand <=> pc[q] \in InHand)
      /\ UNCHANGED <<data, disk, block, buf, dirty>>
  BY <1>0, <1>t, Has DEF Release, InHand, CacheTypeOK, listVars
<1>2. Holder(k) = p
  BY <1>1, <1>s DEF Seen
<1>3. \A q \in Procs : q # p /\ pc[q] \in InHand => block[buf[q]] # k
  BY <1>1, Alone DEF InHand, Holding
<1>4. Holder(k)' = None
  <2>1. \A q \in Procs : ~(pc'[q] \in InHand /\ block'[buf'[q]] = k)
    BY <1>1, <1>3
  <2> QED BY <1>1, <1>s, <2>1 DEF Seen
<1>5. ASSUME NEW j \in Blocks, j # k
      PROVE  Holder(j)' = Holder(j)
  <2>1. CASE \E q \in Procs : pc[q] \in InHand /\ block[buf[q]] = j
    <3>1. PICK q \in Procs : pc[q] \in InHand /\ block[buf[q]] = j
      BY <2>1
    <3>2. pc'[q] \in InHand /\ block'[buf'[q]] = j
      BY <1>1, <1>5, <3>1
    <3>3. Holder(j) = q
      BY <1>s, <3>1 DEF Seen
    <3>4. Holder(j)' = q
      BY <1>s, <3>2 DEF Seen
    <3> QED BY <3>3, <3>4
  <2>2. CASE \A q \in Procs : ~(pc[q] \in InHand /\ block[buf[q]] = j)
    <3>1. \A q \in Procs : ~(pc'[q] \in InHand /\ block'[buf'[q]] = j)
      BY <1>1, <2>2
    <3>2. Holder(j) = None
      BY <1>s, <2>2 DEF Seen
    <3>3. Holder(j)' = None
      BY <1>s, <3>1 DEF Seen
    <3> QED BY <3>2, <3>3
  <2> QED BY <2>1, <2>2
<1>6. \A j \in Blocks : Content(j)' = Content(j)
  BY <1>1, <1>s, SameContents
<1>7. Store!Give(p, k)
  <2>1. [j \in Blocks |-> Holder(j)][k] = p
    BY <1>1, <1>2
  <2>2. [j \in Blocks |-> Holder(j)'] = [[j \in Blocks |-> Holder(j)] EXCEPT ![k] = None]
    <3>1. \A j \in Blocks : Holder(j)' = IF j = k THEN None ELSE Holder(j)
      BY <1>4, <1>5
    <3> QED BY <3>1
  <2>3. [j \in Blocks |-> Content(j)'] = [j \in Blocks |-> Content(j)]
    BY <1>6
  <2> QED BY <2>1, <2>2, <2>3 DEF Store!Give
<1> QED BY <1>1, <1>7 DEF Store!Next

(* What a caller does not see: which buffer a block is in, and the reads   *)
(* and writes of the disk on the way.                                      *)
LEMMA Unseen ==
  ASSUME StackInv, StackInv', NEW p \in Procs, UNCHANGED driver,
         \/ \E k \in Blocks : Hit(p, k) \/ Recycle(p, k) \/ NoBuffers(p, k)
         \/ (Acquire(p) /\ buf[p] \notin valid) \/ SleepOnLock(p)
         \/ StartRead(p) \/ StartWrite(p) \/ Pin(p) \/ Unpin(p) \/ Unref(p)
  PROVE  [Store!Next]_(Store!storeVars)
<1>t. Clean /\ OneBufferPerBlock /\ CacheTypeOK /\ RefcntCounts /\ Places
  BY DEF StackInv, CacheConsistent
<1>s. Seen /\ Seen'
  BY StackInvSeen, StackInvSeenNext
<1>1. /\ \A q \in Procs : q # p => pc'[q] = pc[q] /\ buf'[q] = buf[q]
      /\ pc[p] \in InHand <=> pc'[p] \in InHand
      /\ pc[p] \in InHand => buf'[p] = buf[p]
      /\ UNCHANGED <<data, disk, dirty>>
  BY <1>t DEF Hit, Recycle, NoBuffers, Acquire, SleepOnLock, StartRead, StartWrite, Pin, Unpin, Unref,
              Goto, InHand, CacheTypeOK, listVars
<1>2. \A b \in Bufs : block'[b] = block[b] \/ (Users(b) = {} /\ b \notin dirty)
  <2>1. CASE \E k \in Blocks : Recycle(p, k)
    <3>1. PICK c \in Bufs : refcnt[c] = 0 /\ \A b \in Bufs : b # c => block'[b] = block[b]
      <4>1. \A i \in DOMAIN lru : lru[i] \in Bufs
        BY <1>t DEF CacheTypeOK
      <4> QED BY <1>t, <2>1, <4>1 DEF Recycle, Unused, CacheTypeOK
    <3>2. Users(c) = {} /\ c \notin pinned
      <4>1. 0 = Cardinality(Users(c)) + (IF c \in pinned THEN 1 ELSE 0)
        BY <1>t, <3>1 DEF RefcntCounts
      <4> QED BY <4>1, UsersCount
    <3>3. c \notin dirty
      BY <1>t, <3>2 DEF Clean, Users
    <3> QED BY <3>1, <3>2, <3>3
  <2>2. CASE UNCHANGED block
    BY <2>2
  <2> QED BY <2>1, <2>2 DEF Hit, NoBuffers, Acquire, SleepOnLock, StartRead, StartWrite, Pin, Unpin, Unref, listVars
<1>3. \A q \in Procs : pc[q] \in InHand => block'[buf'[q]] = block[buf[q]]
  <2>1. \A q \in Procs : pc[q] \in InHand => buf[q] \in Bufs /\ buf'[q] = buf[q] /\ Users(buf[q]) # {}
    BY <1>1, Has DEF InHand, Users
  <2> QED BY <1>2, <2>1
<1>4. \A k \in Blocks : Holder(k)' = Holder(k)
  <2>1. \A q \in Procs : pc'[q] \in InHand <=> pc[q] \in InHand
    BY <1>1
  <2> QED BY <1>3, <1>s, <2>1, SameHolders
<1>5. \A k \in Blocks : Content(k)' = Content(k)
  <2>1. \A b \in dirty : block'[b] = block[b]
    BY <1>2, <1>t DEF CacheTypeOK
  <2> QED BY <1>1, <1>s, <2>1, SameContents
<1> QED BY <1>4, <1>5, Stutters

(* The end of bwrite: the change is on the disk now.                       *)
LEMMA Written ==
  ASSUME StackInv, StackInv', NEW p \in Procs, EndWrite(p), UNCHANGED driver
  PROVE  [Store!Next]_(Store!storeVars)
<1>t. Clean /\ CacheTypeOK /\ Transferred
  BY DEF StackInv, CacheConsistent
<1>s. Seen /\ Seen'
  BY StackInvSeen, StackInvSeenNext
<1>1. /\ pc[p] = "writing" /\ io[p] = NoIO
      /\ \A q \in Procs : pc'[q] = IF q = p THEN "got" ELSE pc[q]
      /\ dirty' = dirty \ {buf[p]}
      /\ UNCHANGED <<data, disk, block, buf>>
  BY <1>t DEF EndWrite, Goto, CacheTypeOK, listVars
<1>2. data[buf[p]] = disk[block[buf[p]]]
  BY <1>1, <1>t DEF Transferred, Done
<1>3. \A k \in Blocks : Holder(k)' = Holder(k)
  <2>1. \A q \in Procs : pc'[q] \in InHand <=> pc[q] \in InHand
    BY <1>1 DEF InHand
  <2> QED BY <1>1, <1>s, <2>1, SameHolders
<1>4. ASSUME NEW k \in Blocks
      PROVE  Content(k)' = Content(k)
  <2>1. CASE \E b \in dirty : block[b] = k
    <3>1. PICK b \in dirty : block[b] = k
      BY <2>1
    <3>2. Content(k) = data[b]
      BY <1>s, <3>1 DEF Seen
    <3>3. CASE b \in dirty'
      <4>1. Content(k)' = data'[b]
        BY <1>1, <1>s, <3>1, <3>3 DEF Seen
      <4> QED BY <1>1, <3>2, <4>1
    <3>4. CASE b \notin dirty'
      <4>1. b = buf[p]
        BY <1>1, <3>4
      <4>2. CASE \E c \in dirty' : block[c] = k
        <5>1. PICK c \in dirty' : block[c] = k
          BY <4>2
        <5>2. Content(k) = data[c]
          BY <1>1, <1>s, <5>1 DEF Seen
        <5>3. Content(k)' = data'[c]
          BY <1>1, <1>s, <5>1 DEF Seen
        <5> QED BY <1>1, <5>2, <5>3
      <4>3. CASE \A c \in dirty' : block[c] # k
        <5>1. Content(k)' = disk'[k]
          BY <1>1, <1>s, <4>3 DEF Seen
        <5> QED BY <1>1, <1>2, <3>1, <3>2, <4>1, <5>1
      <4> QED BY <4>2, <4>3
    <3> QED BY <3>3, <3>4
  <2>2. CASE \A b \in dirty : block[b] # k
    <3>1. Content(k) = disk[k]
      BY <1>s, <2>2 DEF Seen
    <3>2. \A b \in dirty' : block'[b] # k
      BY <1>1, <2>2
    <3>3. Content(k)' = disk'[k]
      BY <1>s, <3>2 DEF Seen
    <3> QED BY <1>1, <3>1, <3>3
  <2> QED BY <2>1, <2>2
<1> QED BY <1>3, <1>4, Stutters

(* The driver and the device: the transfer of a changed buffer changes no  *)
(* content, and that of a block to be read goes where no content is.       *)
LEMMA ServedUnseen ==
  ASSUME StackInv, StackInv', Served
  PROVE  [Store!Next]_(Store!storeVars)
<1>t. Clean /\ CacheTypeOK /\ Rings /\ Calling /\ Places /\ VirtioInv
  BY DEF StackInv, CacheConsistent
<1>s. Seen /\ Seen'
  BY StackInvSeen, StackInvSeenNext
<1>1. UNCHANGED <<pc, block, buf, dirty, valid>>
  BY DEF Served, cacheVars, listVars
<1>2. \A k \in Blocks : Holder(k)' = Holder(k)
  BY <1>1, <1>s, SameHolders
<1>3. CASE UNCHANGED <<data, disk>>
  BY <1>1, <1>2, <1>3, <1>s, SameContents, Stutters
<1>4. ASSUME NEW d \in Desc, DeviceDone(d)
      PROVE  \A k \in Blocks : Content(k)' = Content(k)
  <2>1. PICK p \in Procs : st[p] = "queued" /\ head[p] = d
    BY <1>4, <1>t DEF DeviceDone, Rings
  <2>2. io[p] # NoIO /\ pc[p] \in {"reading", "writing"}
    BY <2>1, Waiting
  <2>3. buf[p] \in Bufs /\ block[buf[p]] \in Blocks
    BY <2>2, Has
  <2>4. /\ ops[d].block = block[buf[p]] /\ addr[next[d]] = buf[p]
        /\ ops[d].write <=> pc[p] = "writing"
    <3>1. ops[d].block = io[p].block /\ addr[next[d]] = io[p].buf /\ ops[d].write = io[p].write
      BY <1>t, <2>1, Queued
    <3> QED BY <1>t, <2>2, <3>1 DEF Calling
  <2>5. CASE pc[p] = "writing"
    <3>1. /\ data' = data /\ buf[p] \in dirty
          /\ \A k \in Blocks : k # block[buf[p]] => disk'[k] = disk[k]
      BY <1>4, <1>t, <2>4, <2>5 DEF DeviceDone, CacheTypeOK, Places
    <3> QED BY <1>1, <1>s, <3>1, SameContents
  <2>6. CASE pc[p] = "reading"
    <3>1. /\ disk' = disk /\ buf[p] \notin valid
          /\ \A b \in Bufs : b # buf[p] => data'[b] = data[b]
      BY <1>4, <1>t, <2>4, <2>6 DEF DeviceDone, CacheTypeOK, Places
    <3>2. \A b \in dirty : b \in Bufs /\ b # buf[p]
      BY <1>t, <3>1 DEF Clean, CacheTypeOK
    <3> QED BY <1>1, <1>s, <3>1, <3>2, SameContents
  <2> QED BY <2>2, <2>5, <2>6
<1>5. UNCHANGED <<data, disk>> \/ \E d \in Desc : DeviceDone(d)
  BY DEF Served, VirtioNext, Driver, Intr, Device, Rw, Return, IntrAck, IntrNext, IntrEnd
<1> QED BY <1>2, <1>3, <1>4, <1>5, Stutters

(* The cache implements a store of blocks: each block is there once, with  *)
(* what was last put there, for one process at a time, for any number of   *)
(* processes, buffers, blocks and descriptors.                             *)
THEOREM CacheIsStore == Spec => ImplementsBlockStore
<1>1. Init => Store!Init
  <2> SUFFICES ASSUME Init
               PROVE  Store!Init
    OBVIOUS
  <2>1. Seen
    BY StackInvInit, StackInvSeen
  <2>2. \A k \in Blocks : Content(k) = disk[k] /\ Holder(k) = None
    BY <2>1 DEF Seen, Init, CacheInit, InHand
  <2>3. [k \in Blocks |-> Content(k)] \in [Blocks -> Values]
    BY <2>2 DEF Init
  <2> QED BY <2>2, <2>3 DEF Store!Init
<1>2. StackInv /\ StackInv' /\ [Next]_vars => [Store!Next]_(Store!storeVars)
  <2> SUFFICES ASSUME StackInv, StackInv', [Next]_vars
               PROVE  [Store!Next]_(Store!storeVars)
    OBVIOUS
  <2>1. CASE UNCHANGED vars
    <3>1. Seen /\ Seen'
      BY StackInvSeen, StackInvSeenNext
    <3> QED BY <2>1, <3>1, SameHolders, SameContents, Stutters DEF vars, cacheVars, listVars
  <2>2. ASSUME NEW p \in Procs, Calls(p)
        PROVE  [Store!Next]_(Store!storeVars)
    <3>1. UNCHANGED driver
      BY <2>2 DEF Calls
    <3>2. CASE Acquire(p)
      <4>1. CASE buf[p] \in valid
        BY <3>1, <3>2, <4>1, Takes
      <4>2. CASE buf[p] \notin valid
        BY <3>1, <3>2, <4>2, Unseen
      <4> QED BY <4>1, <4>2
    <3>3. CASE EndRead(p)
      BY <3>1, <3>3, Takes
    <3>4. ASSUME NEW v \in Values, Change(p, v)
          PROVE  [Store!Next]_(Store!storeVars)
      BY <3>1, <3>4, Changes
    <3>5. CASE Release(p)
      BY <3>1, <3>5, Gives
    <3>6. CASE EndWrite(p)
      BY <3>1, <3>6, Written
    <3>7. CASE \/ \E k \in Blocks : Hit(p, k) \/ Recycle(p, k) \/ NoBuffers(p, k)
               \/ SleepOnLock(p) \/ StartRead(p) \/ StartWrite(p) \/ Pin(p) \/ Unpin(p) \/ Unref(p)
      BY <3>1, <3>7, Unseen
    <3> QED BY <2>2, <3>2, <3>3, <3>4, <3>5, <3>6, <3>7 DEF Calls, CacheStep
  <2>3. CASE Served
    BY <2>3, ServedUnseen
  <2> QED BY <2>1, <2>2, <2>3 DEF Next
<1> QED BY <1>1, <1>2, StackInvInit, StackInvStep, PTL DEF Spec, ImplementsBlockStore, Store!Spec
=============================================================================
