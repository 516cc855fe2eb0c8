------------------------------- MODULE Virtio -------------------------------
(***************************************************************************)
(* The disk driver (kernel/virtio_disk.c, the same in all three trees) and *)
(* the device it talks to.                                                 *)
(*                                                                         *)
(* The driver's work under vdisk_lock is one step: nobody but the device   *)
(* runs beside it, and the device sees a request only when avail->idx is   *)
(* incremented.  The interrupt handler holds the lock over several steps,  *)
(* because the device may complete requests while it runs.  The rings are  *)
(* modelled by what is in them: avail by the requests the device has not   *)
(* completed, in no order because it takes them in any order, used by the  *)
(* completions the handler has not looked at.  Sleep and wakeup are steps; *)
(* module Bsem has their insides.                                          *)
(*                                                                         *)
(* io, data and disk are shared with the callers (module BufferCache): a   *)
(* process p calls virtio_disk_rw by setting io[p], and returns when it is *)
(* NoIO again.  The device answers with status 0; the driver panics on any *)
(* other answer.                                                           *)
(***************************************************************************)
EXTENDS Naturals, FiniteSets, Sequences

CONSTANTS Procs,   (* processes                               *)
          Bufs,    (* buffers                                 *)
          Blocks,  (* blocks of the disk                      *)
          NUM,     (* descriptors                             *)
          None,    (* no buffer, no block, no process         *)
          NoIO     (* not in virtio_disk_rw                   *)

VirtioConstants ==
  /\ NUM \in Nat /\ NUM >= 3
  /\ None \notin Bufs \cup Blocks \cup Procs
  /\ NoIO \notin [buf : Bufs, block : Blocks, write : BOOLEAN]

Desc == 0..(NUM - 1)
IO == [buf : Bufs, block : Blocks, write : BOOLEAN]

VARIABLES
  io,       \* the call of virtio_disk_rw a process is in: b, b->blockno, write
  data,     \* b->data
  disk,     \* what is on the disk
  free,     \* disk.free: the descriptors that are
  next,     \* desc[i].next, or None without VRING_DESC_F_NEXT
  addr,     \* desc[i].addr, for descriptors of b->data
  ops,      \* disk.ops: what the first descriptor of a chain asks for
  info,     \* disk.info[i].b
  busy,     \* the buffers with b->disk = 1
  avail,    \* chains the device has not completed
  used,     \* chains it has completed and the handler has not seen
  irq,      \* the device interrupts
  handling, \* virtio_disk_intr holds vdisk_lock
  st,       \* where the process is in virtio_disk_rw
  head      \* idx[0]

descVars == <<free, next, addr>>
ringVars == <<ops, info, busy, avail, used, irq, handling>>
driverVars == <<descVars, ringVars, st, head>>
virtioVars == <<io, data, disk, driverVars>>

VirtioTypeOK ==
  /\ io \in [Procs -> IO \cup {NoIO}]
  /\ free \subseteq Desc
  /\ next \in [Desc -> Desc \cup {None}]
  /\ addr \in [Desc -> Bufs \cup {None}]
  /\ ops \in [Desc -> [block : Blocks \cup {None}, write : BOOLEAN]]
  /\ info \in [Desc -> Bufs \cup {None}]
  /\ busy \subseteq Bufs
  /\ avail \subseteq Desc
  /\ used \in Seq(Desc)
  /\ irq \in BOOLEAN
  /\ handling \in BOOLEAN
  /\ st \in [Procs -> {"idle", "full", "retry", "queued", "woken"}]
  /\ head \in [Procs -> Desc \cup {None}]

DriverInit ==
  /\ free = Desc
  /\ next = [d \in Desc |-> None]
  /\ addr = [d \in Desc |-> None]
  /\ ops = [d \in Desc |-> [block |-> None, write |-> FALSE]]
  /\ info = [d \in Desc |-> None]
  /\ busy = {}
  /\ avail = {}
  /\ used = <<>>
  /\ irq = FALSE
  /\ handling = FALSE
  /\ st = [p \in Procs |-> "idle"]
  /\ head = [p \in Procs |-> None]

Least(S) == CHOOSE d \in S : \A e \in S : d <= e

(* wakeup(&disk.free[0]) *)
WakeFull(s) == [p \in Procs |-> IF s[p] = "full" THEN "retry" ELSE s[p]]
-----------------------------------------------------------------------------
(* alloc3_desc got three descriptors: the chain is formatted and the       *)
(* device is told.                                                         *)
Queue(p, d0, d1, d2) ==
  /\ free' = free \ {d0, d1, d2}
  /\ next' = [next EXCEPT ![d0] = d1, ![d1] = d2, ![d2] = None]
  /\ addr' = [addr EXCEPT ![d1] = io[p].buf]
  /\ ops' = [ops EXCEPT ![d0] = [block |-> io[p].block, write |-> io[p].write]]
  /\ busy' = busy \cup {io[p].buf}
  /\ info' = [info EXCEPT ![d0] = io[p].buf]
  /\ avail' = avail \cup {d0}
  /\ st' = [st EXCEPT ![p] = "queued"]
  /\ head' = [head EXCEPT ![p] = d0]
  /\ UNCHANGED <<used, irq, handling>>

\* Variant: what it has taken is not given back.
FullKeeps(p) ==
  /\ st' = [st EXCEPT ![p] = "full"]
  /\ free' = {}
  /\ UNCHANGED <<next, addr, ringVars, head>>

(* It did not: what it has taken is given back, which wakes those who wait *)
(* for descriptors, and the process sleeps.                                *)
Full(p) ==
  /\ st' = [(IF free = {} THEN st ELSE WakeFull(st)) EXCEPT ![p] = "full"]
  /\ UNCHANGED <<descVars, ringVars, head>>

Rw(p) ==
  /\ io[p] # NoIO /\ st[p] \in {"idle", "retry"}
  /\ ~handling
  /\ IF Cardinality(free) >= 3
     THEN LET d0 == Least(free)
              d1 == Least(free \ {d0})
              d2 == Least(free \ {d0, d1})
          IN Queue(p, d0, d1, d2)
     ELSE Full(p)
  /\ UNCHANGED <<io, data, disk>>

Chain(d) == {d, next[d], next[next[d]]}

(* Woken up by the handler: b->disk is 0, so the loop ends (nobody else    *)
(* wakes a sleeper on b), the chain is freed and virtio_disk_rw returns.   *)
Return(p) ==
  /\ st[p] = "woken" /\ ~handling
  /\ io[p].buf \notin busy
  /\ free' = free \cup Chain(head[p])
  /\ next' = [d \in Desc |-> IF d \in Chain(head[p]) THEN None ELSE next[d]]
  /\ addr' = [d \in Desc |-> IF d \in Chain(head[p]) THEN None ELSE addr[d]]
  /\ info' = [info EXCEPT ![head[p]] = None]
  /\ st' = [WakeFull(st) EXCEPT ![p] = "idle"]
  /\ head' = [head EXCEPT ![p] = None]
  /\ io' = [io EXCEPT ![p] = NoIO]
  /\ UNCHANGED <<data, disk, ops, busy, avail, used, irq, handling>>
-----------------------------------------------------------------------------
(* virtio_disk_intr: the interrupt is acknowledged, the completions are    *)
(* looked at one by one, the lock is released when there is none left.     *)
IntrAck ==
  /\ irq /\ ~handling
  /\ handling' = TRUE
  /\ irq' = FALSE
  /\ UNCHANGED <<io, data, disk, descVars, ops, info, busy, avail, used, st, head>>

\* Variant: one completion per interrupt.
IntrNextOnly ==
  LET b == info[Head(used)] IN
  /\ handling /\ used # <<>>
  /\ busy' = busy \ {b}
  /\ st' = [p \in Procs |-> IF st[p] = "queued" /\ io[p].buf = b THEN "woken" ELSE st[p]]
  /\ used' = Tail(used)
  /\ handling' = FALSE
  /\ UNCHANGED <<io, data, disk, descVars, ops, info, avail, irq, head>>

IntrNext ==
  LET b == info[Head(used)] IN
  /\ handling /\ used # <<>>
  /\ busy' = busy \ {b}
  /\ st' = [p \in Procs |-> IF st[p] = "queued" /\ io[p].buf = b THEN "woken" ELSE st[p]]
  /\ used' = Tail(used)
  /\ UNCHANGED <<io, data, disk, descVars, ops, info, avail, irq, handling, head>>

IntrEnd ==
  /\ handling /\ used = <<>>
  /\ handling' = FALSE
  /\ UNCHANGED <<io, data, disk, descVars, ops, info, busy, avail, used, irq, st, head>>
-----------------------------------------------------------------------------
(* The device does what a chain asks for and interrupts. *)
DeviceDone(d) ==
  LET b == addr[next[d]]
      k == ops[d].block
  IN /\ d \in avail
     /\ IF ops[d].write THEN disk' = [disk EXCEPT ![k] = data[b]] /\ UNCHANGED data
                        ELSE data' = [data EXCEPT ![b] = disk[k]] /\ UNCHANGED disk
     /\ avail' = avail \ {d}
     /\ used' = Append(used, d)
     /\ irq' = TRUE
     /\ UNCHANGED <<io, descVars, ops, info, busy, handling, st, head>>

Driver(p) == Rw(p) \/ Return(p)
Intr == IntrAck \/ IntrNext \/ IntrEnd
Device == \E d \in Desc : DeviceDone(d)

VirtioNext == (\E p \in Procs : Driver(p)) \/ Intr \/ Device
-----------------------------------------------------------------------------
(* Every descriptor is free or in exactly one chain of three, whose process *)
(* is in virtio_disk_rw: none leaks, none is in two requests.  The chain of *)
(* a request that is not complete says what the process asked for, and the  *)
(* handler will find its buffer and wake its process.                       *)
DescriptorsAccounted ==
  LET active == {p \in Procs : st[p] \in {"queued", "woken"}} IN
  /\ VirtioTypeOK
  /\ \A p \in active : Cardinality(Chain(head[p]) \cap Desc) = 3 /\ Chain(head[p]) \cap free = {}
  /\ \A p, q \in active : p # q => Chain(head[p]) \cap Chain(head[q]) = {}
  /\ free = Desc \ UNION {Chain(head[p]) : p \in active}
  /\ \A p \in active : st[p] = "queued" =>
       LET d == head[p] IN
       /\ ops[d] = [block |-> io[p].block, write |-> io[p].write]
       /\ info[d] = io[p].buf /\ addr[next[d]] = io[p].buf
       /\ d \in avail \/ \E i \in 1..Len(used) : used[i] = d

(* A request that is queued is answered.                                    *)
QueuedReturns == \A p \in Procs : st[p] = "queued" ~> st[p] = "idle"
=============================================================================
