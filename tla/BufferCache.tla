----------------------------- MODULE BufferCache -----------------------------
(***************************************************************************)
(* The buffer cache (kernel/bio.c) and the sleep-lock of a buffer          *)
(* (kernel/sleeplock.c), the same in all three trees.                      *)
(*                                                                         *)
(* bcache.lock and the spinlock in a sleep-lock cover one step each.  A    *)
(* read or write of the disk is a call that sets io[p] and has returned    *)
(* when io[p] is NoIO again: module Virtio.                                *)
(*                                                                         *)
(* The callers are the log and the file system: they release a buffer they *)
(* have changed only after bwrite or bpin (log_write), and take one buffer *)
(* at a time.                                                              *)
(***************************************************************************)
EXTENDS Naturals, FiniteSets, Sequences

CONSTANTS Procs, Bufs, Blocks,
          Values,  (* contents of a block              *)
          None,    (* no buffer, no block, no process  *)
          NoIO     (* not in virtio_disk_rw            *)

VARIABLES
  io,       \* the call of virtio_disk_rw a process is in
  data,     \* b->data
  disk,     \* what is on the disk
  block,    \* b->blockno, None before the first use
  valid,    \* the buffers with b->valid = 1
  refcnt,   \* b->refcnt
  lru,      \* the list from head.next, most recently used first
  locked,   \* who holds b->lock, None if nobody
  pc,       \* where the process is
  buf,      \* the buffer it works on
  dirty,    \* changed since the last bwrite, as the callers know
  pinned    \* pinned by log_write

listVars == <<block, refcnt, lru>>
cacheVars == <<listVars, valid, locked, pc, buf, dirty, pinned>>

PCs == {"idle", "lock", "asleep", "read", "reading", "got", "writing", "unref", "panic"}

CacheTypeOK ==
  /\ data \in [Bufs -> Values]
  /\ disk \in [Blocks -> Values]
  /\ block \in [Bufs -> Blocks \cup {None}]
  /\ valid \subseteq Bufs
  /\ refcnt \in [Bufs -> Nat]
  /\ lru \in Seq(Bufs)
  /\ locked \in [Bufs -> Procs \cup {None}]
  /\ pc \in [Procs -> PCs]
  /\ buf \in [Procs -> Bufs \cup {None}]
  /\ dirty \subseteq Bufs /\ pinned \subseteq Bufs

CacheInit ==
  /\ block = [b \in Bufs |-> None]
  /\ valid = {}
  /\ refcnt = [b \in Bufs |-> 0]
  /\ lru \in {s \in [1..Cardinality(Bufs) -> Bufs] : \A i, j \in DOMAIN s : s[i] = s[j] => i = j}
  /\ locked = [b \in Bufs |-> None]
  /\ pc = [p \in Procs |-> "idle"]
  /\ buf = [p \in Procs |-> None]
  /\ dirty = {}
  /\ pinned = {}

Goto(p, from, to) == pc[p] = from /\ pc' = [pc EXCEPT ![p] = to]

CachedIn(k) == {b \in Bufs : block[b] = k}
Unused == {i \in DOMAIN lru : refcnt[lru[i]] = 0}
-----------------------------------------------------------------------------
(* bget: the block is cached, *)
Hit(p, k) ==
  \E b \in CachedIn(k) :
    /\ Goto(p, "idle", "lock")
    /\ buf' = [buf EXCEPT ![p] = b]
    /\ refcnt' = [refcnt EXCEPT ![b] = @ + 1]
    /\ UNCHANGED <<io, data, disk, block, lru, valid, locked, dirty, pinned>>

\* Variant: leaves b->valid as it was.
RecycleValid(p, k) ==
  \E i \in Unused :
    LET b == lru[i] IN
    /\ CachedIn(k) = {}
    /\ \A j \in Unused : j <= i
    /\ Goto(p, "idle", "lock")
    /\ buf' = [buf EXCEPT ![p] = b]
    /\ block' = [block EXCEPT ![b] = k]
    /\ refcnt' = [refcnt EXCEPT ![b] = 1]
    /\ UNCHANGED <<io, data, disk, lru, valid, locked, dirty, pinned>>

(* or the least recently used buffer that nobody uses is taken for it, *)
Recycle(p, k) ==
  \E i \in Unused :
    LET b == lru[i] IN
    /\ CachedIn(k) = {}
    /\ \A j \in Unused : j <= i
    /\ Goto(p, "idle", "lock")
    /\ buf' = [buf EXCEPT ![p] = b]
    /\ block' = [block EXCEPT ![b] = k]
    /\ valid' = valid \ {b}
    /\ refcnt' = [refcnt EXCEPT ![b] = 1]
    /\ UNCHANGED <<io, data, disk, lru, locked, dirty, pinned>>

(* or there is none, and the kernel panics. *)
NoBuffers(p, k) ==
  /\ CachedIn(k) = {} /\ Unused = {}
  /\ Goto(p, "idle", "panic")
  /\ UNCHANGED <<io, data, disk, listVars, valid, locked, buf, dirty, pinned>>

(* acquiresleep *)
Acquire(p) ==
  LET b == buf[p] IN
  /\ pc[p] = "lock" /\ locked[b] = None
  /\ pc' = [pc EXCEPT ![p] = IF b \in valid THEN "got" ELSE "read"]
  /\ locked' = [locked EXCEPT ![b] = p]
  /\ UNCHANGED <<io, data, disk, listVars, valid, buf, dirty, pinned>>

SleepOnLock(p) ==
  /\ pc[p] = "lock" /\ locked[buf[p]] # None
  /\ pc' = [pc EXCEPT ![p] = "asleep"]
  /\ UNCHANGED <<io, data, disk, listVars, valid, locked, buf, dirty, pinned>>

(* The rest of bread: the read itself is virtio_disk_rw. *)
StartRead(p) ==
  /\ Goto(p, "read", "reading")
  /\ io' = [io EXCEPT ![p] = [buf |-> buf[p], block |-> block[buf[p]], write |-> FALSE]]
  /\ UNCHANGED <<data, disk, listVars, valid, locked, buf, dirty, pinned>>

EndRead(p) ==
  /\ io[p] = NoIO
  /\ Goto(p, "reading", "got")
  /\ valid' = valid \cup {buf[p]}
  /\ UNCHANGED <<io, data, disk, listVars, locked, buf, dirty, pinned>>
-----------------------------------------------------------------------------
(* What the holder of a buffer does with it. *)
Change(p, v) ==
  /\ pc[p] = "got"
  /\ data' = [data EXCEPT ![buf[p]] = v]
  /\ dirty' = dirty \cup {buf[p]}
  /\ UNCHANGED <<io, disk, listVars, valid, locked, pc, buf, pinned>>

(* bwrite *)
StartWrite(p) ==
  /\ buf[p] \in dirty
  /\ Goto(p, "got", "writing")
  /\ io' = [io EXCEPT ![p] = [buf |-> buf[p], block |-> block[buf[p]], write |-> TRUE]]
  /\ UNCHANGED <<data, disk, listVars, valid, locked, buf, dirty, pinned>>

EndWrite(p) ==
  /\ io[p] = NoIO
  /\ Goto(p, "writing", "got")
  /\ dirty' = dirty \ {buf[p]}
  /\ UNCHANGED <<io, data, disk, listVars, valid, locked, buf, pinned>>

\* Variant: does not count the pin.
PinUncounted(p) ==
  LET b == buf[p] IN
  /\ pc[p] = "got" /\ b \in dirty \ pinned
  /\ pinned' = pinned \cup {b}
  /\ UNCHANGED <<io, data, disk, listVars, valid, locked, pc, buf, dirty>>

(* bpin, by log_write, once for a block in the log; bunpin, by             *)
(* install_trans, when the block has been written.                         *)
Pin(p) ==
  LET b == buf[p] IN
  /\ pc[p] = "got" /\ b \in dirty \ pinned
  /\ refcnt' = [refcnt EXCEPT ![b] = @ + 1]
  /\ pinned' = pinned \cup {b}
  /\ UNCHANGED <<io, data, disk, block, lru, valid, locked, pc, buf, dirty>>

Unpin(p) ==
  LET b == buf[p] IN
  /\ pc[p] = "got" /\ b \in pinned \ dirty
  /\ refcnt' = [refcnt EXCEPT ![b] = @ - 1]
  /\ pinned' = pinned \ {b}
  /\ UNCHANGED <<io, data, disk, block, lru, valid, locked, pc, buf, dirty>>

(* brelse: releasesleep wakes the sleepers; then the reference is dropped, *)
(* and a buffer nobody uses becomes the most recently used one.            *)
Release(p) ==
  LET b == buf[p] IN
  /\ pc[p] = "got"
  /\ b \in dirty => b \in pinned
  /\ pc' = [q \in Procs |-> IF q = p THEN "unref"
                            ELSE IF pc[q] = "asleep" /\ buf[q] = b THEN "lock" ELSE pc[q]]
  /\ locked' = [locked EXCEPT ![b] = None]
  /\ UNCHANGED <<io, data, disk, listVars, valid, buf, dirty, pinned>>

ToFront(b) ==
  LET i == CHOOSE i \in DOMAIN lru : lru[i] = b IN
  [j \in DOMAIN lru |-> IF j = 1 THEN b ELSE IF j <= i THEN lru[j - 1] ELSE lru[j]]

Unref(p) ==
  LET b == buf[p] IN
  /\ Goto(p, "unref", "idle")
  /\ refcnt' = [refcnt EXCEPT ![b] = @ - 1]
  /\ lru' = IF refcnt[b] = 1 THEN ToFront(b) ELSE lru
  /\ buf' = [buf EXCEPT ![p] = None]
  /\ UNCHANGED <<io, data, disk, block, valid, locked, dirty, pinned>>
-----------------------------------------------------------------------------
CacheStep(p) ==
  \/ \E k \in Blocks : Hit(p, k) \/ Recycle(p, k) \/ NoBuffers(p, k)
  \/ Acquire(p) \/ SleepOnLock(p) \/ StartRead(p) \/ EndRead(p)
  \/ \E v \in Values : Change(p, v)
  \/ StartWrite(p) \/ EndWrite(p) \/ Pin(p) \/ Unpin(p) \/ Release(p) \/ Unref(p)

Users(b) == {p \in Procs : buf[p] = b}

(* One buffer at most for a block, and its reference count is the number   *)
(* of those who use, wait for or have pinned it: never too low, so that no  *)
(* buffer in use is recycled, never too high, so that none is lost.         *)
OneBufferPerBlock == \A b, c \in Bufs : block[b] = block[c] /\ block[b] # None => b = c

RefcntCounts ==
  \A b \in Bufs : refcnt[b] = Cardinality(Users(b)) + (IF b \in pinned THEN 1 ELSE 0)

CacheConsistent == CacheTypeOK /\ OneBufferPerBlock /\ RefcntCounts

(* What a caller has in hand is the block it asked for, and nobody else    *)
(* has it: the abstract specification is BlockStore.                        *)
Holder(k) ==
  IF \E p \in Procs : pc[p] \in {"got", "writing"} /\ block[buf[p]] = k
  THEN CHOOSE p \in Procs : pc[p] \in {"got", "writing"} /\ block[buf[p]] = k
  ELSE None

Content(k) ==
  IF \E b \in valid : block[b] = k
  THEN data[CHOOSE b \in valid : block[b] = k]
  ELSE disk[k]
=============================================================================
