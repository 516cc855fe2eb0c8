-------------------------------- MODULE Pipe --------------------------------
(***************************************************************************)
(* A pipe (kernel/pipe.c) and the two struct files that are its ends, with *)
(* the reference counts of kernel/file.c: processes fork, write, read,     *)
(* close their descriptors and are killed.  Every process has one thread,  *)
(* as in ass1 and ass3: in ass2 a sibling may close the descriptor a       *)
(* thread is reading from.                                                 *)
(*                                                                         *)
(* pi->lock is modelled, and what is done under it goes byte by byte:      *)
(* kill, which takes only the victim's p->lock, may come at any point, so  *)
(* also between the look at pr->killed and sleep.                          *)
(***************************************************************************)
EXTENDS Naturals, Sequences, FiniteSets

CONSTANTS Procs, Nobody,
          PIPESIZE,
          UINT,       (* the counters are unsigned: modulo UINT    *)
          MaxN        (* bound: bytes asked for in one call        *)

PipeConstants ==
  /\ IsFiniteSet(Procs) /\ Procs # {} /\ Nobody \notin Procs
  /\ MaxN \in Nat
  /\ PIPESIZE \in Nat \ {0} /\ UINT \in Nat /\ UINT > PIPESIZE /\ UINT % PIPESIZE = 0

Bytes == 0..(UINT - 1)   \* a byte is named after the counter it was written at

VARIABLES
  ends,      \* the ends a process has a descriptor of
  ref,       \* f->ref of the two files
  openEnds,  \* pi->readopen, pi->writeopen
  pdata, nread, nwrite,
  plock,     \* who holds pi->lock
  at,        \* where a process is
  left,      \* bytes its call still has to move
  asleep,    \* SLEEPING: on &pi->nread or on &pi->nwrite, at says which
  doomed,    \* p->killed
  kfreed,    \* the pipe's page is given back
  cut        \* history: a write was cut short by kill after its last wakeup

ringVars == <<pdata, nread, nwrite>>
fileVars == <<ends, ref, openEnds, kfreed>>
pipeVars == <<ends, ref, openEnds, pdata, nread, nwrite, plock, at, left, asleep,
              doomed, kfreed, cut>>

PipeTypeOK ==
  /\ ends \in [Procs -> SUBSET {"r", "w"}] /\ ref \in [{"r", "w"} -> 0..Cardinality(Procs)]
  /\ openEnds \subseteq {"r", "w"}
  /\ pdata \in [0..(PIPESIZE - 1) -> Bytes] /\ nread \in 0..(UINT - 1) /\ nwrite \in 0..(UINT - 1)
  /\ plock \in Procs \cup {Nobody}
  /\ at \in [Procs -> {"unborn", "user", "write", "full", "wsleep", "read", "empty", "rsleep",
                       "copy", "closer", "closew", "kfree"}]
  /\ left \in [Procs -> 0..MaxN]
  /\ asleep \subseteq Procs /\ doomed \subseteq Procs
  /\ kfreed \in BOOLEAN /\ cut \in BOOLEAN

(* After pipe(): one process, with both ends. *)
Init ==
  LET first == CHOOSE p \in Procs : TRUE IN
  /\ ends = [p \in Procs |-> IF p = first THEN {"r", "w"} ELSE {}]
  /\ ref = [e \in {"r", "w"} |-> 1]
  /\ openEnds = {"r", "w"}
  /\ pdata = [i \in 0..(PIPESIZE - 1) |-> 0]
  /\ nread = 0 /\ nwrite = 0
  /\ plock = Nobody
  /\ at = [p \in Procs |-> IF p = first THEN "user" ELSE "unborn"]
  /\ left = [p \in Procs |-> 0]
  /\ asleep = {} /\ doomed = {}
  /\ kfreed = FALSE /\ cut = FALSE

Full == nwrite = (nread + PIPESIZE) % UINT
Empty == nread = nwrite
Items == [i \in 1..((nwrite + UINT - nread) % UINT) |-> pdata[(nread + i - 1) % PIPESIZE]]

Goto(p, to) == at' = [at EXCEPT ![p] = to]
Awake(chan) == asleep' = asleep \ {q \in Procs : at[q] = chan}

(* wakeup(&pi->nread), and the return. *)
WakeReaders == Awake("rsleep") /\ cut' = FALSE
Leave(p) == Goto(p, "user") /\ plock' = Nobody /\ left' = [left EXCEPT ![p] = 0]
-----------------------------------------------------------------------------
Call(p, e, to) ==
  /\ at[p] = "user" /\ p \notin doomed /\ e \in ends[p] /\ plock = Nobody
  /\ \E n \in 1..MaxN : left' = [left EXCEPT ![p] = n]
  /\ plock' = p /\ Goto(p, to)
  /\ UNCHANGED <<fileVars, ringVars, asleep, doomed, cut>>

(* pipewrite up to the sleep: a killed writer, or one without readers,     *)
(* returns at once; what was copied so far has woken nobody yet.           *)
Written(p) ==
  /\ at[p] = "write" /\ left[p] = 0
  /\ WakeReaders /\ Leave(p)
  /\ UNCHANGED <<fileVars, ringVars, doomed>>

WriteCut(p) ==
  /\ at[p] = "write" /\ left[p] > 0
  /\ "r" \notin openEnds \/ p \in doomed
  /\ cut' = (cut \/ ~Empty)
  /\ Leave(p)
  /\ UNCHANGED <<fileVars, ringVars, asleep, doomed>>

\* Variant: readers are told only when the write is complete.
WriteFullSilent(p) ==
  /\ at[p] = "write" /\ left[p] > 0 /\ "r" \in openEnds
  /\ Full
  /\ Goto(p, "full")
  /\ UNCHANGED <<fileVars, ringVars, plock, left, asleep, doomed, cut>>

WriteFull(p) ==
  /\ at[p] = "write" /\ left[p] > 0 /\ "r" \in openEnds
  /\ Full
  /\ WakeReaders /\ Goto(p, "full")
  /\ UNCHANGED <<fileVars, ringVars, plock, left, doomed>>

\* Variant: the pipe is never full.
WriteByteOver(p) ==
  /\ at[p] = "write" /\ left[p] > 0 /\ "r" \in openEnds /\ p \notin doomed
  /\ pdata' = [pdata EXCEPT ![nwrite % PIPESIZE] = nwrite]
  /\ nwrite' = (nwrite + 1) % UINT
  /\ left' = [left EXCEPT ![p] = @ - 1]
  /\ UNCHANGED <<fileVars, nread, plock, at, asleep, doomed, cut>>

(* One byte; copyin may fail, which ends the call. *)
WriteByte(p) ==
  /\ at[p] = "write" /\ left[p] > 0 /\ "r" \in openEnds
  /\ ~Full
  /\ \/ /\ p \notin doomed
        /\ pdata' = [pdata EXCEPT ![nwrite % PIPESIZE] = nwrite]
        /\ nwrite' = (nwrite + 1) % UINT
        /\ left' = [left EXCEPT ![p] = @ - 1]
        /\ UNCHANGED <<plock, at, asleep, cut>>
     \/ WakeReaders /\ Leave(p) /\ UNCHANGED <<pdata, nwrite>>
  /\ UNCHANGED <<fileVars, nread, doomed>>

(* sleep, from either loop, and the way back from it. *)
Sleep(p) ==
  /\ at[p] \in {"full", "empty"}
  /\ asleep' = asleep \cup {p}
  /\ Goto(p, IF at[p] = "full" THEN "wsleep" ELSE "rsleep")
  /\ plock' = Nobody
  /\ UNCHANGED <<fileVars, ringVars, left, doomed, cut>>

Resume(p) ==
  /\ at[p] \in {"wsleep", "rsleep"} /\ p \notin asleep /\ plock = Nobody
  /\ plock' = p
  /\ Goto(p, IF at[p] = "wsleep" THEN "write" ELSE "read")
  /\ UNCHANGED <<fileVars, ringVars, left, asleep, doomed, cut>>

(* piperead: wait for a byte or the end of the writers, then copy.         *)
Read(p) ==
  /\ at[p] = "read"
  /\ \/ Empty /\ "w" \in openEnds /\ p \in doomed /\ Leave(p)
     \/ Empty /\ "w" \in openEnds /\ p \notin doomed /\ Goto(p, "empty") /\ UNCHANGED <<plock, left>>
     \/ ~(Empty /\ "w" \in openEnds) /\ Goto(p, "copy") /\ UNCHANGED <<plock, left>>
  /\ UNCHANGED <<fileVars, ringVars, asleep, doomed, cut>>

(* A byte whose copyout fails is gone, and ends the call. *)
Copy(p) ==
  /\ at[p] = "copy"
  /\ \/ /\ left[p] > 0 /\ ~Empty
        /\ nread' = (nread + 1) % UINT
        /\ \E n \in {left[p] - 1, 0} : left' = [left EXCEPT ![p] = n]
        /\ UNCHANGED <<plock, at, asleep>>
     \/ /\ left[p] = 0 \/ Empty
        /\ Awake("wsleep") /\ Leave(p) /\ UNCHANGED nread
  /\ UNCHANGED <<fileVars, pdata, nwrite, doomed, cut>>
-----------------------------------------------------------------------------
(* fileclose: the last reference closes the end of the pipe, after         *)
(* ftable.lock is released.                                                *)
FileClose(p, e) ==
  /\ at[p] = "user" /\ e \in ends[p]
  /\ ends' = [ends EXCEPT ![p] = @ \ {e}]
  /\ ref' = [ref EXCEPT ![e] = @ - 1]
  /\ IF ref[e] > 1 THEN UNCHANGED at ELSE Goto(p, IF e = "w" THEN "closew" ELSE "closer")
  /\ UNCHANGED <<openEnds, kfreed, ringVars, plock, left, asleep, doomed, cut>>

PipeClose(p) ==
  /\ at[p] \in {"closer", "closew"} /\ plock = Nobody
  /\ openEnds' = openEnds \ {IF at[p] = "closew" THEN "w" ELSE "r"}
  /\ IF at[p] = "closew" THEN WakeReaders ELSE Awake("wsleep") /\ UNCHANGED cut
  /\ Goto(p, IF openEnds' = {} THEN "kfree" ELSE "user")
  /\ UNCHANGED <<ends, ref, kfreed, ringVars, plock, left, doomed>>

Kfree(p) ==
  /\ at[p] = "kfree"
  /\ kfreed' = TRUE /\ Goto(p, "user")
  /\ UNCHANGED <<ends, ref, openEnds, ringVars, plock, left, asleep, doomed, cut>>

(* fork: filedup for every descriptor. *)
Fork(p, q) ==
  /\ at[p] = "user" /\ p \notin doomed /\ at[q] = "unborn"
  /\ ends' = [ends EXCEPT ![q] = ends[p]]
  /\ ref' = [e \in {"r", "w"} |-> IF e \in ends[p] THEN ref[e] + 1 ELSE ref[e]]
  /\ Goto(q, "user")
  /\ UNCHANGED <<openEnds, kfreed, ringVars, plock, left, asleep, doomed, cut>>

(* A killed process closes what it has in exit. *)
Kill(p) ==
  /\ at[p] # "unborn" /\ p \notin doomed
  /\ doomed' = doomed \cup {p}
  /\ asleep' = asleep \ {p}
  /\ UNCHANGED <<fileVars, ringVars, plock, at, left, cut>>

Locked(p) == plock = p /\ \/ Written(p) \/ WriteCut(p) \/ WriteFull(p) \/ WriteByte(p)
                          \/ Sleep(p) \/ Read(p) \/ Copy(p)

Next == \E p \in Procs :
  \/ Call(p, "w", "write") \/ Call(p, "r", "read") \/ Locked(p) \/ Resume(p)
  \/ \E e \in {"r", "w"} : FileClose(p, e)
  \/ PipeClose(p) \/ Kfree(p) \/ Kill(p) \/ \E q \in Procs : Fork(p, q)

Spec == Init /\ [][Next]_pipeVars
-----------------------------------------------------------------------------
(* Bytes come out in the order they went in, across the wrap of the ring    *)
(* and of the counters.                                                     *)
PipeFifo == INSTANCE Fifo WITH items <- Items, open <- openEnds, Capacity <- PIPESIZE
ImplementsFifo == PipeFifo!Spec

(* Nobody sleeps beside what he waits for: a reader only while the pipe is  *)
(* empty and has writers, a writer only while it is full and has readers.   *)
(* But a writer that is killed in mid-write leaves its bytes without waking *)
(* the readers.                                                             *)
PipeSleepers ==
  plock = Nobody => \A p \in asleep :
    \/ at[p] = "rsleep" /\ (cut \/ (Empty /\ "w" \in openEnds))
    \/ at[p] = "wsleep" /\ Full /\ "r" \in openEnds

(* The pipe is given back once, and not while anybody can still use it.     *)
PipeNotFreed ==
  /\ \A e \in {"r", "w"} : ref[e] = Cardinality({p \in Procs : e \in ends[p]})
  /\ \A p \in Procs : kfreed => ends[p] = {} /\ at[p] \in {"unborn", "user"}
  /\ Cardinality({p \in Procs : at[p] = "kfree"}) <= 1

(* Both, and the types.                                                     *)
PipeSafe == PipeTypeOK /\ PipeSleepers /\ PipeNotFreed
=============================================================================
