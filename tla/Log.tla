--------------------------------- MODULE Log ---------------------------------
(***************************************************************************)
(* The redo log of the file system (kernel/log.c, the same in all three    *)
(* trees) over the buffer cache (kernel/bio.c).                            *)
(*                                                                         *)
(* Sections under log.lock are one step; commit and recovery run without   *)
(* it, one step per disk write.  bwrite returns when the disk has the      *)
(* block, so that writes reach it in order, and a block is written whole   *)
(* or not at all.  Of the buffer cache there is what the log relies on:    *)
(* the contents of a block in memory, the sleep-lock of its buffer, its    *)
(* pins, and that a buffer nobody locks or pins may be recycled at any     *)
(* time, after which the block is read from the disk again.                *)
(*                                                                         *)
(* A crash loses the memory at any moment, also during recovery.           *)
(***************************************************************************)
EXTENDS Integers, FiniteSets, Sequences

CONSTANTS Blocks,       (* blocks outside the log                   *)
          Values,       (* contents of a block                      *)
          Procs,        (* processes that make file system calls    *)
          MAXOPBLOCKS,  (* most blocks an operation writes          *)
          LOGSIZE,      (* most blocks a transaction writes         *)
          NLOG,         (* the log's blocks on the disk, with its   *)
                        (* header: sb->nlog, made outside this code *)
          Nobody        (* a buffer that is not locked              *)

ASSUME LogConstants ==
  /\ MAXOPBLOCKS \in Nat \ {0}
  /\ LOGSIZE \in Nat
  /\ MAXOPBLOCKS <= LOGSIZE
  /\ NLOG \in Nat /\ NLOG > LOGSIZE   \* nothing in the kernel checks it
  /\ Nobody \notin Procs
  /\ IsFiniteSet(Procs)

VARIABLES
  disk,         \* home locations
  logBlocks,    \* the log's blocks, log.start + 1 and on
  head,         \* the header block of the log: block[0..n-1]
  cache,        \* contents of each block in memory
  pins,         \* references log_write took with bpin
  locked,       \* who holds the sleep-lock of the block's buffer
  lh,           \* log.lh: block[0..n-1]
  outstanding,  \* log.outstanding
  committing,   \* log.committing
  phase,        \* where commit, or recover_from_log, is
  tail,         \* its loop variable
  pc,           \* where each process is
  wrote         \* the blocks the operation of each process has logged

diskVars == <<disk, logBlocks, head>>
bufVars  == <<cache, pins, locked>>
opVars   == <<pc, wrote>>
logVars  == <<lh, outstanding, committing>>
vars == <<disk, logBlocks, head, cache, pins, locked, lh, outstanding,
          committing, phase, tail, pc, wrote>>

Recovering == {"readHead", "reinstall", "clear"}
Phases == Recovering \cup {"run", "writeLog", "writeHead", "install", "erase", "finish", "panic"}
PCs    == {"idle", "begin", "asleep", "op", "modified", "commit"}

Entries(s) == {s[i] : i \in 1..Len(s)}   \* the blocks of a header

(* The disk as mkfs makes it; the system boots. *)
Init ==
  /\ disk \in [Blocks -> Values]
  /\ logBlocks \in [1..LOGSIZE -> Values]
  /\ head = <<>>
  /\ cache = disk
  /\ pins = [b \in Blocks |-> 0]
  /\ locked = [b \in Blocks |-> Nobody]
  /\ lh = <<>>
  /\ outstanding = 0
  /\ committing = FALSE
  /\ phase = "readHead"
  /\ tail = 1
  /\ pc = [t \in Procs |-> "idle"]
  /\ wrote = [t \in Procs |-> {}]

Running == phase \notin Recovering \cup {"panic"}
-----------------------------------------------------------------------------
(* begin_op: wait while the log is committing or might overflow. *)
CallBegin(t) ==
  /\ Running
  /\ pc[t] = "idle"
  /\ pc' = [pc EXCEPT ![t] = "begin"]
  /\ UNCHANGED <<diskVars, bufVars, logVars, phase, tail, wrote>>

Full == Len(lh) + (outstanding + 1) * MAXOPBLOCKS > LOGSIZE

BeginSleep(t) ==
  /\ Running
  /\ pc[t] = "begin"
  /\ committing \/ Full
  /\ pc' = [pc EXCEPT ![t] = "asleep"]
  /\ UNCHANGED <<diskVars, bufVars, logVars, phase, tail, wrote>>

\* Variant: no room is kept for the operations under way.
BeginOpNoReserve(t) ==
  /\ Running
  /\ pc[t] = "begin"
  /\ ~committing /\ Len(lh) + MAXOPBLOCKS <= LOGSIZE
  /\ outstanding' = outstanding + 1
  /\ pc' = [pc EXCEPT ![t] = "op"]
  /\ UNCHANGED <<diskVars, bufVars, lh, committing, phase, tail, wrote>>

BeginOp(t) ==
  /\ Running
  /\ pc[t] = "begin"
  /\ ~committing /\ ~Full
  /\ outstanding' = outstanding + 1
  /\ pc' = [pc EXCEPT ![t] = "op"]
  /\ UNCHANGED <<diskVars, bufVars, lh, committing, phase, tail, wrote>>

(* wakeup(&log) *)
Woken == [t \in Procs |-> IF pc[t] = "asleep" THEN "begin" ELSE pc[t]]
-----------------------------------------------------------------------------
(* bread and a change of the buffer's data, its sleep-lock held. *)
Modify(t, b, v) ==
  /\ Running
  /\ pc[t] = "op"
  /\ b \in wrote[t] \/ Cardinality(wrote[t]) < MAXOPBLOCKS
  /\ locked[b] = Nobody
  /\ locked' = [locked EXCEPT ![b] = t]
  /\ cache' = [cache EXCEPT ![b] = v]
  /\ pc' = [pc EXCEPT ![t] = "modified"]
  /\ UNCHANGED <<diskVars, pins, logVars, phase, tail, wrote>>

TooBig == Len(lh) >= LOGSIZE \/ Len(lh) >= NLOG - 1

(* log_write, which pins a block the log does not have yet, and brelse. *)
LogWrite(t, b) ==
  /\ Running
  /\ pc[t] = "modified"
  /\ locked[b] = t
  /\ ~TooBig
  /\ IF b \in Entries(lh)
     THEN UNCHANGED <<lh, pins>>
     ELSE /\ lh' = Append(lh, b)
          /\ pins' = [pins EXCEPT ![b] = @ + 1]
  /\ locked' = [locked EXCEPT ![b] = Nobody]
  /\ wrote' = [wrote EXCEPT ![t] = @ \cup {b}]
  /\ pc' = [pc EXCEPT ![t] = "op"]
  /\ UNCHANGED <<diskVars, cache, outstanding, committing, phase, tail>>

(* "too big a transaction": also when the block is in the log already. *)
LogPanic(t) ==
  /\ Running
  /\ pc[t] = "modified"
  /\ TooBig
  /\ phase' = "panic"
  /\ UNCHANGED <<diskVars, bufVars, logVars, tail, opVars>>

(* bget takes the buffer of a block for another one: reading it again      *)
(* later brings the contents on the disk.                                  *)
Recycle(b) ==
  /\ Running
  /\ pins[b] = 0
  /\ locked[b] = Nobody
  /\ cache' = [cache EXCEPT ![b] = disk[b]]
  /\ UNCHANGED <<diskVars, pins, locked, logVars, phase, tail, opVars>>
-----------------------------------------------------------------------------
(* end_op: the last operation under way commits for all. *)
EndOp(t) ==
  /\ Running
  /\ pc[t] = "op"
  /\ outstanding > 1
  /\ outstanding' = outstanding - 1
  /\ pc' = [Woken EXCEPT ![t] = "idle"]
  /\ wrote' = [wrote EXCEPT ![t] = {}]
  /\ UNCHANGED <<diskVars, bufVars, lh, committing, phase, tail>>

\* Variant: the header is written before the blocks.
EndLastOpHeadFirst(t) ==
  /\ Running
  /\ pc[t] = "op"
  /\ outstanding = 1
  /\ outstanding' = 0
  /\ committing' = TRUE
  /\ phase' = IF lh = <<>> THEN "finish" ELSE "writeHead"
  /\ pc' = [pc EXCEPT ![t] = "commit"]
  /\ wrote' = [wrote EXCEPT ![t] = {}]
  /\ UNCHANGED <<diskVars, bufVars, lh, tail>>

EndLastOp(t) ==
  /\ Running
  /\ pc[t] = "op"
  /\ outstanding = 1
  /\ outstanding' = 0
  /\ committing' = TRUE
  /\ phase' = IF lh = <<>> THEN "finish" ELSE "writeLog"
  /\ pc' = [pc EXCEPT ![t] = "commit"]
  /\ wrote' = [wrote EXCEPT ![t] = {}]
  /\ UNCHANGED <<diskVars, bufVars, lh, tail>>

(* The committing process is through its loop when tail reaches log.lh.n. *)
Advance(from, to) ==
  /\ phase = from
  /\ tail \in 1..Len(lh)
  /\ phase' = IF tail = Len(lh) THEN to ELSE from
  /\ tail' = IF tail = Len(lh) THEN 1 ELSE tail + 1

(* write_log: a block of the cache to the log. *)
WriteLog ==
  /\ Advance("writeLog", "writeHead")
  /\ locked[lh[tail]] = Nobody
  /\ logBlocks' = [logBlocks EXCEPT ![tail] = cache[lh[tail]]]
  /\ UNCHANGED <<disk, head, bufVars, logVars, opVars>>

(* write_head: "the real commit". *)
WriteHead ==
  /\ phase = "writeHead"
  /\ head' = lh
  /\ phase' = "install"
  /\ UNCHANGED <<disk, logBlocks, bufVars, logVars, tail, opVars>>

(* install_trans(0): a block of the log to its home. *)
Install ==
  LET b == lh[tail] IN
  /\ Advance("install", "erase")
  /\ locked[b] = Nobody
  /\ disk' = [disk EXCEPT ![b] = logBlocks[tail]]
  /\ cache' = [cache EXCEPT ![b] = logBlocks[tail]]
  /\ pins' = [pins EXCEPT ![b] = @ - 1]
  /\ UNCHANGED <<logBlocks, head, locked, logVars, opVars>>

(* log.lh.n = 0 and write_head. *)
Erase ==
  /\ phase = "erase"
  /\ lh' = <<>>
  /\ head' = <<>>
  /\ phase' = "finish"
  /\ UNCHANGED <<disk, logBlocks, bufVars, outstanding, committing, tail, opVars>>

\* Variant: nobody is woken.
FinishCommitSilent ==
  /\ phase = "finish"
  /\ committing' = FALSE
  /\ phase' = "run"
  /\ pc' = [t \in Procs |-> IF pc[t] = "commit" THEN "idle" ELSE pc[t]]
  /\ UNCHANGED <<diskVars, bufVars, lh, outstanding, tail, wrote>>

(* The end of end_op: the log is open again. *)
FinishCommit ==
  /\ phase = "finish"
  /\ committing' = FALSE
  /\ phase' = "run"
  /\ pc' = [t \in Procs |-> IF pc[t] = "commit" THEN "idle" ELSE Woken[t]]
  /\ UNCHANGED <<diskVars, bufVars, lh, outstanding, tail, wrote>>
-----------------------------------------------------------------------------
(* recover_from_log at boot: read_head, install_trans(1), clear. *)
ReadHead ==
  /\ phase = "readHead"
  /\ lh' = head
  /\ phase' = IF head = <<>> THEN "clear" ELSE "reinstall"
  /\ UNCHANGED <<diskVars, bufVars, outstanding, committing, tail, opVars>>

Reinstall ==
  LET b == lh[tail] IN
  /\ Advance("reinstall", "clear")
  /\ disk' = [disk EXCEPT ![b] = logBlocks[tail]]
  /\ cache' = [cache EXCEPT ![b] = logBlocks[tail]]
  /\ UNCHANGED <<logBlocks, head, pins, locked, logVars, opVars>>

Clear ==
  /\ phase = "clear"
  /\ lh' = <<>>
  /\ head' = <<>>
  /\ phase' = "run"
  /\ UNCHANGED <<disk, logBlocks, bufVars, outstanding, committing, tail, opVars>>

(* The memory is lost; what is read after boot comes from the disk. *)
Crash ==
  /\ cache' = disk
  /\ pins' = [b \in Blocks |-> 0]
  /\ locked' = [b \in Blocks |-> Nobody]
  /\ lh' = <<>>
  /\ outstanding' = 0
  /\ committing' = FALSE
  /\ phase' = "readHead"
  /\ tail' = 1
  /\ pc' = [t \in Procs |-> "idle"]
  /\ wrote' = [t \in Procs |-> {}]
  /\ UNCHANGED diskVars
-----------------------------------------------------------------------------
Op(t) ==
  \/ BeginSleep(t) \/ BeginOp(t)
  \/ (\E b \in Blocks : LogWrite(t, b)) \/ LogPanic(t)
  \/ EndOp(t) \/ EndLastOp(t)

Committer == WriteLog \/ WriteHead \/ Install \/ Erase \/ FinishCommit
Recovery == ReadHead \/ Reinstall \/ Clear

Next ==
  \/ \E t \in Procs : Op(t) \/ CallBegin(t) \/ \E b \in Blocks, v \in Values : Modify(t, b, v)
  \/ \E b \in Blocks : Recycle(b)
  \/ Committer
  \/ Recovery
  \/ Crash

Spec == Init /\ [][Next]_vars
-----------------------------------------------------------------------------
TypeOK ==
  /\ disk \in [Blocks -> Values]
  /\ logBlocks \in [1..LOGSIZE -> Values]
  /\ head \in Seq(Blocks)
  /\ cache \in [Blocks -> Values]
  /\ pins \in [Blocks -> Nat]
  /\ locked \in [Blocks -> Procs \cup {Nobody}]
  /\ lh \in Seq(Blocks)
  /\ outstanding \in Nat
  /\ committing \in BOOLEAN
  /\ phase \in Phases
  /\ tail \in 1..LOGSIZE
  /\ pc \in [Procs -> PCs]
  /\ wrote \in [Procs -> SUBSET Blocks]

(* What a crash at this moment leaves after recovery: the log's copies if  *)
(* the header names any, the home locations for the rest.                  *)
Durable ==
  [b \in Blocks |-> IF \E i \in 1..Len(head) : head[i] = b
                    THEN logBlocks[CHOOSE i \in 1..Len(head) : head[i] = b]
                    ELSE disk[b]]
Active == {t \in Procs : pc[t] \in {"op", "modified"}}

(* The log implements atomic, durable groups of operations.                *)
Abstract == INSTANCE AtomicDisk WITH
              current <- IF phase \in Recovering THEN Durable ELSE cache,
              durable <- Durable,
              active  <- Active
ImplementsAtomicDisk == Abstract!Spec

(* begin_op reserves enough: an operation that logs a block the log does   *)
(* not have finds room for it, however many run at once, and no block is   *)
(* logged while the log commits.                                           *)
NewBlocksFit ==
  \A t \in Procs, b \in Blocks :
    pc[t] = "modified" /\ locked[b] = t =>
      /\ ~committing
      /\ outstanding >= 1
      /\ b \in Entries(lh) \/ ~TooBig

(* A block whose only good copy is the one in memory is pinned: recycling  *)
(* any buffer bget may recycle changes nothing.                            *)
UnpinnedIsOnDisk ==
  Running => \A b \in Blocks : pins[b] = 0 /\ locked[b] = Nobody => cache[b] = disk[b]

(* Whoever sleeps in begin_op has somebody to wake it: an operation under  *)
(* way or a commit.                                                        *)
SleepersHaveWakers ==
  \A t \in Procs : pc[t] = "asleep" => committing \/ \E u \in Procs \ {t} : pc[u] \in {"op", "modified"}

(* All of these, and the types.                                            *)
LogSafe == TypeOK /\ NewBlocksFit /\ UnpinnedIsOnDisk /\ SleepersHaveWakers

(* Operations in progress end, commits and recovery go on, and a process   *)
(* that waits for log.lock gets it.  Nothing is asked of the callers but   *)
(* that an operation, once begun, ends.                                    *)
Fairness ==
  /\ \A t \in Procs : WF_vars(BeginSleep(t) \/ BeginOp(t))
  /\ \A t \in Procs : SF_vars(EndOp(t) \/ EndLastOp(t)) /\ WF_vars(\E b \in Blocks : LogWrite(t, b))
  /\ WF_vars(Committer)
  /\ WF_vars(Recovery)

FairSpec == Spec /\ Fairness

(* While processes wait in begin_op, some operation begins, or the system  *)
(* goes down.                                                              *)
SomeOpBegins ==
  (\E t \in Procs : pc[t] \in {"begin", "asleep"}) ~> (Active # {} \/ ~Running)
=============================================================================
