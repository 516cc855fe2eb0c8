------------------------------- MODULE MCLive -------------------------------
(***************************************************************************)
(* What must happen, in four parts of the kernel that share no state: part *)
(* says which one moves, the others stay as they are.  A part that does    *)
(* not move has no step to be fair to, so a fairness condition here is one *)
(* of each part.                                                           *)
(***************************************************************************)
EXTENDS Naturals

CONSTANTS NT, Tids,                                     \* Threads
          DiskProcs, Bufs, Blocks, Values, NUM, None, NoIO, \* Virtio
          NPROC, NCPU, QUANTUM,                         \* Sched
          Writers, UART_TX_BUF_SIZE                     \* Uart

VARIABLES
  part,
  tst, tid, tkilled, pc, cur, allDead, target, task, pstate, pkilled, parent, waitLock,
  deadLock, broken,
  io, data, disk, free, next, addr, ops, info, busy, avail, used, irq, handling, st, head,
  policy, state, curRun, avgBurst, decay, perf, ticks, ring, first, last, cpu, clock, steady,
  txCount, thr, uirq, put

threadVars == <<tst, tid, tkilled, pc, cur, allDead, target, task, pstate, pkilled, parent,
                waitLock, deadLock, broken>>
diskVars == <<io, data, disk, free, next, addr, ops, info, busy, avail, used, irq, handling,
              st, head>>
schedVars == <<policy, state, curRun, avgBurst, decay, perf, ticks, ring, first, last, cpu,
               clock, steady>>
uartVars == <<txCount, thr, uirq, put>>
vars == <<part, threadVars, diskVars, schedVars, uartVars>>

T == INSTANCE Threads WITH st <- tst
V == INSTANCE MCVirtio WITH Procs <- DiskProcs
S == INSTANCE Sched WITH Policies <- {"DEFAULT"}, ALPHA <- 50, Decays <- {5}, NORMALP <- 5, IntBits <- 5,
                         MaxTicks <- [f \in {"DEFAULT"} |-> 0], UsedCPUs <- [f \in {"DEFAULT"} |-> NCPU]
U == INSTANCE Uart WITH Procs <- Writers

ASSUME LiveConstants == V!VirtioConstants /\ U!UartConstants

Threads(A) == part = "threads" /\ A /\ UNCHANGED <<part, diskVars, schedVars, uartVars>>
Disk(A) == part = "disk" /\ A /\ UNCHANGED <<part, threadVars, schedVars, uartVars>>
Sched(A) == part = "sched" /\ A /\ S!Track /\ UNCHANGED <<part, threadVars, diskVars, uartVars>>
Uart(A) == part = "uart" /\ A /\ UNCHANGED <<part, threadVars, diskVars, schedVars>>

Init ==
  /\ part \in {"threads", "disk", "sched", "uart"}
  /\ T!Init /\ V!Init /\ S!SchedInit /\ U!Init

Next == Threads(T!Next) \/ Disk(V!Next) \/ Sched(S!SchedMoves) \/ Uart(U!Next)

(* Threads: a thread in the kernel goes on, and gets the lock it spins on;  *)
(* a doomed one is brought there by the timer; the parent is in wait.       *)
(* Disk: the device answers, its interrupts are taken, who is awake runs.   *)
(* Sched: a CPU makes progress between two interrupts, and the timer goes   *)
(* on.  Uart: see Sends there.                                              *)
Fairness ==
  /\ \A i \in 1..3 : SF_vars(\/ i \in 1..NT /\ Threads(T!Kernel(i))
                             \/ i = 3 /\ Threads(T!WaitSleep \/ T!WaitReap)
                             \/ i \in DiskProcs /\ Disk(V!Return(i))
                             \/ i \in 1..NCPU /\ Sched(S!Schedule(i - 1))
                             \/ i = 1 /\ Uart(U!Sends))
  /\ WF_vars(Disk(V!Intr) \/ Sched(S!Clock) \/ Uart(U!Transmit))
  /\ WF_vars(Uart(U!Intr))
  /\ \A t \in 1..NT : WF_vars(Threads(T!Doomed(t) /\ T!CallThreadExit(t)))
  /\ \A d \in 0..(NUM - 1) : WF_vars(Disk(V!DeviceDone(d)))

Spec == Init /\ [][Next]_vars /\ Fairness
-----------------------------------------------------------------------------
(* kthread_join on a thread that is dead returns.                          *)
JoinReturns == T!JoinReturns

(* The death of the last thread ends the process, and wait hears of it.    *)
ProcessEnds == T!ProcessEnds

(* A request that is queued is answered, and its process returns.          *)
QueuedReturns == V!QueuedReturns

(* Round robin starves nobody: a RUNNABLE process gets to run.             *)
RunnableRuns == part = "sched" => S!RunnableRuns

(* A process that waits for room in the ring of the UART is woken.         *)
PutcWoken == U!PutcWoken
=============================================================================
