------------------------------- MODULE Sched -------------------------------
(***************************************************************************)
(* The schedulers of the first assignment (ass1/kernel/proc.c) and the     *)
(* clock that drives them (clockintr in ass1/kernel/trap.c).  The kernel   *)
(* is built with one of four policies; policy is chosen once, in Init.     *)
(*                                                                         *)
(* What is done under p->lock is one step.  The scan of srt_sched and      *)
(* cfsd_sched takes one lock at a time, so it is one step per process, and *)
(* so is the walk of update_proc_ticks.  lock_queue is taken inside        *)
(* p->lock by enqueue and alone by dequeue.                                *)
(* What a process sleeps on is not modelled: anything may wake it at any   *)
(* time, wakeup(&ticks) of the clock too.  What a policy does not read is  *)
(* not kept up under it: the clock under FCFS, avgBurst outside SRT, decay *)
(* and the counters of perf outside CFSD.                                  *)
(***************************************************************************)
EXTENDS Integers, FiniteSets, Sequences

CONSTANTS NPROC,     (* slots of the process table, and of the ready queue    *)
          NCPU,      (* CPUs; CPU 0 takes the clock                           *)
          QUANTUM,   (* ticks of a time slice                                 *)
          ALPHA,     (* weight of the last burst, in percent                  *)
          Policies,  (* the values of SCHEDFLAG                               *)
          Decays,    (* decay factors set_priority gives                      *)
          NORMALP,   (* the decay factor of a new process                     *)
          IntBits,   (* width of int                                          *)
          MaxTicks,  (* bound: ticks that are counted, per policy             *)
          UsedCPUs   (* bound: CPUs that schedule, per policy                 *)

Procs == 1..NPROC
CPUs == 0..(NCPU - 1)

ASSUME SchedConstants ==
  /\ NPROC \in Nat \ {0} /\ NCPU \in Nat \ {0}
  /\ QUANTUM \in Nat \ {0} /\ ALPHA \in 0..100
  /\ Policies \subseteq {"DEFAULT", "FCFS", "SRT", "CFSD"}
  /\ NORMALP \in Decays /\ Decays \subseteq Nat \ {0}
  /\ IntBits \in Nat \ {0}
  /\ MaxTicks \in [Policies -> Nat] /\ UsedCPUs \in [Policies -> 1..NCPU]

VARIABLES
  policy,    \* SCHEDFLAG
  state,     \* p->state
  curRun,    \* p->cur_run_time, up to QUANTUM + 1
  avgBurst,  \* p->perf.average_bursttime
  decay,     \* p->decay_factor
  perf,      \* p->perf: ctime, rutime, and stime + retime in one
  ticks,
  ring, first, last,   \* proc_queue
  cpu,       \* where a CPU is in its scheduler, or the process it runs
  clock,     \* where CPU 0 is in clockintr
  steady     \* history: processes RUNNABLE and unchanged since a scan began

procVars == <<avgBurst, decay>>
queueVars == <<ring, first, last>>
schedVars == <<policy, state, curRun, avgBurst, decay, perf, ticks, ring, first,
          last, cpu, clock, steady>>

NoPerf == [ctime |-> 0, rutime |-> 0, wtime |-> 0]
AtTop == [pc |-> "loop", i |-> 1, p |-> 0, top |-> -1, bot |-> -1]
NoClock == [pc |-> "off", i |-> 1, on |-> FALSE]
Wrap(x) == ((x + 2^(IntBits - 1)) % 2^IntBits) - 2^(IntBits - 1)

SchedTypeOK ==
  /\ policy \in Policies
  /\ state \in [Procs -> {"UNUSED", "SLEEPING", "RUNNABLE", "RUNNING", "ZOMBIE"}]
  /\ curRun \in [Procs -> 0..(QUANTUM + 1)]
  /\ avgBurst \in [Procs -> Nat] /\ decay \in [Procs -> Decays]
  /\ perf \in [Procs -> [DOMAIN NoPerf -> 0..MaxTicks[policy]]]
  /\ ticks \in 0..MaxTicks[policy]
  /\ ring \in [0..(NPROC - 1) -> 0..NPROC]
  /\ first \in 0..(NPROC - 1) /\ last \in 0..(NPROC - 1)
  /\ cpu \in [CPUs -> [pc : {"loop", "picked", "run"}, i : Procs, p : 0..NPROC,
                       top : Int, bot : Int]]
  /\ clock \in [pc : {"off", "count", "check"}, i : Procs, on : BOOLEAN]
  /\ steady \in [CPUs -> SUBSET Procs]

(* userinit: one process, queued. *)
SchedInit ==
  /\ policy \in Policies
  /\ state = [p \in Procs |-> IF p = 1 THEN "RUNNABLE" ELSE "UNUSED"]
  /\ curRun = [p \in Procs |-> 0]
  /\ avgBurst = [p \in Procs |-> QUANTUM * 100]
  /\ decay = [p \in Procs |-> NORMALP]
  /\ perf = [p \in Procs |-> NoPerf]
  /\ ticks = 0
  /\ ring = [k \in 0..(NPROC - 1) |-> IF k = 0 /\ policy = "FCFS" THEN 1 ELSE 0]
  /\ first = 0
  /\ last = IF policy = "FCFS" THEN 1 % NPROC ELSE 0
  /\ cpu = [c \in CPUs |-> AtTop]
  /\ clock = NoClock
  /\ steady = [c \in CPUs |-> {}]
-----------------------------------------------------------------------------
(* What is in the queue, oldest first. *)
Slots == {(first + k) % NPROC : k \in 0..(((last - first) % NPROC) - 1)}
Queued == {ring[k] : k \in Slots}

\* Variant: a full ring is not noticed.
EnqueueUnchecked(p) ==
  IF policy = "FCFS"
  THEN ring' = [ring EXCEPT ![last] = p] /\ last' = (last + 1) % NPROC /\ UNCHANGED first
  ELSE UNCHANGED queueVars

(* Does nothing when the ring is full; no caller looks at the result. *)
Enqueue(p) ==
  IF policy = "FCFS" /\ (last + 1) % NPROC # first
  THEN ring' = [ring EXCEPT ![last] = p] /\ last' = (last + 1) % NPROC /\ UNCHANGED first
  ELSE UNCHANGED queueVars

(* update_avg_burst: in integers the second term is 0 or 1. *)
AvgBurst(p) == ALPHA * curRun[p] + (100 - ALPHA) \div 100

(* CPU 0 does nothing else while it handles the clock. *)
Free(c) == c = 0 => clock = NoClock
Runs(c, p) == cpu[c].pc = "run" /\ cpu[c].p = p /\ Free(c)

\* Variant: every scan starts from the top.
ToSchedulerTop(c) == cpu' = [cpu EXCEPT ![c] = AtTop]

(* swtch back to the scheduler: only the default policy goes on with the   *)
(* next slot, the others start from the top.                               *)
ToScheduler(c) ==
  cpu' = [cpu EXCEPT ![c] = IF policy = "DEFAULT"
                            THEN [AtTop EXCEPT !.i = (cpu[c].p % NPROC) + 1]
                            ELSE AtTop]

(* Set RUNNING and swtch to p. *)
Dispatch(c, p) ==
  /\ state' = [state EXCEPT ![p] = "RUNNING"]
  /\ curRun' = [curRun EXCEPT ![p] = 0]
  /\ cpu' = [cpu EXCEPT ![c] = [AtTop EXCEPT !.pc = "run", !.p = p]]
-----------------------------------------------------------------------------
(* scheduler: runs a RUNNABLE process where it meets it. *)
RoundRobin(c) ==
  LET p == cpu[c].i IN
  /\ policy = "DEFAULT" /\ cpu[c].pc = "loop"
  /\ IF state[p] = "RUNNABLE"
     THEN Dispatch(c, p)
     ELSE cpu' = [cpu EXCEPT ![c].i = (p % NPROC) + 1] /\ UNCHANGED <<state, curRun>>
  /\ UNCHANGED queueVars

Dequeue(c) ==
  /\ policy = "FCFS" /\ cpu[c].pc = "loop" /\ first # last
  /\ first' = (first + 1) % NPROC
  /\ cpu' = [cpu EXCEPT ![c].pc = "picked", ![c].p = ring[first]]
  /\ UNCHANGED <<state, curRun, ring, last>>

Top(p) == perf[p].rutime * decay[p]
Bot(p) == perf[p].wtime

BetterBurst(c, p) == cpu[c].p = 0 \/ avgBurst[p] < avgBurst[cpu[c].p]

\* Variant: a process that has not run yet is not preferred.
BetterRatioNoZero(c, p) ==
  LET m == cpu[c] IN
  \/ m.top = -1 /\ m.bot = -1
  \/ Wrap(m.top * Wrap(Bot(p))) > Wrap(m.bot * Wrap(Top(p)))

BetterRatio(c, p) ==
  LET m == cpu[c] IN
  \/ m.top = -1 /\ m.bot = -1
  \/ Wrap(Top(p)) = 0 /\ m.top # 0
  \/ Wrap(m.top * Wrap(Bot(p))) > Wrap(m.bot * Wrap(Top(p)))

(* One process of the scan; past the last one, the choice is made. *)
Scan(c) ==
  LET p == cpu[c].i
      better == state[p] = "RUNNABLE"
                /\ IF policy = "SRT" THEN BetterBurst(c, p) ELSE BetterRatio(c, p)
      seen == IF ~better THEN cpu[c]
              ELSE [cpu[c] EXCEPT !.p = p, !.top = IF policy = "CFSD" THEN Wrap(Top(p)) ELSE -1,
                                           !.bot = IF policy = "CFSD" THEN Wrap(Bot(p)) ELSE -1]
  IN /\ policy \in {"SRT", "CFSD"} /\ cpu[c].pc = "loop"
     /\ cpu' = [cpu EXCEPT ![c] = IF p < NPROC THEN [seen EXCEPT !.i = p + 1]
                                  ELSE IF seen.p = 0 THEN AtTop
                                  ELSE [seen EXCEPT !.pc = "picked"]]
     /\ UNCHANGED <<state, curRun, queueVars>>

\* Variant: the chosen process is not looked at again.
PickedUnchecked(c) ==
  /\ cpu[c].pc = "picked"
  /\ Dispatch(c, cpu[c].p)
  /\ UNCHANGED queueVars

(* The lock of the chosen process is taken again.  fcfs_sched does not     *)
(* look at its state.                                                      *)
Picked(c) ==
  LET p == cpu[c].p IN
  /\ cpu[c].pc = "picked"
  /\ IF policy = "FCFS" \/ state[p] = "RUNNABLE"
     THEN Dispatch(c, p)
     ELSE cpu' = [cpu EXCEPT ![c] = AtTop] /\ UNCHANGED <<state, curRun>>
  /\ UNCHANGED queueVars

Schedule(c) ==
  /\ Free(c) /\ c < UsedCPUs[policy]
  /\ RoundRobin(c) \/ Dequeue(c) \/ Scan(c) \/ Picked(c)
  /\ UNCHANGED <<policy, procVars, perf, ticks, clock>>
-----------------------------------------------------------------------------
(* yield: called when the slice is used up, and never under FCFS. *)
Yield(c) ==
  LET p == cpu[c].p IN
  /\ state' = [state EXCEPT ![p] = "RUNNABLE"]
  /\ Enqueue(p)
  /\ avgBurst' = IF policy = "SRT" THEN [avgBurst EXCEPT ![p] = AvgBurst(p)] ELSE avgBurst
  /\ ToScheduler(c)
  /\ UNCHANGED <<policy, curRun, decay, perf, ticks>>

SliceUsed(c) == policy # "FCFS" /\ cpu[c].pc = "run" /\ curRun[cpu[c].p] = QUANTUM

(* The timer of another CPU: usertrap and kerneltrap look at the slice.    *)
OtherTimer(c) == c # 0 /\ SliceUsed(c) /\ Yield(c) /\ UNCHANGED clock

Sleep(c, p) ==
  /\ Runs(c, p)
  /\ state' = [state EXCEPT ![p] = "SLEEPING"]
  /\ avgBurst' = IF policy = "SRT" THEN [avgBurst EXCEPT ![p] = AvgBurst(p)] ELSE avgBurst
  /\ ToScheduler(c)
  /\ UNCHANGED <<policy, curRun, decay, perf, ticks, queueVars, clock>>

(* The body of wakeup and of kill for a sleeper.                           *)
WakeOne(p) ==
  /\ state[p] = "SLEEPING"
  /\ state' = [state EXCEPT ![p] = "RUNNABLE"]
  /\ Enqueue(p)

(* An event, or kill, from a running process or an interrupt. *)
Wake(p) ==
  /\ WakeOne(p)
  /\ UNCHANGED <<policy, curRun, avgBurst, decay, perf, ticks, cpu, clock>>

(* allocproc and fork: the first unused slot; a child inherits the decay   *)
(* factor.  Until it is RUNNABLE nobody counts or chooses it.              *)
Fork(c, p, n) ==
  /\ Runs(c, p)
  /\ state[n] = "UNUSED" /\ \A q \in Procs : q < n => state[q] # "UNUSED"
  /\ state' = [state EXCEPT ![n] = "RUNNABLE"]
  /\ perf' = [perf EXCEPT ![n].ctime = ticks]
  /\ avgBurst' = [avgBurst EXCEPT ![n] = QUANTUM * 100]
  /\ decay' = [decay EXCEPT ![n] = decay[p]]
  /\ Enqueue(n)
  /\ UNCHANGED <<policy, curRun, ticks, cpu, clock>>

Exit(c, p) ==
  /\ Runs(c, p) /\ p # 1
  /\ state' = [state EXCEPT ![p] = "ZOMBIE"]
  /\ ToScheduler(c)
  /\ UNCHANGED <<policy, procVars, curRun, perf, ticks, queueVars, clock>>

(* wait or wait_stat found it: freeproc. *)
Reap(p) ==
  /\ state[p] = "ZOMBIE"
  /\ state' = [state EXCEPT ![p] = "UNUSED"]
  /\ perf' = [perf EXCEPT ![p] = NoPerf]
  /\ avgBurst' = [avgBurst EXCEPT ![p] = QUANTUM * 100]
  /\ decay' = [decay EXCEPT ![p] = NORMALP]
  /\ UNCHANGED <<policy, curRun, ticks, queueVars, cpu, clock>>

SetPriority(c, p) ==
  /\ Runs(c, p) /\ policy = "CFSD"
  /\ \E d \in Decays : decay' = [decay EXCEPT ![p] = d]
  /\ UNCHANGED <<policy, state, curRun, avgBurst, perf, ticks, queueVars, cpu, clock>>
-----------------------------------------------------------------------------
(* clockintr.  From MaxTicks on the ticks and perf are not counted any     *)
(* more; the slices are.                                                   *)
ClockTick ==
  LET on == ticks < MaxTicks[policy] IN
  /\ clock = NoClock /\ policy # "FCFS"
  /\ ticks' = IF on THEN ticks + 1 ELSE ticks
  /\ clock' = [NoClock EXCEPT !.pc = "count", !.on = on]
  /\ UNCHANGED <<policy, state, procVars, curRun, perf, queueVars, cpu>>

NextSlot(pc) ==
  clock' = IF clock.i < NPROC THEN [clock EXCEPT !.i = @ + 1] ELSE [clock EXCEPT !.i = 1, !.pc = pc]

Counter == [SLEEPING |-> "wtime", RUNNABLE |-> "wtime", RUNNING |-> "rutime"]

(* One process of update_proc_ticks, without its lock.  Its state is read  *)
(* up to three times: a process another CPU works on may be in no state    *)
(* that is asked for.                                                      *)
Count(p) ==
  /\ clock.pc = "count" /\ clock.i = p
  /\ \/ /\ state[p] \in DOMAIN Counter
        /\ perf' = IF clock.on THEN [perf EXCEPT ![p][Counter[state[p]]] = @ + 1] ELSE perf
        /\ curRun' = IF state[p] = "RUNNING" /\ curRun[p] <= QUANTUM
                     THEN [curRun EXCEPT ![p] = @ + 1] ELSE curRun
     \/ /\ \/ state[p] \notin DOMAIN Counter
           \/ state[p] \in {"RUNNABLE", "RUNNING"} /\ UsedCPUs[policy] > 1 /\ cpu[0].p # p
        /\ UNCHANGED <<perf, curRun>>
  /\ NextSlot("check")
  /\ UNCHANGED <<policy, state, procVars, ticks, queueVars, cpu>>

(* usertrap or kerneltrap on CPU 0, after devintr. *)
CheckSlice ==
  /\ clock.pc = "check"
  /\ clock' = NoClock
  /\ IF SliceUsed(0) THEN Yield(0)
     ELSE UNCHANGED <<policy, state, procVars, curRun, perf, ticks, queueVars, cpu>>

Clock == ClockTick \/ (\E p \in Procs : Count(p)) \/ CheckSlice

(* srt_sched reads the average of the least so far without its lock: when   *)
(* another CPU runs a process meanwhile, that average may have changed, and *)
(* nothing is said of the choice.                                          *)
Track ==
  steady' = [c \in CPUs |->
    IF policy \in {"DEFAULT", "FCFS"} \/ cpu'[c].pc = "run" THEN {}
    ELSE IF cpu[c].pc = "loop" /\ cpu[c].i = 1 THEN {p \in Procs : state'[p] = "RUNNABLE"}
    ELSE IF policy = "SRT" /\ \E p \in Procs : state[p] = "RUNNABLE" /\ state'[p] # "RUNNABLE" THEN {}
    ELSE {p \in steady[c] : state'[p] = "RUNNABLE" /\ perf'[p] = perf[p]}]

SchedMoves ==
  \/ \E c \in CPUs :
       \/ Schedule(c) \/ OtherTimer(c)
       \/ \E p \in Procs : \/ Sleep(c, p) \/ Exit(c, p) \/ SetPriority(c, p)
                           \/ \E n \in Procs : Fork(c, p, n)
  \/ \E p \in Procs : Wake(p) \/ Reap(p)
  \/ Clock

SchedNext == SchedMoves /\ Track
-----------------------------------------------------------------------------
(* A process runs on one CPU at most, and RUNNING is what its state says.  *)
(* FCFS, which does not look at the state of what it takes: what is in the *)
(* queue or taken from it is RUNNABLE, and is there once.                  *)
OneCpuPerProc ==
  \A p \in Procs :
    Cardinality({c \in CPUs : cpu[c].pc = "run" /\ cpu[c].p = p})
      = IF state[p] = "RUNNING" THEN 1 ELSE 0

QueueIsReady ==
  policy = "FCFS" =>
    LET taken == {c \in CPUs : cpu[c].pc = "picked"}
        picked == {cpu[c].p : c \in taken}
    IN /\ \A p \in Queued \cup picked : state[p] = "RUNNABLE"
       /\ Cardinality(Queued) = Cardinality(Slots)
       /\ Cardinality(picked) = Cardinality(taken)
       /\ Queued \cap picked = {}

(* A process is in one place: on a CPU, in the queue, or neither.         *)
InOnePlace == SchedTypeOK /\ OneCpuPerProc /\ QueueIsReady

(* FCFS: a process that becomes RUNNABLE is queued, unless all the others  *)
(* already are; one that is waits in its place, and the oldest is next.    *)
NobodyForgotten ==
  [][policy = "FCFS" =>
       /\ \A p \in Procs :
            /\ state[p] # "RUNNABLE" /\ state'[p] = "RUNNABLE" => p \in Queued' \/ Queued = Procs \ {p}
            /\ p \in Queued /\ p \notin Queued' => p = ring[first]
       /\ Queued # {} /\ Queued' # {} /\ ring[first] \in Queued' => ring'[first'] = ring[first]]_schedVars

(* SRT and CFSD: of the processes that were RUNNABLE since the scan began  *)
(* and were not counted meanwhile, none has a shorter average burst, or a  *)
(* smaller ratio of run time to waiting time, than the one that is chosen  *)
(* from them, as long as the products fit an int.                          *)
NoBetter(p, q) ==
  IF policy = "SRT" THEN avgBurst[p] <= avgBurst[q]
  ELSE /\ Top(p) * Bot(q) <= Top(q) * Bot(p)
       /\ Bot(q) = 0 /\ Top(q) = 0 => Top(p) = 0

FitInt ==
  policy = "CFSD" => \A p, q \in Procs : Top(p) * (IF Bot(q) = 0 THEN 1 ELSE Bot(q)) < 2^(IntBits - 1)

ChoosesLeast ==
  [][\A c \in CPUs :
       policy \in {"SRT", "CFSD"} /\ cpu[c].pc = "picked" /\ cpu'[c].pc = "run" =>
         /\ state[cpu[c].p] = "RUNNABLE"
         /\ FitInt /\ cpu[c].p \in steady[c] => \A q \in steady[c] : NoBetter(cpu[c].p, q)]_schedVars

(* No tick is counted twice: the three counters of a process are at most   *)
(* the ticks since it was made, and the one that is being counted.  (Ticks *)
(* may be missed: update_proc_ticks takes no lock.)  And CPU 0 does not    *)
(* let a process run past its slice.  (Another CPU may: it asks whether    *)
(* cur_run_time is QUANTUM, and CPU 0 may have counted twice since.)       *)
TicksCountedOnce ==
  \A p \in Procs : state[p] # "UNUSED" =>
    perf[p].rutime + perf[p].wtime <= ticks - perf[p].ctime + 1

SliceKept ==
  policy # "FCFS" /\ cpu[0].pc = "run" =>
    curRun[cpu[0].p] < QUANTUM + (IF clock = NoClock THEN 0 ELSE 1)

(* Neither the counters nor the slice of CPU 0 run ahead of the clock.    *)
TicksRight == TicksCountedOnce /\ SliceKept

(* Every process is in one place, whichever policy chooses and whatever    *)
(* other CPUs do meanwhile, and what it is charged is true to the clock.   *)
SchedConsistent == InOnePlace /\ TicksRight

(* Round robin starves nobody: a RUNNABLE process runs, whatever the other  *)
(* CPUs do and however the timer cuts the slices.                           *)
RunnableRuns ==
  \A p \in Procs : policy = "DEFAULT" /\ state[p] = "RUNNABLE" ~> state[p] = "RUNNING"
=============================================================================
