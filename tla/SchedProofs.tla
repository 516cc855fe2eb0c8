----------------------------- MODULE SchedProofs -----------------------------
(***************************************************************************)
(* Proofs about the schedulers and the clock of the first assignment, for  *)
(* every number of processes, CPUs and ticks, every quantum and every      *)
(* width of int.                                                           *)
(***************************************************************************)
EXTENDS MCSched, FiniteSetTheorems, FunctionTheorems, TLAPS

(* Who runs is RUNNING, and on one CPU.                                    *)
Running ==
  /\ \A c \in CPUs : cpu[c].pc \in {"picked", "run"} => cpu[c].p \in Procs
  /\ \A c \in CPUs : cpu[c].pc = "run" => state[cpu[c].p] = "RUNNING"
  /\ \A c, d \in CPUs : cpu[c].pc = "run" /\ cpu[d].pc = "run" /\ cpu[c].p = cpu[d].p => c = d
  /\ \A p \in Procs : state[p] = "RUNNING" => \E c \in CPUs : cpu[c].pc = "run" /\ cpu[c].p = p

(* The slots of the ring that are in use.                                  *)
Used(k) == IF first <= last THEN first <= k /\ k < last ELSE first <= k \/ k < last
Ring == 0..(NPROC - 1)

(* FCFS: what is in the queue or taken from it is RUNNABLE, and there once. *)
Ready ==
  policy = "FCFS" =>
    /\ \A k \in Ring : Used(k) => ring[k] \in Procs /\ state[ring[k]] = "RUNNABLE"
    /\ \A j, k \in Ring : Used(j) /\ Used(k) /\ ring[j] = ring[k] => j = k
    /\ \A c \in CPUs : cpu[c].pc = "picked" => state[cpu[c].p] = "RUNNABLE"
    /\ \A c, d \in CPUs : cpu[c].pc = "picked" /\ cpu[d].pc = "picked"
        /\ cpu[c].p = cpu[d].p => c = d
    /\ \A c \in CPUs, k \in Ring : cpu[c].pc = "picked" /\ Used(k) => ring[k] # cpu[c].p

(* A tick that is under way and has not been charged to p yet.             *)
Owed(p) == IF clock.pc = "count" /\ clock.on /\ clock.i <= p THEN 1 ELSE 0

(* What a process is charged, and when it was made.  A process that is     *)
(* made while a tick is counted may be charged that tick.                  *)
Charged ==
  \A p \in Procs :
    /\ state[p] = "UNUSED" => perf[p] = NoPerf
    /\ perf[p].ctime <= ticks
    /\ perf[p].rutime + perf[p].wtime + Owed(p) + perf[p].ctime
         <= ticks + (IF perf[p].ctime = 0 THEN 0 ELSE 1)

(* CPU 0 in clockintr, and the slice of the process it has interrupted.    *)
Clocked ==
  /\ clock.pc = "off" => clock = NoClock
  /\ clock.pc = "count" /\ clock.on => ticks > 0
  /\ policy # "FCFS" /\ cpu[0].pc = "run" =>
       LET p == cpu[0].p IN
       curRun[p] < QUANTUM + (IF clock.pc = "off" \/ (clock.pc = "count"
         /\ clock.i <= p) THEN 0 ELSE 1)

SchedInv == SchedTypeOK /\ Running /\ Ready /\ Charged /\ Clocked
-----------------------------------------------------------------------------
(* A power of two counts the subsets of an interval.                       *)
LEMMA Subsets ==
  ASSUME NEW n \in Nat
  PROVE  IsFiniteSet(SUBSET (1..n)) /\ Cardinality(SUBSET (1..n)) = 2^n
<1>1. IsFiniteSet(1..n) /\ Cardinality(1..n) = n
  BY FS_Interval
<1> QED BY <1>1, FS_SUBSET

(* It is a number, and none is 0.                                          *)
LEMMA PowerType ==
  ASSUME NEW n \in Nat
  PROVE  2^n \in Nat \ {0}
<1>1. {} \in SUBSET (1..n)
  OBVIOUS
<1>2. Cardinality(SUBSET (1..n)) \in Nat
  BY Subsets, FS_CardinalityType
<1>3. Cardinality(SUBSET (1..n)) # 0
  BY <1>1, Subsets, FS_EmptySet
<1> QED BY <1>2, <1>3, Subsets

(* The next one is twice as large: a subset has the new element or not.    *)
LEMMA PowerDoubles ==
  ASSUME NEW n \in Nat
  PROVE  2^(n + 1) = 2^n + 2^n
<1> DEFINE S == SUBSET (1..n)
           f == [x \in S |-> x \cup {n + 1}]
           W == {x \in SUBSET (1..(n + 1)) : n + 1 \in x}
<1>1. f \in [S -> W]
  OBVIOUS
<1>2. \A x, y \in S : f[x] = f[y] => x = y
  <2> SUFFICES ASSUME NEW x \in S, NEW y \in S, x \cup {n + 1} = y \cup {n + 1}
               PROVE  x = y
    OBVIOUS
  <2>1. n + 1 \notin x /\ n + 1 \notin y
    OBVIOUS
  <2> QED BY <2>1
<1>3. \A y \in W : \E x \in S : f[x] = y
  <2> SUFFICES ASSUME NEW y \in W
               PROVE  \E x \in S : f[x] = y
    OBVIOUS
  <2>1. y \ {n + 1} \in S
    OBVIOUS
  <2>2. f[y \ {n + 1}] = y
    BY <2>1
  <2> QED BY <2>1, <2>2
<1>4. f \in Bijection(S, W)
  BY <1>1, <1>2, <1>3, Fun_IsBij
<1>5. ExistsBijection(S, W)
  BY <1>4 DEF ExistsBijection
<1>6. IsFiniteSet(S) /\ Cardinality(S) = 2^n
  BY Subsets
<1> HIDE DEF f, S
<1>7. IsFiniteSet(W) /\ Cardinality(W) = 2^n
  BY <1>5, <1>6, FS_Bijection
<1>8. S \cap W = {} /\ S \cup W = SUBSET (1..(n + 1))
  BY DEF S
<1> HIDE DEF W
<1>9. Cardinality(S \cup W) = 2^n + 2^n
  <2>1. 2^n \in Nat
    BY PowerType
  <2>2. Cardinality(S \cap W) = 0
    BY <1>8, FS_EmptySet
  <2>3. Cardinality(S \cup W) = Cardinality(S) + Cardinality(W) - Cardinality(S \cap W)
    BY <1>6, <1>7, FS_Union
  <2>4. \A k \in Nat : k + k - 0 = k + k
    OBVIOUS
  <2> QED BY <1>6, <1>7, <2>1, <2>2, <2>3, <2>4
<1>10. Cardinality(SUBSET (1..(n + 1))) = 2^(n + 1)
  BY Subsets
<1> QED BY <1>8, <1>9, <1>10

(* Remainders of what is near the divisor.                                 *)
LEMMA Remainder ==
  ASSUME NEW n \in Nat, n > 0, NEW x \in Int, -n < x, x < n + n
  PROVE  x % n = IF x < 0 THEN x + n ELSE IF x < n THEN x ELSE x - n
<1>1. CASE x < 0
  BY <1>1
<1>2. CASE 0 <= x /\ x < n
  BY <1>2
<1>3. CASE n <= x
  BY <1>3
<1> QED BY <1>1, <1>2, <1>3

(* What an int can hold it holds.                                          *)
LEMMA WrapFits ==
  /\ \A x \in Int : Wrap(x) \in Int
  /\ \A x \in 0..(2^(IntBits - 1) - 1) : Wrap(x) = x
<1> DEFINE h == 2^(IntBits - 1)
           d == 2^IntBits
<1>1. h \in Nat /\ h > 0 /\ d = h + h
  <2>1. IntBits - 1 \in Nat /\ IntBits = (IntBits - 1) + 1
    BY SchedConstants
  <2>2. 2^((IntBits - 1) + 1) = h + h
    BY <2>1, PowerDoubles
  <2> QED BY <2>1, <2>2, PowerType
<1>2. \A x \in Int : Wrap(x) = ((x + h) % d) - h
  BY DEF Wrap
<1> HIDE DEF h, d
<1>3. \A x \in Int : Wrap(x) \in Int
  <2> SUFFICES ASSUME NEW x \in Int
               PROVE  ((x + h) % d) - h \in Int
    BY <1>2
  <2> QED BY <1>1
<1>4. \A x \in 0..(h - 1) : Wrap(x) = x
  <2> SUFFICES ASSUME NEW x \in 0..(h - 1)
               PROVE  ((x + h) % d) - h = x
    BY <1>1, <1>2
  <2>1. x + h \in Int /\ d \in Nat /\ d > 0 /\ x + h < d /\ 0 <= x + h
    BY <1>1
  <2>2. (x + h) % d = x + h
    BY <2>1, Remainder
  <2> QED BY <1>1, <2>2
<1> QED BY <1>3, <1>4 DEF h
-----------------------------------------------------------------------------
(* Where a CPU is in its scheduler, and what changes when one CPU moves.   *)
CpuRecord == [pc : {"loop", "picked", "run"}, i : Procs, p : 0..NPROC, top : Int, bot : Int]
Others(c) == \A d \in CPUs \ {c} : cpu'[d] = cpu[d]

(* What a scan has chosen when it has looked at one process more.          *)
Better(c) ==
  /\ state[cpu[c].i] = "RUNNABLE"
  /\ IF policy = "SRT" THEN BetterBurst(c, cpu[c].i) ELSE BetterRatio(c, cpu[c].i)
BestP(c) == IF Better(c) THEN cpu[c].i ELSE cpu[c].p
BestTop(c) == IF ~Better(c) THEN cpu[c].top ELSE IF policy = "CFSD" THEN Wrap(Top(cpu[c].i)) ELSE -1
BestBot(c) == IF ~Better(c) THEN cpu[c].bot ELSE IF policy = "CFSD" THEN Wrap(Bot(cpu[c].i)) ELSE -1

(* The counters of a process are numbers.                                  *)
LEMMA CountersType ==
  ASSUME SchedTypeOK, NEW p \in Procs
  PROVE  Top(p) \in Nat /\ Bot(p) \in Nat
<1>1. MaxTicks[policy] \in Nat /\ decay[p] \in Nat
  BY SchedConstants DEF SchedTypeOK
<1>2. perf[p].rutime \in Nat /\ perf[p].wtime \in Nat
  BY <1>1 DEF SchedTypeOK, NoPerf
<1>3. perf[p].rutime * decay[p] \in Nat
  BY <1>1, <1>2
<1> QED BY <1>2, <1>3 DEF Top, Bot

(* The record of a scan that has a new best, and of a CPU that runs p.     *)
Note(m, a, x, y) == [m EXCEPT !.p = a, !.top = x, !.bot = y]
Runner(p) == [AtTop EXCEPT !.pc = "run", !.p = p]

(* Its fields.                                                             *)
LEMMA Noted ==
  ASSUME NEW m \in CpuRecord, NEW a \in Procs, NEW x \in Int, NEW y \in Int
  PROVE  /\ Note(m, a, x, y) \in CpuRecord
         /\ Note(m, a, x, y).pc = m.pc /\ Note(m, a, x, y).i = m.i
         /\ Note(m, a, x, y).p = a /\ Note(m, a, x, y).top = x /\ Note(m, a, x, y).bot = y
<1>1. a \in 0..NPROC
  BY SchedConstants DEF Procs
<1> QED BY <1>1 DEF CpuRecord, Note

(* A CPU at the top of its scheduler, or running a process.                *)
LEMMA TopTypes ==
  AtTop \in CpuRecord /\ \A p \in Procs : Runner(p) \in CpuRecord
<1>1. AtTop \in CpuRecord
  BY SchedConstants DEF AtTop, CpuRecord, Procs
<1>2. Procs \subseteq 0..NPROC
  BY SchedConstants DEF Procs
<1> QED BY <1>1, <1>2 DEF Runner, CpuRecord

(* One turn of srt_sched or cfsd_sched, field by field.                    *)
LEMMA ScanDoes ==
  ASSUME SchedTypeOK, NEW c \in CPUs, Scan(c)
  PROVE  /\ cpu' \in [CPUs -> CpuRecord] /\ Others(c)
         /\ cpu[c].i < NPROC \/ BestP(c) # 0 =>
              cpu'[c].p = BestP(c) /\ cpu'[c].top = BestTop(c) /\ cpu'[c].bot = BestBot(c)
         /\ cpu[c].i < NPROC => cpu'[c].pc = "loop" /\ cpu'[c].i = cpu[c].i + 1
         /\ cpu[c].i = NPROC => IF BestP(c) = 0 THEN cpu'[c] = AtTop ELSE cpu'[c].pc = "picked"
<1> DEFINE m == cpu[c]
           p == cpu[c].i
           x == IF policy = "CFSD" THEN Wrap(Top(p)) ELSE -1
           y == IF policy = "CFSD" THEN Wrap(Bot(p)) ELSE -1
           seen == IF Better(c) THEN [m EXCEPT !.p = p, !.top = x, !.bot = y] ELSE m
<1>1. cpu \in [CPUs -> CpuRecord] /\ NPROC \in Nat \ {0} /\ AtTop \in CpuRecord
  BY SchedConstants DEF SchedTypeOK, CpuRecord, AtTop, Procs
<1>2. m \in CpuRecord /\ p \in Procs /\ m.pc = "loop"
  BY <1>1 DEF CpuRecord, Scan
<1>3. x \in Int /\ y \in Int
  BY <1>2, CountersType, WrapFits
<1>4. cpu' = [cpu EXCEPT ![c] = IF p < NPROC THEN [seen EXCEPT !.i = p + 1]
                                ELSE IF seen.p = 0 THEN AtTop ELSE [seen EXCEPT !.pc = "picked"]]
  <2>1. seen = IF ~Better(c) THEN m ELSE [m EXCEPT !.p = p, !.top = x, !.bot = y]
    OBVIOUS
  <2> QED BY <2>1 DEF Scan, Better
<1>5. seen \in CpuRecord /\ seen.pc = "loop" /\ seen.p = BestP(c) /\ seen.top = BestTop(c)
        /\ seen.bot = BestBot(c)
  <2>1. CASE Better(c)
    <3>0. seen = Note(m, p, x, y)
      BY <2>1 DEF Note
    <3>1. /\ Note(m, p, x, y) \in CpuRecord /\ Note(m, p, x, y).pc = m.pc
          /\ Note(m, p, x, y).p = p /\ Note(m, p, x, y).top = x /\ Note(m, p, x, y).bot = y
      BY <1>2, <1>3, Noted
    <3>2. seen \in CpuRecord /\ seen.pc = "loop" /\ seen.p = p /\ seen.top = x /\ seen.bot = y
      BY <1>2, <3>0, <3>1
    <3> HIDE DEF m, seen
    <3> QED BY <2>1, <3>2 DEF BestP, BestTop, BestBot, p, x, y
  <2>2. CASE ~Better(c)
    BY <1>2, <2>2 DEF BestP, BestTop, BestBot
  <2> QED BY <2>1, <2>2
<1> HIDE DEF m, x, y, seen
<1>6. /\ p < NPROC => /\ [seen EXCEPT !.i = p + 1] \in CpuRecord
                      /\ [seen EXCEPT !.i = p + 1].pc = "loop"
                          /\ [seen EXCEPT !.i = p + 1].i = p + 1
                      /\ [seen EXCEPT !.i = p + 1].p = seen.p
                          /\ [seen EXCEPT !.i = p + 1].top = seen.top
                      /\ [seen EXCEPT !.i = p + 1].bot = seen.bot
      /\ [seen EXCEPT !.pc = "picked"] \in CpuRecord
      /\ [seen EXCEPT !.pc = "picked"].pc = "picked" /\ [seen EXCEPT !.pc = "picked"].p = seen.p
      /\ [seen EXCEPT !.pc = "picked"].top = seen.top
          /\ [seen EXCEPT !.pc = "picked"].bot = seen.bot
  BY <1>1, <1>2, <1>5 DEF CpuRecord, Procs
<1>7. Others(c) /\ cpu'[c] = IF p < NPROC THEN [seen EXCEPT !.i = p + 1]
                              ELSE IF seen.p = 0 THEN AtTop ELSE [seen EXCEPT !.pc = "picked"]
  BY <1>1, <1>4 DEF Others
<1>8. cpu' \in [CPUs -> CpuRecord]
  <2> DEFINE r == IF p < NPROC THEN [seen EXCEPT !.i = p + 1]
                  ELSE IF seen.p = 0 THEN AtTop ELSE [seen EXCEPT !.pc = "picked"]
  <2>1. r \in CpuRecord
    BY <1>1, <1>6
  <2>2. cpu' = [cpu EXCEPT ![c] = r]
    BY <1>4
  <2> HIDE DEF r
  <2> QED BY <1>1, <2>1, <2>2
<1>9. p < NPROC \/ p = NPROC
  BY <1>1, <1>2 DEF Procs
<1> HIDE DEF p
<1>10. p < NPROC => cpu'[c] = [seen EXCEPT !.i = p + 1]
  BY <1>7
<1>11. p = NPROC /\ seen.p = 0 => cpu'[c] = AtTop
  BY <1>1, <1>7
<1>12. p = NPROC /\ seen.p # 0 => cpu'[c] = [seen EXCEPT !.pc = "picked"]
  BY <1>1, <1>7
<1>13. p < NPROC => /\ cpu'[c].pc = "loop" /\ cpu'[c].i = p + 1
                   /\ cpu'[c].p = BestP(c) /\ cpu'[c].top = BestTop(c) /\ cpu'[c].bot = BestBot(c)
  BY <1>5, <1>6, <1>10
<1>14. p = NPROC /\ BestP(c) # 0 =>
         /\ cpu'[c].pc = "picked"
         /\ cpu'[c].p = BestP(c) /\ cpu'[c].top = BestTop(c) /\ cpu'[c].bot = BestBot(c)
  BY <1>5, <1>6, <1>12
<1>15. p = NPROC /\ BestP(c) = 0 => cpu'[c] = AtTop
  BY <1>5, <1>11
<1>16. Others(c)
  BY <1>7
<1> QED BY <1>8, <1>9, <1>13, <1>14, <1>15, <1>16 DEF p
-----------------------------------------------------------------------------
(* What a step does to the CPUs, the states and the queue: a process is    *)
(* dispatched, ...                                                         *)
Becomes(p, s) == \A q \in Procs : state'[q] = IF q = p THEN s ELSE state[q]

Starts(c, p) ==
  /\ cpu[c].pc # "run" /\ cpu'[c].pc = "run" /\ cpu'[c].p = p /\ Others(c)
  /\ state[p] = "RUNNABLE" /\ Becomes(p, "RUNNING")
  /\ policy = "FCFS" => cpu[c].pc = "picked"
  /\ cpu[c].pc = "picked" => cpu[c].p = p
  /\ c < UsedCPUs[policy] /\ UNCHANGED queueVars

(* ... or taken from the queue, or looked at, ...                          *)
Takes(c) ==
  /\ policy = "FCFS" /\ first # last /\ first' = (first + 1) % NPROC
  /\ cpu[c].pc = "loop" /\ cpu'[c].pc = "picked" /\ cpu'[c].p = ring[first] /\ Others(c)
  /\ UNCHANGED <<state, ring, last>>

Looks(c) ==
  /\ policy # "FCFS" /\ c < UsedCPUs[policy] /\ cpu[c].pc # "run"
      /\ cpu'[c].pc \in {"loop", "picked"} /\ Others(c)
  /\ cpu'[c].pc = "picked" => cpu'[c].p \in Procs
  /\ UNCHANGED <<state, queueVars>>

(* ... it stops, becomes RUNNABLE or is reaped, ...                        *)
Stops(c, s) ==
  /\ cpu[c].pc = "run" /\ cpu'[c].pc = "loop" /\ Others(c)
  /\ s \in {"RUNNABLE", "SLEEPING", "ZOMBIE"} /\ Becomes(cpu[c].p, s)
  /\ policy = "FCFS" => s # "RUNNABLE"
  /\ UNCHANGED queueVars

Readies(p) ==
  /\ state[p] \in {"SLEEPING", "UNUSED"} /\ Becomes(p, "RUNNABLE")
  /\ Enqueue(p) /\ UNCHANGED cpu

Reaped(p) == state[p] = "ZOMBIE" /\ Becomes(p, "UNUSED") /\ UNCHANGED <<queueVars, cpu>>

(* ... or none of this.                                                    *)
Rests == UNCHANGED <<state, queueVars, cpu>>

(* A CPU takes up a process that is RUNNABLE.                              *)
LEMMA DispatchStarts ==
  ASSUME SchedInv, NEW c \in CPUs, NEW p \in Procs, Dispatch(c, p), state[p] = "RUNNABLE",
         cpu[c].pc # "run", policy = "FCFS" => cpu[c].pc = "picked",
         cpu[c].pc = "picked" => cpu[c].p = p, c < UsedCPUs[policy], UNCHANGED queueVars
  PROVE  Starts(c, p)
<1>1. cpu \in [CPUs -> [pc : {"loop", "picked", "run"}, i : Procs, p : 0..NPROC, top : Int,
        bot : Int]]
      /\ DOMAIN state = Procs
  BY DEF SchedInv, SchedTypeOK
<1>2. cpu' = [cpu EXCEPT ![c] = [AtTop EXCEPT !.pc = "run", !.p = p]]
  BY DEF Dispatch
<1>3. cpu'[c].pc = "run" /\ cpu'[c].p = p /\ Others(c)
  BY <1>1, <1>2 DEF Others, AtTop
<1>4. Becomes(p, "RUNNING")
  BY <1>1 DEF Dispatch, Becomes
<1> QED BY <1>3, <1>4 DEF Starts

(* A turn of a scheduler.                                                  *)
LEMMA ScheduleMoves ==
  ASSUME SchedInv, NEW c \in CPUs, Schedule(c)
  PROVE  (\E p \in Procs : Starts(c, p)) \/ Takes(c) \/ Looks(c)
<1>t. cpu \in [CPUs -> [pc : {"loop", "picked", "run"}, i : Procs, p : 0..NPROC, top : Int,
        bot : Int]]
      /\ NPROC \in Nat \ {0} /\ c < UsedCPUs[policy]
  BY SchedConstants DEF SchedInv, SchedTypeOK, Schedule
<1>1. CASE RoundRobin(c)
  <2>1. policy = "DEFAULT" /\ cpu[c].pc = "loop" /\ UNCHANGED queueVars /\ cpu[c].i \in Procs
    BY <1>t, <1>1 DEF RoundRobin
  <2>2. CASE state[cpu[c].i] = "RUNNABLE"
    <3>1. Dispatch(c, cpu[c].i)
      BY <1>1, <2>2 DEF RoundRobin
    <3> QED BY <1>t, <2>1, <2>2, <3>1, DispatchStarts
  <2>3. CASE state[cpu[c].i] # "RUNNABLE"
    <3>1. cpu' = [cpu EXCEPT ![c].i = (cpu[c].i % NPROC) + 1] /\ UNCHANGED state
      BY <1>1, <2>3 DEF RoundRobin
    <3>2. cpu'[c].pc = cpu[c].pc /\ Others(c)
      BY <1>t, <3>1 DEF Others
    <3> QED BY <1>t, <2>1, <3>1, <3>2 DEF Looks
  <2> QED BY <2>2, <2>3
<1>2. CASE Dequeue(c)
  <2>1. cpu' = [cpu EXCEPT ![c].pc = "picked", ![c].p = ring[first]]
    BY <1>2 DEF Dequeue
  <2>2. cpu'[c].pc = "picked" /\ cpu'[c].p = ring[first] /\ Others(c)
    BY <1>t, <2>1 DEF Others
  <2> QED BY <1>2, <2>2 DEF Dequeue, Takes
<1>3. CASE Scan(c)
  <2>1. policy # "FCFS" /\ cpu[c].pc = "loop" /\ UNCHANGED <<state, queueVars>>
    BY <1>3 DEF Scan
  <2>2. Others(c) /\ cpu'[c] \in CpuRecord
        /\ cpu'[c].pc \in {"loop", "picked"} /\ (cpu'[c].pc = "picked" => cpu'[c].p # 0)
    <3>1. cpu[c].i < NPROC \/ cpu[c].i = NPROC
      BY <1>t DEF Procs
    <3>2. SchedTypeOK
      BY DEF SchedInv
    <3> QED BY <1>3, <3>1, <3>2, ScanDoes DEF AtTop
  <2>3. cpu'[c].pc = "picked" => cpu'[c].p \in Procs
    BY <1>t, <2>2 DEF CpuRecord, Procs
  <2> QED BY <1>t, <2>1, <2>2, <2>3 DEF Looks
<1>4. CASE Picked(c)
  <2>1. cpu[c].pc = "picked" /\ UNCHANGED queueVars
    BY <1>4 DEF Picked
  <2>2. cpu[c].p \in Procs /\ (policy = "FCFS" => state[cpu[c].p] = "RUNNABLE")
    BY <2>1 DEF SchedInv, Running, Ready
  <2>3. CASE state[cpu[c].p] = "RUNNABLE"
    <3>1. Dispatch(c, cpu[c].p)
      BY <1>4, <2>3 DEF Picked
    <3> QED BY <1>t, <2>1, <2>2, <2>3, <3>1, DispatchStarts
  <2>4. CASE state[cpu[c].p] # "RUNNABLE"
    <3>1. cpu' = [cpu EXCEPT ![c] = AtTop] /\ UNCHANGED state /\ policy # "FCFS"
      BY <1>4, <2>2, <2>4 DEF Picked
    <3>2. cpu'[c].pc = "loop" /\ Others(c)
      BY <1>t, <3>1 DEF Others, AtTop
    <3> QED BY <1>t, <2>1, <3>1, <3>2 DEF Looks
  <2> QED BY <2>3, <2>4
<1> QED BY <1>1, <1>2, <1>3, <1>4 DEF Schedule

(* A process leaves its CPU.                                               *)
LEMMA LeavesCpu ==
  ASSUME SchedInv, NEW c \in CPUs, ToScheduler(c)
  PROVE  cpu'[c].pc = "loop" /\ cpu'[c].p = 0 /\ Others(c)
<1>1. PICK m \in {AtTop, [AtTop EXCEPT !.i = (cpu[c].p % NPROC) + 1]} : cpu' = [cpu EXCEPT ![c] = m]
  BY DEF ToScheduler
<1>2. m.pc = "loop" /\ m.p = 0
  BY <1>1 DEF AtTop
<1>3. DOMAIN cpu = CPUs
  BY DEF SchedInv, SchedTypeOK
<1> QED BY <1>1, <1>2, <1>3 DEF Others

(* A slice ends.                                                           *)
LEMMA YieldStops ==
  ASSUME SchedInv, NEW c \in CPUs, SliceUsed(c), Yield(c)
  PROVE  Stops(c, "RUNNABLE")
<1>1. cpu'[c].pc = "loop" /\ Others(c)
  BY LeavesCpu DEF Yield
<1>2. policy # "FCFS" /\ cpu[c].pc = "run"
  BY DEF SliceUsed
<1>3. UNCHANGED queueVars
  BY <1>2 DEF Yield, Enqueue
<1>4. Becomes(cpu[c].p, "RUNNABLE")
  BY DEF Yield, Becomes, SchedInv, SchedTypeOK
<1> QED BY <1>1, <1>2, <1>3, <1>4 DEF Stops

(* There is nothing else.                                                  *)
LEMMA Moves ==
  ASSUME SchedInv, [SchedNext]_schedVars
  PROVE  /\ policy' = policy
         /\ \/ \E c \in CPUs, p \in Procs : Starts(c, p)
            \/ \E c \in CPUs : Takes(c) \/ Looks(c) \/ \E s \in {"RUNNABLE", "SLEEPING",
              "ZOMBIE"} : Stops(c, s)
            \/ \E p \in Procs : Readies(p) \/ Reaped(p)
            \/ Rests
<1> DEFINE M == \/ \E c \in CPUs, p \in Procs : Starts(c, p)
                \/ \E c \in CPUs : Takes(c) \/ Looks(c) \/ \E s \in {"RUNNABLE", "SLEEPING",
                  "ZOMBIE"} : Stops(c, s)
                \/ \E p \in Procs : Readies(p) \/ Reaped(p)
                \/ Rests
<1> SUFFICES policy' = policy /\ M
  OBVIOUS
<1>t. DOMAIN state = Procs
  BY DEF SchedInv, SchedTypeOK
<1>1. ASSUME NEW c \in CPUs, Schedule(c)
      PROVE  policy' = policy /\ M
  BY <1>1, ScheduleMoves DEF Schedule
<1>2. ASSUME NEW c \in CPUs, OtherTimer(c)
      PROVE  policy' = policy /\ M
  <2>1. Stops(c, "RUNNABLE")
    BY <1>2, YieldStops DEF OtherTimer
  <2> QED BY <1>2, <2>1 DEF OtherTimer, Yield
<1>3. ASSUME NEW c \in CPUs, NEW p \in Procs, Sleep(c, p)
      PROVE  policy' = policy /\ M
  <2>1. cpu'[c].pc = "loop" /\ Others(c) /\ cpu[c].pc = "run" /\ cpu[c].p = p
    BY <1>3, LeavesCpu DEF Sleep, Runs
  <2>2. Becomes(p, "SLEEPING")
    BY <1>t, <1>3 DEF Sleep, Becomes
  <2>3. Stops(c, "SLEEPING")
    BY <1>3, <2>1, <2>2 DEF Sleep, Stops, queueVars
  <2> QED BY <1>3, <2>3 DEF Sleep
<1>4. ASSUME NEW c \in CPUs, NEW p \in Procs, Exit(c, p)
      PROVE  policy' = policy /\ M
  <2>1. cpu'[c].pc = "loop" /\ Others(c) /\ cpu[c].pc = "run" /\ cpu[c].p = p
    BY <1>4, LeavesCpu DEF Exit, Runs
  <2>2. Becomes(p, "ZOMBIE")
    BY <1>t, <1>4 DEF Exit, Becomes
  <2>3. Stops(c, "ZOMBIE")
    BY <1>4, <2>1, <2>2 DEF Exit, Stops, queueVars
  <2> QED BY <1>4, <2>3 DEF Exit
<1>5. ASSUME NEW c \in CPUs, NEW p \in Procs, NEW n \in Procs, Fork(c, p, n)
      PROVE  policy' = policy /\ M
  <2>1. Becomes(n, "RUNNABLE")
    BY <1>t, <1>5 DEF Fork, Becomes
  <2>2. Readies(n)
    BY <1>5, <2>1 DEF Fork, Readies
  <2> QED BY <1>5, <2>2 DEF Fork
<1>6. ASSUME NEW p \in Procs, Wake(p)
      PROVE  policy' = policy /\ M
  <2>1. Becomes(p, "RUNNABLE")
    BY <1>t, <1>6 DEF Wake, WakeOne, Becomes
  <2>2. Readies(p)
    BY <1>6, <2>1 DEF Wake, WakeOne, Readies
  <2> QED BY <1>6, <2>2 DEF Wake
<1>7. ASSUME NEW p \in Procs, Reap(p)
      PROVE  policy' = policy /\ M
  <2>1. Becomes(p, "UNUSED")
    BY <1>t, <1>7 DEF Reap, Becomes
  <2>2. Reaped(p)
    BY <1>7, <2>1 DEF Reap, Reaped, queueVars
  <2> QED BY <1>7, <2>2 DEF Reap
<1>8. CASE CheckSlice
  <2>1. CASE SliceUsed(0)
    <3>1. 0 \in CPUs
      BY SchedConstants DEF CPUs
    <3>2. Yield(0)
      BY <1>8, <2>1 DEF CheckSlice
    <3> QED BY <2>1, <3>1, <3>2, YieldStops DEF Yield
  <2>2. CASE ~SliceUsed(0)
    BY <1>8, <2>2 DEF CheckSlice, Rests
  <2> QED BY <2>1, <2>2
<1>9. ASSUME NEW c \in CPUs, NEW p \in Procs, SetPriority(c, p)
      PROVE  policy' = policy /\ M
  BY <1>9 DEF SetPriority, Rests
<1>10. CASE ClockTick \/ (\E p \in Procs : Count(p))
  BY <1>10 DEF ClockTick, Count, Rests
<1>11. CASE UNCHANGED schedVars
  BY <1>11 DEF schedVars, Rests, queueVars
<1> HIDE DEF M
<1>12. CASE SchedMoves
  BY <1>1, <1>2, <1>3, <1>4, <1>5, <1>6, <1>7, <1>8, <1>9, <1>10, <1>12 DEF SchedMoves, Clock
<1> QED BY <1>11, <1>12 DEF SchedNext

(* A process runs on one CPU, and RUNNING is what its state says.          *)
LEMMA RunningStep ==
  ASSUME SchedInv, [SchedNext]_schedVars
  PROVE  Running'
<1>t. /\ Running /\ cpu \in [CPUs -> [pc : {"loop", "picked", "run"}, i : Procs, p : 0..NPROC,
          top : Int, bot : Int]]
  BY DEF SchedInv, SchedTypeOK
<1>1. ASSUME NEW c \in CPUs, NEW p \in Procs, Starts(c, p)
      PROVE  Running'
  BY <1>t, <1>1 DEF Starts, Running, Others, Becomes
<1>2. ASSUME NEW c \in CPUs, Takes(c)
      PROVE  Running'
  <2>1. ring[first] \in Procs
    BY <1>2, SchedConstants DEF Takes, SchedInv, Ready, Used, Ring, SchedTypeOK
  <2> QED BY <1>t, <1>2, <2>1 DEF Takes, Running, Others
<1>3. ASSUME NEW c \in CPUs, Looks(c)
      PROVE  Running'
  BY <1>t, <1>3 DEF Looks, Running, Others
<1>4. ASSUME NEW c \in CPUs, NEW s \in {"RUNNABLE", "SLEEPING", "ZOMBIE"}, Stops(c, s)
      PROVE  Running'
  BY <1>t, <1>4 DEF Stops, Running, Others, Becomes
<1>5. ASSUME NEW p \in Procs, Readies(p) \/ Reaped(p)
      PROVE  Running'
  BY <1>t, <1>5 DEF Readies, Reaped, Running, Becomes
<1>6. CASE Rests
  BY <1>t, <1>6 DEF Rests, Running
<1> QED BY <1>1, <1>2, <1>3, <1>4, <1>5, <1>6, Moves
-----------------------------------------------------------------------------
(* The next slot of the ring.                                              *)
LEMMA NextInRing ==
  ASSUME NEW k \in Ring
  PROVE  (k + 1) % NPROC = (IF k = NPROC - 1 THEN 0 ELSE k + 1) /\ (k + 1) % NPROC \in Ring
BY SchedConstants, Remainder DEF Ring

(* The slots in use, without the arithmetic.                               *)
LEMMA SlotsAre ==
  ASSUME first \in Ring, last \in Ring
  PROVE  Slots = {k \in Ring : Used(k)}
<1> DEFINE n == (last - first) % NPROC
<1>1. NPROC \in Nat /\ NPROC > 0 /\ first \in Int /\ last \in Int
  BY SchedConstants DEF Ring
<1>2. n = IF last < first THEN last - first + NPROC ELSE last - first
  BY <1>1, Remainder DEF Ring
<1>3. \A k \in 0..(n - 1) : (first + k) % NPROC = IF first + k < NPROC THEN first + k ELSE first + k - NPROC
  <2> SUFFICES ASSUME NEW k \in 0..(n - 1)
               PROVE  (first + k) % NPROC = IF first + k < NPROC THEN first + k ELSE first + k - NPROC
    OBVIOUS
  <2>1. first + k \in Int /\ -NPROC < first + k /\ first + k < NPROC + NPROC /\ ~(first + k < 0)
    BY <1>1, <1>2 DEF Ring
  <2> QED BY <1>1, <2>1, Remainder
<1> HIDE DEF n
<1>4. ASSUME NEW k \in 0..(n - 1)
      PROVE  (first + k) % NPROC \in {j \in Ring : Used(j)}
  BY <1>1, <1>2, <1>3 DEF Ring, Used
<1>5. ASSUME NEW j \in Ring, Used(j)
      PROVE  \E k \in 0..(n - 1) : (first + k) % NPROC = j
  <2>1. CASE first <= j
    <3>1. j - first \in 0..(n - 1) /\ first + (j - first) = j /\ j < NPROC
      BY <1>1, <1>2, <1>5, <2>1 DEF Ring, Used
    <3> QED BY <1>3, <3>1
  <2>2. CASE j < first
    <3>1. j + NPROC - first \in 0..(n - 1) /\ first + (j + NPROC - first) = j + NPROC /\ j >= 0
      BY <1>1, <1>2, <1>5, <2>2 DEF Ring, Used
    <3> QED BY <1>1, <1>3, <3>1
  <2> QED BY <1>1, <2>1, <2>2 DEF Ring
<1>6. Slots = {(first + k) % NPROC : k \in 0..(n - 1)}
  BY DEF Slots, n
<1> QED BY <1>4, <1>5, <1>6

(* The queue grows behind its last slot, ...                               *)
LEMMA EnqueueUses ==
  ASSUME SchedTypeOK, NEW p \in Procs, Enqueue(p), policy = "FCFS", (last + 1) % NPROC # first
  PROVE  /\ first' = first /\ last \in Ring /\ ~Used(last)
         /\ ring'[last] = p /\ \A k \in Ring : k # last => ring'[k] = ring[k]
         /\ \A k \in Ring : Used(k)' <=> Used(k) \/ k = last
<1>1. first \in Ring /\ last \in Ring /\ ring \in [Ring -> 0..NPROC] /\ NPROC \in Nat
  BY SchedConstants DEF SchedTypeOK, Ring
<1>2. last' = (IF last = NPROC - 1 THEN 0 ELSE last + 1) /\ last' # first /\ first' = first
  BY <1>1, NextInRing DEF Enqueue
<1>3. \A k \in Ring : Used(k)' <=> Used(k) \/ k = last
  BY <1>1, <1>2 DEF Used, Ring
<1>4. ring' = [ring EXCEPT ![last] = p]
  BY DEF Enqueue
<1> QED BY <1>1, <1>2, <1>3, <1>4 DEF Used, Ring

(* ... and shrinks from its first.                                         *)
LEMMA DequeueFrees ==
  ASSUME SchedTypeOK, NEW c \in CPUs, Takes(c)
  PROVE  /\ first \in Ring /\ Used(first)
         /\ \A k \in Ring : Used(k)' <=> Used(k) /\ k # first
<1>1. first \in Ring /\ last \in Ring /\ NPROC \in Nat
  BY SchedConstants DEF SchedTypeOK, Ring
<1>2. first' = (IF first = NPROC - 1 THEN 0 ELSE first + 1) /\ last' = last /\ first # last
  BY <1>1, NextInRing DEF Takes
<1>3. \A k \in Ring : Used(k)' <=> Used(k) /\ k # first
  BY <1>1, <1>2 DEF Used, Ring
<1> QED BY <1>1, <1>2, <1>3 DEF Used, Ring

(* FCFS: what waits is RUNNABLE, and waits once.                           *)
LEMMA ReadyStep ==
  ASSUME SchedInv, [SchedNext]_schedVars
  PROVE  Ready'
<1> SUFFICES ASSUME policy = "FCFS", policy' = "FCFS"
             PROVE  Ready'
  BY Moves DEF Ready
<1>t. /\ Running /\ SchedTypeOK /\ Ready
  BY DEF SchedInv
<1>1. ASSUME NEW c \in CPUs, NEW p \in Procs, Starts(c, p)
      PROVE  Ready'
  <2>1. /\ cpu[c].pc = "picked" /\ cpu[c].p = p /\ Becomes(p, "RUNNING") /\ ring' = ring
        /\ \A k \in Ring : Used(k)' <=> Used(k)
    BY <1>1 DEF Starts, Used, queueVars
  <2>2. \A d \in CPUs : cpu'[d].pc = "picked" => d # c /\ cpu[d].pc = "picked"
          /\ cpu'[d].p = cpu[d].p
    BY <1>1 DEF Starts, Others
  <2>3. \A d \in CPUs : cpu[d].pc = "picked" => cpu[d].p \in Procs
    BY <1>t DEF Running
  <2> QED BY <1>t, <2>1, <2>2, <2>3 DEF Ready, Becomes
<1>2. ASSUME NEW c \in CPUs, Takes(c)
      PROVE  Ready'
  <2>1. /\ first \in Ring /\ Used(first) /\ ring' = ring /\ state' = state /\ Others(c)
        /\ cpu'[c].pc = "picked" /\ cpu'[c].p = ring[first]
        /\ \A k \in Ring : Used(k)' <=> Used(k) /\ k # first
    BY <1>t, <1>2, DequeueFrees DEF Takes
  <2> QED BY <1>t, <2>1 DEF Ready, Others
<1>3. ASSUME NEW c \in CPUs, NEW s \in {"RUNNABLE", "SLEEPING", "ZOMBIE"}, Stops(c, s)
      PROVE  Ready'
  BY <1>t, <1>3 DEF Stops, Ready, Running, Others, Becomes, Used, queueVars
<1>4. ASSUME NEW p \in Procs, Readies(p)
      PROVE  Ready'
  <2>1. CASE (last + 1) % NPROC # first
    <3>1. /\ last \in Ring /\ ~Used(last)
          /\ ring'[last] = p /\ \A k \in Ring : k # last => ring'[k] = ring[k]
          /\ \A k \in Ring : Used(k)' <=> Used(k) \/ k = last
      BY <1>t, <1>4, <2>1, EnqueueUses DEF Readies
    <3> QED BY <1>t, <1>4, <3>1 DEF Readies, Becomes, Ready, Running
  <2>2. CASE (last + 1) % NPROC = first
    BY <1>t, <1>4, <2>2 DEF Readies, Enqueue, Becomes, Ready, Running, Used, queueVars
  <2> QED BY <2>1, <2>2
<1>5. ASSUME NEW p \in Procs, Reaped(p) \/ Rests
      PROVE  Ready'
  BY <1>t, <1>5 DEF Reaped, Rests, Becomes, Ready, Running, Used, queueVars
<1>6. \A c \in CPUs : ~Looks(c)
  BY DEF Looks
<1>7. 1 \in Procs
  BY SchedConstants DEF Procs
<1> QED BY <1>1, <1>2, <1>3, <1>4, <1>5, <1>6, <1>7, Moves
-----------------------------------------------------------------------------
(* The types, in groups.                                                   *)
ProcTypes ==
  /\ state \in [Procs -> {"UNUSED", "SLEEPING", "RUNNABLE", "RUNNING", "ZOMBIE"}]
  /\ curRun \in [Procs -> 0..(QUANTUM + 1)]
  /\ avgBurst \in [Procs -> Nat] /\ decay \in [Procs -> Decays]
CountTypes ==
  /\ perf \in [Procs -> [{"ctime", "rutime", "wtime"} -> 0..MaxTicks[policy]]]
  /\ ticks \in 0..MaxTicks[policy]
  /\ clock \in [pc : {"off", "count", "check"}, i : Procs, on : BOOLEAN]

(* Where CPU 0 is in clockintr, ...                                        *)
ClockRecord == [pc : {"off", "count", "check"}, i : Procs, on : BOOLEAN]

(* ... and that a tick starts there.                                       *)
LEMMA TickStarts ==
  ASSUME NEW m \in ClockRecord, NEW b \in BOOLEAN,
         NEW s, s = [m EXCEPT !.pc = "count", !.on = b]
  PROVE  s \in ClockRecord /\ s.pc = "count" /\ s.i = m.i /\ s.on = b
BY DEF ClockRecord

(* One process has been counted.                                           *)
LEMMA SlotCounted ==
  ASSUME clock \in ClockRecord, clock.pc = "count", NextSlot("check")
  PROVE  /\ clock' \in ClockRecord /\ clock'.on = clock.on
         /\ IF clock.i < NPROC THEN clock'.i = clock.i + 1 /\ clock'.pc = "count"
            ELSE clock'.pc = "check"
<1>1. NPROC \in Nat \ {0} /\ clock.i \in Procs /\ 1 \in Procs
  BY SchedConstants DEF ClockRecord, Procs
<1>2. CASE clock.i < NPROC
  <2>1. clock' = [clock EXCEPT !.i = clock.i + 1] /\ clock.i + 1 \in Procs
    BY <1>1, <1>2 DEF NextSlot, Procs
  <2> QED BY <1>2, <2>1 DEF ClockRecord
<1>3. CASE ~(clock.i < NPROC)
  <2>1. clock' = [clock EXCEPT !.i = 1, !.pc = "check"]
    BY <1>3 DEF NextSlot
  <2> QED BY <1>1, <1>3, <2>1 DEF ClockRecord
<1> QED BY <1>2, <1>3

(* The averages and slices are numbers.                                    *)
LEMMA BurstType ==
  ASSUME ProcTypes, NEW p \in Procs
  PROVE  AvgBurst(p) \in Nat /\ QUANTUM * 100 \in Nat
<1>1. ALPHA \in 0..100 /\ curRun[p] \in Nat /\ QUANTUM \in Nat
  BY SchedConstants DEF ProcTypes
<1>2. ALPHA * curRun[p] \in Nat
  BY <1>1
<1>3. (100 - ALPHA) \div 100 \in Nat
  BY <1>1
<1> QED BY <1>1, <1>2, <1>3 DEF AvgBurst

(* Sets of states, slices, averages and decay factors.                     *)
LEMMA ProcTypesStep ==
  ASSUME SchedInv, [SchedNext]_schedVars
  PROVE  ProcTypes'
<1> USE DEF procVars
<1>t. ProcTypes /\ Running
  BY DEF SchedInv, SchedTypeOK, ProcTypes
<1>c. /\ QUANTUM \in Nat \ {0} /\ NORMALP \in Decays /\ QUANTUM * 100 \in Nat
      /\ \A p \in Procs : AvgBurst(p) \in Nat
      /\ 1 \in Procs /\ 0 \in CPUs
  BY <1>t, BurstType, SchedConstants DEF Procs, CPUs
<1>1. ASSUME NEW c \in CPUs, Schedule(c), RoundRobin(c)
      PROVE  ProcTypes'
  BY <1>1, <1>t, <1>c DEF Schedule, RoundRobin, Dispatch, ProcTypes, Running
<1>2. ASSUME NEW c \in CPUs, Schedule(c), Dequeue(c)
      PROVE  ProcTypes'
  BY <1>2, <1>t, <1>c DEF Schedule, Dequeue, ProcTypes, Running
<1>3. ASSUME NEW c \in CPUs, Schedule(c), Scan(c)
      PROVE  ProcTypes'
  BY <1>3, <1>t, <1>c DEF Schedule, Scan, ProcTypes, Running
<1>4. ASSUME NEW c \in CPUs, Schedule(c), Picked(c)
      PROVE  ProcTypes'
  BY <1>4, <1>t, <1>c DEF Schedule, Picked, Dispatch, ProcTypes, Running
<1>5. ASSUME NEW c \in CPUs, OtherTimer(c)
      PROVE  ProcTypes'
  BY <1>5, <1>t, <1>c DEF OtherTimer, SliceUsed, Yield, ToScheduler, ProcTypes, Running
<1>6. ASSUME NEW c \in CPUs, NEW p \in Procs, Sleep(c, p)
      PROVE  ProcTypes'
  BY <1>6, <1>t, <1>c DEF Sleep, Runs, ToScheduler, ProcTypes, Running
<1>7. ASSUME NEW c \in CPUs, NEW p \in Procs, Exit(c, p)
      PROVE  ProcTypes'
  BY <1>7, <1>t, <1>c DEF Exit, Runs, ToScheduler, ProcTypes, Running
<1>8. ASSUME NEW c \in CPUs, NEW p \in Procs, SetPriority(c, p)
      PROVE  ProcTypes'
  BY <1>8, <1>t, <1>c DEF SetPriority, Runs, ProcTypes, Running
<1>9. ASSUME NEW c \in CPUs, NEW p \in Procs, NEW n \in Procs, Fork(c, p, n)
      PROVE  ProcTypes'
  BY <1>9, <1>t, <1>c DEF Fork, Runs, ProcTypes, Running
<1>10. ASSUME NEW p \in Procs, Wake(p)
      PROVE  ProcTypes'
  BY <1>10, <1>t, <1>c DEF Wake, WakeOne, ProcTypes, Running
<1>11. ASSUME NEW p \in Procs, Reap(p)
      PROVE  ProcTypes'
  BY <1>11, <1>t, <1>c DEF Reap, ProcTypes, Running
<1>12. ASSUME ClockTick
      PROVE  ProcTypes'
  BY <1>12, <1>t, <1>c DEF ClockTick, ProcTypes, Running
<1>13. ASSUME NEW p \in Procs, Count(p)
      PROVE  ProcTypes'
  BY <1>13, <1>t, <1>c DEF Count, NextSlot, ProcTypes, Running
<1>14. ASSUME CheckSlice
      PROVE  ProcTypes'
  BY <1>14, <1>t, <1>c DEF CheckSlice, SliceUsed, Yield, ToScheduler, ProcTypes, Running
<1>15. CASE UNCHANGED schedVars
  BY <1>15, <1>t, <1>c DEF schedVars, ProcTypes, Running
<1>16. CASE SchedMoves
  BY <1>1, <1>2, <1>3, <1>4, <1>5, <1>6, <1>7, <1>8, <1>9, <1>10, <1>11, <1>12, <1>13, <1>14,
       <1>16 DEF SchedMoves, Schedule, Clock
<1> QED
  BY <1>15, <1>16 DEF SchedNext
(* What is counted stays within the ticks that are.                        *)
LEMMA CountTypesStep ==
  ASSUME SchedInv, [SchedNext]_schedVars
  PROVE  CountTypes'
<1> USE DEF procVars
<1>t. CountTypes /\ Charged /\ Clocked /\ NPROC \in Nat \ {0} /\ MaxTicks[policy] \in Nat
  BY SchedConstants DEF SchedInv, SchedTypeOK, CountTypes, NoPerf
<1>c. /\ NoPerf \in [{"ctime", "rutime", "wtime"} -> 0..MaxTicks[policy]]
      /\ NoClock \in [pc : {"off", "count", "check"}, i : Procs, on : BOOLEAN]
  BY <1>t DEF NoPerf, NoClock, Procs
<1>1. ASSUME NEW c \in CPUs, Schedule(c), RoundRobin(c)
      PROVE  CountTypes'
  BY <1>1, <1>t, <1>c DEF Schedule, RoundRobin, Dispatch, CountTypes
<1>2. ASSUME NEW c \in CPUs, Schedule(c), Dequeue(c)
      PROVE  CountTypes'
  BY <1>2, <1>t, <1>c DEF Schedule, Dequeue, CountTypes
<1>3. ASSUME NEW c \in CPUs, Schedule(c), Scan(c)
      PROVE  CountTypes'
  BY <1>3, <1>t, <1>c DEF Schedule, Scan, CountTypes
<1>4. ASSUME NEW c \in CPUs, Schedule(c), Picked(c)
      PROVE  CountTypes'
  BY <1>4, <1>t, <1>c DEF Schedule, Picked, Dispatch, CountTypes
<1>5. ASSUME NEW c \in CPUs, OtherTimer(c)
      PROVE  CountTypes'
  BY <1>5, <1>t, <1>c DEF OtherTimer, SliceUsed, Yield, ToScheduler, CountTypes
<1>6. ASSUME NEW c \in CPUs, NEW p \in Procs, Sleep(c, p)
      PROVE  CountTypes'
  BY <1>6, <1>t, <1>c DEF Sleep, Runs, ToScheduler, CountTypes
<1>7. ASSUME NEW c \in CPUs, NEW p \in Procs, Exit(c, p)
      PROVE  CountTypes'
  BY <1>7, <1>t, <1>c DEF Exit, Runs, ToScheduler, CountTypes
<1>8. ASSUME NEW c \in CPUs, NEW p \in Procs, SetPriority(c, p)
      PROVE  CountTypes'
  BY <1>8, <1>t, <1>c DEF SetPriority, Runs, CountTypes
<1>9. ASSUME NEW c \in CPUs, NEW p \in Procs, NEW n \in Procs, Fork(c, p, n)
      PROVE  CountTypes'
  BY <1>9, <1>t, <1>c DEF Fork, Runs, CountTypes
<1>10. ASSUME NEW p \in Procs, Wake(p)
      PROVE  CountTypes'
  BY <1>10, <1>t, <1>c DEF Wake, WakeOne, CountTypes
<1>11. ASSUME NEW p \in Procs, Reap(p)
      PROVE  CountTypes'
  BY <1>11, <1>t, <1>c DEF Reap, CountTypes
<1>12. ASSUME ClockTick
      PROVE  CountTypes'
  <2>1. /\ ticks' = IF ticks < MaxTicks[policy] THEN ticks + 1 ELSE ticks
        /\ clock' = [NoClock EXCEPT !.pc = "count", !.on = (ticks < MaxTicks[policy])]
        /\ perf' = perf /\ policy' = policy
    BY <1>12 DEF ClockTick
  <2>2. clock' \in [pc : {"off", "count", "check"}, i : Procs, on : BOOLEAN]
    <3>1. (ticks < MaxTicks[policy]) \in BOOLEAN
      OBVIOUS
    <3> QED BY <1>c, <2>1, <3>1, TickStarts DEF ClockRecord
  <2>3. ticks' \in 0..MaxTicks[policy]
    BY <1>t, <2>1 DEF CountTypes
  <2> QED BY <1>t, <2>1, <2>2, <2>3 DEF CountTypes
<1>13. ASSUME NEW p \in Procs, Count(p)
      PROVE  CountTypes'
  <2>1. clock \in [pc : {"off", "count", "check"}, i : Procs, on : BOOLEAN]
        /\ clock' = IF clock.i < NPROC THEN [clock EXCEPT !.i = clock.i + 1]
                    ELSE [clock EXCEPT !.i = 1, !.pc = "check"]
    BY <1>t, <1>13 DEF CountTypes, Count, NextSlot
  <2>2. clock' \in [pc : {"off", "count", "check"}, i : Procs, on : BOOLEAN]
    BY <1>13, <2>1, SlotCounted DEF ClockRecord, Count
  <2>3. ticks' = ticks /\ policy' = policy
    BY <1>13 DEF Count
  <2>4. CASE perf' = perf
    BY <1>t, <2>2, <2>3, <2>4 DEF CountTypes
  <2>5. CASE perf' # perf
    <3>1. PICK k \in {"wtime", "rutime"} : perf' = [perf EXCEPT ![p][k] = perf[p][k] + 1]
      BY <1>13, <2>5 DEF Count, Counter
    <3>2. clock.on /\ clock.pc = "count" /\ clock.i = p
      BY <1>13, <2>5 DEF Count
    <3>3. /\ perf[p].rutime + perf[p].wtime + 1 + perf[p].ctime <= ticks + (IF perf[p].ctime = 0 THEN 0 ELSE 1)
          /\ perf[p].rutime \in Nat /\ perf[p].wtime \in Nat /\ perf[p].ctime \in Nat
      <4>1. Owed(p) = 1
        BY <1>t, <3>2 DEF Owed, Procs
      <4> QED BY <1>t, <4>1 DEF Charged, CountTypes
    <3>4. perf[p][k] + 1 \in 0..MaxTicks[policy]
      BY <1>t, <3>3 DEF CountTypes
    <3>5. perf' \in [Procs -> [{"ctime", "rutime", "wtime"} -> 0..MaxTicks[policy]]]
      BY <1>t, <3>1, <3>4 DEF CountTypes
    <3> QED BY <1>t, <2>2, <2>3, <3>5 DEF CountTypes
  <2> QED BY <2>4, <2>5
<1>14. ASSUME CheckSlice
      PROVE  CountTypes'
  <2>1. perf' = perf /\ ticks' = ticks /\ policy' = policy /\ clock' = NoClock
    BY <1>14 DEF CheckSlice, Yield
  <2> QED BY <1>t, <1>c, <2>1 DEF CountTypes
<1>15. CASE UNCHANGED schedVars
  BY <1>15, <1>t, <1>c DEF schedVars, CountTypes
<1>16. CASE SchedMoves
  BY <1>1, <1>2, <1>3, <1>4, <1>5, <1>6, <1>7, <1>8, <1>9, <1>10, <1>11, <1>12, <1>13, <1>14,
       <1>16 DEF SchedMoves, Schedule, Clock
<1> QED
  BY <1>15, <1>16 DEF SchedNext
(* A CPU is at a place of its scheduler.                                   *)
LEMMA CpuTypeStep ==
  ASSUME SchedInv, [SchedNext]_schedVars
  PROVE  cpu' \in [CPUs -> CpuRecord]
<1>t. /\ cpu \in [CPUs -> CpuRecord] /\ NPROC \in Nat \ {0} /\ Procs \subseteq 0..NPROC
      /\ ring \in [0..(NPROC - 1) -> 0..NPROC] /\ first \in 0..(NPROC - 1)
      /\ Running
  BY SchedConstants DEF SchedInv, SchedTypeOK, CpuRecord, Procs
<1>e. \A p \in Procs : Runner(p) \in CpuRecord
  BY TopTypes
<1>c. AtTop \in CpuRecord
        /\ \A c \in CPUs : [AtTop EXCEPT !.i = (cpu[c].p % NPROC) + 1] \in CpuRecord
  BY <1>t DEF AtTop, CpuRecord, Procs
<1>d. ASSUME NEW c \in CPUs, ToScheduler(c)
      PROVE  cpu' \in [CPUs -> CpuRecord]
  <2>1. PICK r \in CpuRecord : cpu' = [cpu EXCEPT ![c] = r]
    BY <1>c, <1>d DEF ToScheduler
  <2>2. cpu \in [CPUs -> CpuRecord]
    BY <1>t
  <2> QED BY <2>1, <2>2
<1>1. ASSUME NEW c \in CPUs, Schedule(c), RoundRobin(c)
      PROVE  cpu' \in [CPUs -> CpuRecord]
  <2>0. cpu[c] \in CpuRecord /\ cpu[c].i \in Procs /\ (cpu[c].i % NPROC) + 1 \in Procs
    BY <1>t DEF CpuRecord, Procs
  <2>1. CASE state[cpu[c].i] = "RUNNABLE"
    <3>1. cpu' = [cpu EXCEPT ![c] = Runner(cpu[c].i)]
      BY <1>1, <2>1 DEF RoundRobin, Dispatch, Runner
    <3> QED BY <1>e, <1>t, <2>0, <3>1
  <2>2. CASE state[cpu[c].i] # "RUNNABLE"
    <3>1. cpu' = [cpu EXCEPT ![c].i = (cpu[c].i % NPROC) + 1]
      BY <1>1, <2>2 DEF RoundRobin
    <3>2. [cpu[c] EXCEPT !.i = (cpu[c].i % NPROC) + 1] \in CpuRecord
      BY <2>0 DEF CpuRecord
    <3> QED BY <1>t, <3>1, <3>2
  <2> QED BY <2>1, <2>2
<1>2. ASSUME NEW c \in CPUs, Schedule(c), Dequeue(c)
      PROVE  cpu' \in [CPUs -> CpuRecord]
  <2>1. cpu' = [cpu EXCEPT ![c].pc = "picked", ![c].p = ring[first]] /\ ring[first] \in 0..NPROC
    BY <1>2, <1>t DEF Dequeue
  <2> QED BY <1>t, <2>1 DEF CpuRecord
<1>3. ASSUME NEW c \in CPUs, Schedule(c), Scan(c)
      PROVE  cpu' \in [CPUs -> CpuRecord]
  <2>1. SchedTypeOK
    BY DEF SchedInv
  <2>2. Scan(c)
    BY <1>3
  <2> QED BY <2>1, <2>2, ScanDoes
<1>4. ASSUME NEW c \in CPUs, Schedule(c), Picked(c)
      PROVE  cpu' \in [CPUs -> CpuRecord]
  <2>0. cpu[c] \in CpuRecord /\ cpu[c].p \in Procs
    BY <1>t, <1>4 DEF Running, Picked
  <2>1. cpu' = [cpu EXCEPT ![c] = Runner(cpu[c].p)] \/ cpu' = [cpu EXCEPT ![c] = AtTop]
    BY <1>4 DEF Picked, Dispatch, Runner
  <2> QED BY <1>c, <1>e, <1>t, <2>0, <2>1
<1>5. ASSUME NEW c \in CPUs, OtherTimer(c)
      PROVE  cpu' \in [CPUs -> CpuRecord]
  BY <1>5, <1>d DEF OtherTimer, Yield
<1>6. ASSUME NEW c \in CPUs, NEW p \in Procs, Sleep(c, p)
      PROVE  cpu' \in [CPUs -> CpuRecord]
  BY <1>6, <1>d DEF Sleep
<1>7. ASSUME NEW c \in CPUs, NEW p \in Procs, Exit(c, p)
      PROVE  cpu' \in [CPUs -> CpuRecord]
  BY <1>7, <1>d DEF Exit
<1>8. ASSUME NEW c \in CPUs, NEW p \in Procs, SetPriority(c, p)
      PROVE  cpu' \in [CPUs -> CpuRecord]
  <2>1. cpu' = cpu
    BY <1>8 DEF SetPriority
  <2> QED BY <1>t, <2>1
<1>9. ASSUME NEW c \in CPUs, NEW p \in Procs, NEW n \in Procs, Fork(c, p, n)
      PROVE  cpu' \in [CPUs -> CpuRecord]
  <2>1. cpu' = cpu
    BY <1>9 DEF Fork
  <2> QED BY <1>t, <2>1
<1>10. ASSUME NEW p \in Procs, Wake(p)
      PROVE  cpu' \in [CPUs -> CpuRecord]
  <2>1. cpu' = cpu
    BY <1>10 DEF Wake
  <2> QED BY <1>t, <2>1
<1>11. ASSUME NEW p \in Procs, Reap(p)
      PROVE  cpu' \in [CPUs -> CpuRecord]
  <2>1. cpu' = cpu
    BY <1>11 DEF Reap
  <2> QED BY <1>t, <2>1
<1>12. ASSUME ClockTick
      PROVE  cpu' \in [CPUs -> CpuRecord]
  <2>1. cpu' = cpu
    BY <1>12 DEF ClockTick
  <2> QED BY <1>t, <2>1
<1>13. ASSUME NEW p \in Procs, Count(p)
      PROVE  cpu' \in [CPUs -> CpuRecord]
  <2>1. cpu' = cpu
    BY <1>13 DEF Count
  <2> QED BY <1>t, <2>1
<1>14. ASSUME CheckSlice
      PROVE  cpu' \in [CPUs -> CpuRecord]
  <2>1. cpu' = cpu \/ (0 \in CPUs /\ ToScheduler(0))
    BY <1>14, SchedConstants DEF CheckSlice, Yield, CPUs
  <2> QED BY <1>t, <1>d, <2>1
<1>15. CASE UNCHANGED schedVars
  BY <1>15, <1>t DEF schedVars, CpuRecord, AtTop, Procs
<1>16. CASE SchedMoves
  BY <1>1, <1>2, <1>3, <1>4, <1>5, <1>6, <1>7, <1>8, <1>9, <1>10, <1>11, <1>12, <1>13, <1>14,
       <1>16 DEF SchedMoves, Schedule, Clock
<1> QED
  BY <1>15, <1>16 DEF SchedNext
-----------------------------------------------------------------------------
(* The queue is a ring of processes.                                       *)
LEMMA QueueTypeStep ==
  ASSUME SchedInv, [SchedNext]_schedVars
  PROVE  /\ ring' \in [0..(NPROC - 1) -> 0..NPROC]
         /\ first' \in 0..(NPROC - 1) /\ last' \in 0..(NPROC - 1)
<1>t. /\ ring \in [Ring -> 0..NPROC] /\ first \in Ring /\ last \in Ring
      /\ Procs \subseteq 0..NPROC /\ Ring = 0..(NPROC - 1)
  <2>1. ring \in [Ring -> 0..NPROC] /\ first \in Ring /\ last \in Ring
    BY DEF SchedInv, SchedTypeOK, Ring
  <2>2. Procs \subseteq 0..NPROC
    BY SchedConstants DEF Procs
  <2> QED BY <2>1, <2>2 DEF Ring
<1>n. (first + 1) % NPROC \in Ring /\ (last + 1) % NPROC \in Ring
  BY <1>t, NextInRing
<1>1. CASE UNCHANGED queueVars
  BY <1>1, <1>t DEF queueVars
<1>2. ASSUME NEW c \in CPUs, Takes(c)
      PROVE  ring' = ring /\ last' = last /\ first' \in Ring
  BY <1>2, <1>n DEF Takes
<1>3. ASSUME NEW p \in Procs, Readies(p)
      PROVE  ring' \in [Ring -> 0..NPROC] /\ last' \in Ring /\ first' = first
  BY <1>3, <1>t, <1>n DEF Readies, Enqueue, queueVars
<1>4. \/ UNCHANGED queueVars
      \/ \E c \in CPUs : Takes(c)
      \/ \E p \in Procs : Readies(p)
  BY Moves DEF Starts, Looks, Stops, Reaped, Rests
<1> QED BY <1>1, <1>2, <1>3, <1>4, <1>t

(* What is remembered of a scan is a set of processes.                     *)
LEMMA SteadyTypeStep ==
  ASSUME SchedInv, [SchedNext]_schedVars
  PROVE  steady' \in [CPUs -> SUBSET Procs]
<1>t. steady \in [CPUs -> SUBSET Procs]
  BY DEF SchedInv, SchedTypeOK
<1>1. CASE Track
  BY <1>t, <1>1 DEF Track
<1>2. CASE UNCHANGED schedVars
  BY <1>t, <1>2 DEF schedVars
<1> QED BY <1>1, <1>2 DEF SchedNext

(* The types are kept.                                                     *)
LEMMA TypeStep ==
  ASSUME SchedInv, [SchedNext]_schedVars
  PROVE  SchedTypeOK'
<1>1. ProcTypes' /\ CountTypes'
  BY ProcTypesStep, CountTypesStep
<1>2. policy' \in Policies
  BY Moves DEF SchedInv, SchedTypeOK
<1>3. /\ ring' \in [0..(NPROC - 1) -> 0..NPROC]
      /\ first' \in 0..(NPROC - 1) /\ last' \in 0..(NPROC - 1)
  BY QueueTypeStep
<1>4. cpu' \in [CPUs -> CpuRecord] /\ steady' \in [CPUs -> SUBSET Procs]
  BY CpuTypeStep, SteadyTypeStep
<1>5. DOMAIN NoPerf = {"ctime", "rutime", "wtime"}
  BY DEF NoPerf
<1> QED BY <1>1, <1>2, <1>3, <1>4, <1>5 DEF ProcTypes, CountTypes, CpuRecord, SchedTypeOK
-----------------------------------------------------------------------------
(* What a process is charged changes with the clock, and when it is made   *)
(* or reaped.                                                              *)
LEMMA ChargedStep ==
  ASSUME SchedInv, [SchedNext]_schedVars
  PROVE  Charged'
<1>t. CountTypes /\ ProcTypes /\ Charged /\ Clocked /\ NPROC \in Nat /\ MaxTicks[policy] \in Nat
  BY SchedConstants DEF SchedInv, SchedTypeOK, CountTypes, ProcTypes, NoPerf
<1>k. /\ ticks \in Nat
      /\ \A q \in Procs : perf[q].ctime \in Nat /\ perf[q].rutime \in Nat /\ perf[q].wtime \in Nat
  BY <1>t DEF CountTypes
<1>w. \A q \in Procs : Owed(q) \in 0..1 /\ (Owed(q) = 1 => ticks > 0)
  BY <1>t DEF Owed, Clocked
<1>f. ASSUME perf' = perf, ticks' = ticks, clock' = clock,
             \A q \in Procs : state'[q] = "UNUSED" => state[q] = "UNUSED"
      PROVE  Charged'
  BY <1>t, <1>f DEF Charged, Owed
<1>1. ASSUME NEW c \in CPUs, Schedule(c), RoundRobin(c)
      PROVE  Charged'
  <2>1. perf' = perf /\ ticks' = ticks /\ clock' = clock
    BY <1>1 DEF Schedule, RoundRobin, Dispatch
  <2>2. \A q \in Procs : state'[q] = "UNUSED" => state[q] = "UNUSED"
    BY <1>1, <1>t DEF Schedule, RoundRobin, Dispatch, ProcTypes
  <2> QED BY <1>f, <2>1, <2>2
<1>2. ASSUME NEW c \in CPUs, Schedule(c), Dequeue(c)
      PROVE  Charged'
  <2>1. perf' = perf /\ ticks' = ticks /\ clock' = clock
    BY <1>2 DEF Schedule, Dequeue
  <2>2. \A q \in Procs : state'[q] = "UNUSED" => state[q] = "UNUSED"
    BY <1>2, <1>t DEF Schedule, Dequeue, ProcTypes
  <2> QED BY <1>f, <2>1, <2>2
<1>3. ASSUME NEW c \in CPUs, Schedule(c), Scan(c)
      PROVE  Charged'
  <2>1. perf' = perf /\ ticks' = ticks /\ clock' = clock
    BY <1>3 DEF Schedule, Scan
  <2>2. \A q \in Procs : state'[q] = "UNUSED" => state[q] = "UNUSED"
    BY <1>3, <1>t DEF Schedule, Scan, ProcTypes
  <2> QED BY <1>f, <2>1, <2>2
<1>4. ASSUME NEW c \in CPUs, Schedule(c), Picked(c)
      PROVE  Charged'
  <2>1. perf' = perf /\ ticks' = ticks /\ clock' = clock
    BY <1>4 DEF Schedule, Picked, Dispatch
  <2>2. \A q \in Procs : state'[q] = "UNUSED" => state[q] = "UNUSED"
    BY <1>4, <1>t DEF Schedule, Picked, Dispatch, ProcTypes
  <2> QED BY <1>f, <2>1, <2>2
<1>5. ASSUME NEW c \in CPUs, OtherTimer(c)
      PROVE  Charged'
  <2>1. perf' = perf /\ ticks' = ticks /\ clock' = clock
    BY <1>5 DEF OtherTimer, Yield
  <2>2. \A q \in Procs : state'[q] = "UNUSED" => state[q] = "UNUSED"
    BY <1>5, <1>t DEF OtherTimer, Yield, ProcTypes
  <2> QED BY <1>f, <2>1, <2>2
<1>6. ASSUME NEW c \in CPUs, NEW p \in Procs, Sleep(c, p)
      PROVE  Charged'
  <2>1. perf' = perf /\ ticks' = ticks /\ clock' = clock
    BY <1>6 DEF Sleep
  <2>2. \A q \in Procs : state'[q] = "UNUSED" => state[q] = "UNUSED"
    BY <1>6, <1>t DEF Sleep, ProcTypes
  <2> QED BY <1>f, <2>1, <2>2
<1>7. ASSUME NEW c \in CPUs, NEW p \in Procs, Exit(c, p)
      PROVE  Charged'
  <2>1. perf' = perf /\ ticks' = ticks /\ clock' = clock
    BY <1>7 DEF Exit
  <2>2. \A q \in Procs : state'[q] = "UNUSED" => state[q] = "UNUSED"
    BY <1>7, <1>t DEF Exit, ProcTypes
  <2> QED BY <1>f, <2>1, <2>2
<1>8. ASSUME NEW c \in CPUs, NEW p \in Procs, SetPriority(c, p)
      PROVE  Charged'
  <2>1. perf' = perf /\ ticks' = ticks /\ clock' = clock
    BY <1>8 DEF SetPriority
  <2>2. \A q \in Procs : state'[q] = "UNUSED" => state[q] = "UNUSED"
    BY <1>8, <1>t DEF SetPriority, ProcTypes
  <2> QED BY <1>f, <2>1, <2>2
<1>9. ASSUME NEW c \in CPUs, NEW p \in Procs, NEW n \in Procs, Fork(c, p, n)
      PROVE  Charged'
  <2>1. perf' = [perf EXCEPT ![n].ctime = ticks] /\ ticks' = ticks /\ clock' = clock
        /\ state' = [state EXCEPT ![n] = "RUNNABLE"] /\ state[n] = "UNUSED"
    BY <1>9 DEF Fork
  <2>2. perf[n] = NoPerf
    BY <1>t, <2>1 DEF Charged
  <2>3. perf'[n].ctime = ticks /\ perf'[n].rutime = 0 /\ perf'[n].wtime = 0
    BY <1>t, <2>1, <2>2 DEF CountTypes, NoPerf
  <2>4. \A q \in Procs : q # n => perf'[q] = perf[q] /\ state'[q] = state[q]
    BY <1>t, <2>1 DEF CountTypes, ProcTypes
  <2>5. \A q \in Procs : Owed(q)' = Owed(q)
    BY <2>1 DEF Owed
  <2>6. state'[n] = "RUNNABLE"
    BY <1>t, <2>1 DEF ProcTypes
  <2>7. Owed(n)' <= IF ticks = 0 THEN 0 ELSE 1
    BY <1>t, <2>5, <1>w
  <2>8. ASSUME NEW q \in Procs
        PROVE  /\ state'[q] = "UNUSED" => perf'[q] = NoPerf
               /\ perf'[q].ctime <= ticks
               /\ perf'[q].rutime + perf'[q].wtime + Owed(q)' + perf'[q].ctime
                    <= ticks + (IF perf'[q].ctime = 0 THEN 0 ELSE 1)
    <3>1. CASE q = n
      BY <1>t, <1>w, <2>3, <2>5, <2>6, <2>7, <3>1 DEF CountTypes
    <3>2. CASE q # n
      BY <1>t, <2>4, <2>5, <3>2 DEF Charged
    <3> QED BY <3>1, <3>2
  <2> QED BY <2>1, <2>8 DEF Charged
<1>10. ASSUME NEW p \in Procs, Wake(p)
      PROVE  Charged'
  <2>1. perf' = perf /\ ticks' = ticks /\ clock' = clock
    BY <1>10 DEF Wake, WakeOne
  <2>2. \A q \in Procs : state'[q] = "UNUSED" => state[q] = "UNUSED"
    BY <1>10, <1>t DEF Wake, WakeOne, ProcTypes
  <2> QED BY <1>f, <2>1, <2>2
<1>11. ASSUME NEW p \in Procs, Reap(p)
      PROVE  Charged'
  <2>1. perf' = [perf EXCEPT ![p] = NoPerf] /\ ticks' = ticks /\ clock' = clock
        /\ state' = [state EXCEPT ![p] = "UNUSED"]
    BY <1>11 DEF Reap
  <2>2. perf'[p] = NoPerf /\ \A q \in Procs : q # p => perf'[q] = perf[q] /\ state'[q] = state[q]
    BY <1>t, <2>1 DEF CountTypes, ProcTypes
  <2>3. \A q \in Procs : Owed(q)' = Owed(q)
    BY <2>1 DEF Owed
  <2>4. NoPerf.ctime = 0 /\ NoPerf.rutime = 0 /\ NoPerf.wtime = 0
    BY DEF NoPerf
  <2>8. ASSUME NEW q \in Procs
        PROVE  /\ state'[q] = "UNUSED" => perf'[q] = NoPerf
               /\ perf'[q].ctime <= ticks
               /\ perf'[q].rutime + perf'[q].wtime + Owed(q)' + perf'[q].ctime
                    <= ticks + (IF perf'[q].ctime = 0 THEN 0 ELSE 1)
    <3>1. CASE q = p
      BY <1>t, <1>w, <2>2, <2>3, <2>4, <3>1 DEF CountTypes
    <3>2. CASE q # p
      BY <1>t, <2>2, <2>3, <3>2 DEF Charged
    <3> QED BY <3>1, <3>2
  <2> QED BY <2>1, <2>8 DEF Charged
<1>12. ASSUME ClockTick
      PROVE  Charged'
  <2>1. perf' = perf /\ state' = state /\ clock = NoClock
        /\ clock' = [NoClock EXCEPT !.pc = "count", !.on = (ticks < MaxTicks[policy])]
        /\ ticks' = IF ticks < MaxTicks[policy] THEN ticks + 1 ELSE ticks
    BY <1>12 DEF ClockTick
  <2>2. \A q \in Procs : Owed(q) = 0
    BY <2>1 DEF Owed, NoClock
  <2>3. clock'.on = (ticks < MaxTicks[policy])
    BY <2>1 DEF NoClock
  <2>4. \A q \in Procs : Owed(q)' = 0 \/ (Owed(q)' = 1 /\ ticks' = ticks + 1)
    BY <2>1, <2>3 DEF Owed
  <2>5. ticks' = ticks \/ ticks' = ticks + 1
    BY <2>1
  <2> QED BY <1>t, <1>k, <2>1, <2>2, <2>4, <2>5 DEF Charged
<1>13. ASSUME NEW p \in Procs, Count(p)
      PROVE  Charged'
  <2>1. ticks' = ticks /\ state' = state /\ clock.pc = "count" /\ clock.i = p
    BY <1>13 DEF Count
  <2>2. /\ clock'.on = clock.on
        /\ IF p < NPROC THEN clock'.i = p + 1 /\ clock'.pc = "count" ELSE clock'.pc = "check"
    BY <1>t, <1>13, <2>1, SlotCounted DEF Count, CountTypes, ClockRecord
  <2>3. Owed(p)' = 0 /\ (clock.on => Owed(p) = 1)
    BY <2>1, <2>2 DEF Owed, Procs
  <2>4. \A q \in Procs : q # p => Owed(q)' = Owed(q)
    BY <1>t, <2>1, <2>2 DEF Owed, Procs
  <2>5. CASE perf' = perf
    <3>1. \A q \in Procs : Owed(q)' <= Owed(q)
      BY <1>w, <2>3, <2>4
    <3>2. \A q \in Procs : Owed(q)' \in 0..1
      BY <1>w, <2>3, <2>4
    <3>8. ASSUME NEW q \in Procs
          PROVE  /\ state'[q] = "UNUSED" => perf'[q] = NoPerf
                 /\ perf'[q].ctime <= ticks
                 /\ perf'[q].rutime + perf'[q].wtime + Owed(q)' + perf'[q].ctime
                      <= ticks + (IF perf'[q].ctime = 0 THEN 0 ELSE 1)
      <4>1. /\ state[q] = "UNUSED" => perf[q] = NoPerf
            /\ perf[q].ctime <= ticks
            /\ perf[q].rutime + perf[q].wtime + Owed(q) + perf[q].ctime
                 <= ticks + (IF perf[q].ctime = 0 THEN 0 ELSE 1)
        BY <1>t DEF Charged
      <4> QED BY <1>k, <1>w, <2>1, <2>5, <3>1, <3>2, <4>1
    <3> QED BY <2>1, <3>8 DEF Charged
  <2>6. CASE perf' # perf
    <3>1. PICK k \in {"wtime", "rutime"} : perf' = [perf EXCEPT ![p][k] = perf[p][k] + 1]
      BY <1>13, <2>6 DEF Count, Counter
    <3>2. clock.on /\ state[p] # "UNUSED"
      BY <1>13, <2>6 DEF Count, Counter
    <3>3. /\ perf'[p].ctime = perf[p].ctime
          /\ perf'[p].rutime + perf'[p].wtime = perf[p].rutime + perf[p].wtime + 1
      <4>1. perf[p].rutime \in Nat /\ perf[p].wtime \in Nat
              /\ perf[p] \in [{"ctime", "rutime", "wtime"} -> 0..MaxTicks[policy]]
        BY <1>k, <1>t DEF CountTypes
      <4>2. perf'[p] = [perf[p] EXCEPT ![k] = perf[p][k] + 1]
        BY <1>t, <3>1 DEF CountTypes
      <4>3. CASE k = "wtime"
        <5>1. perf'[p].wtime = perf[p].wtime + 1 /\ perf'[p].rutime = perf[p].rutime
                /\ perf'[p].ctime = perf[p].ctime
          BY <4>1, <4>2, <4>3
        <5> QED BY <4>1, <5>1
      <4>4. CASE k = "rutime"
        <5>1. perf'[p].rutime = perf[p].rutime + 1 /\ perf'[p].wtime = perf[p].wtime
                /\ perf'[p].ctime = perf[p].ctime
          BY <4>1, <4>2, <4>4
        <5> QED BY <4>1, <5>1
      <4> QED BY <4>3, <4>4
    <3>4. \A q \in Procs : q # p => perf'[q] = perf[q]
      BY <1>t, <3>1 DEF CountTypes
    <3>8. ASSUME NEW q \in Procs
          PROVE  /\ state'[q] = "UNUSED" => perf'[q] = NoPerf
                 /\ perf'[q].ctime <= ticks
                 /\ perf'[q].rutime + perf'[q].wtime + Owed(q)' + perf'[q].ctime
                      <= ticks + (IF perf'[q].ctime = 0 THEN 0 ELSE 1)
      <4>1. CASE q = p
        <5>1. /\ perf[p].ctime <= ticks
              /\ perf[p].rutime + perf[p].wtime + 1 + perf[p].ctime
                   <= ticks + (IF perf[p].ctime = 0 THEN 0 ELSE 1)
          BY <1>t, <2>3, <3>2 DEF Charged
        <5> QED BY <1>k, <2>1, <2>3, <3>2, <3>3, <4>1, <5>1
      <4>2. CASE q # p
        BY <1>t, <2>1, <2>4, <3>4, <4>2 DEF Charged
      <4> QED BY <4>1, <4>2
    <3> QED BY <2>1, <3>8 DEF Charged
  <2> QED BY <2>5, <2>6
<1>14. ASSUME CheckSlice
      PROVE  Charged'
  <2>1. perf' = perf /\ ticks' = ticks /\ clock.pc = "check" /\ clock' = NoClock
    BY <1>14 DEF CheckSlice, Yield
  <2>2. \A q \in Procs : state'[q] = "UNUSED" => state[q] = "UNUSED"
    BY <1>14, <1>t DEF CheckSlice, Yield, ProcTypes
  <2>3. \A q \in Procs : Owed(q)' = 0 /\ Owed(q) = 0
    BY <2>1 DEF Owed, NoClock
  <2> QED BY <1>t, <2>1, <2>2, <2>3 DEF Charged
<1>15. CASE UNCHANGED schedVars
  BY <1>15, <1>f DEF schedVars
<1>16. CASE SchedMoves
  BY <1>1, <1>2, <1>3, <1>4, <1>5, <1>6, <1>7, <1>8, <1>9, <1>10, <1>11, <1>12, <1>13, <1>14,
       <1>16 DEF SchedMoves, Schedule, Clock
<1> QED
  BY <1>15, <1>16 DEF SchedNext
(* CPU 0 sees the end of the slice of what it runs.                        *)
LEMMA ClockedStep ==
  ASSUME SchedInv, [SchedNext]_schedVars
  PROVE  Clocked'
<1>t. /\ CountTypes /\ ProcTypes /\ Running /\ Clocked /\ cpu \in [CPUs -> CpuRecord] /\ 0 \in CPUs
      /\ NPROC \in Nat /\ QUANTUM \in Nat /\ QUANTUM > 0 /\ MaxTicks[policy] \in Nat
  <2>1. CountTypes /\ ProcTypes /\ Running /\ Clocked
    BY DEF SchedInv, SchedTypeOK, CountTypes, ProcTypes, NoPerf
  <2>2. cpu \in [CPUs -> CpuRecord] /\ policy \in Policies
    BY DEF SchedInv, SchedTypeOK, CpuRecord
  <2>3. 0 \in CPUs
    BY SchedConstants DEF CPUs
  <2>4. NPROC \in Nat /\ QUANTUM \in Nat /\ QUANTUM > 0 /\ MaxTicks[policy] \in Nat
    BY <2>2, SchedConstants
  <2> QED BY <2>1, <2>2, <2>3, <2>4
<1>l. \A c \in CPUs : ToScheduler(c) => cpu'[c].pc = "loop" /\ Others(c)
  BY LeavesCpu
<1>f. ASSUME clock' = clock, ticks' = ticks, policy' = policy, curRun' = curRun,
             cpu'[0].pc = "run" => cpu[0].pc = "run" /\ cpu'[0].p = cpu[0].p
      PROVE  Clocked'
  BY <1>t, <1>f DEF Clocked
<1>d. ASSUME NEW c \in CPUs, NEW p \in Procs, Dispatch(c, p), state[p] = "RUNNABLE", Free(c),
             clock' = clock, ticks' = ticks, policy' = policy
      PROVE  Clocked'
  <2>1. /\ curRun'[p] = 0 /\ \A q \in Procs : q # p => curRun'[q] = curRun[q]
        /\ cpu'[c].pc = "run" /\ cpu'[c].p = p /\ Others(c)
    BY <1>d, <1>t DEF Dispatch, ProcTypes, AtTop, Others
  <2>2. CASE c = 0
    <3>1. clock.pc = "off"
      BY <1>d, <2>2 DEF Free, NoClock
    <3> QED BY <1>d, <1>t, <2>1, <2>2, <3>1 DEF Clocked
  <2>3. CASE c # 0
    <3>1. cpu'[0] = cpu[0]
      BY <1>t, <2>1, <2>3 DEF Others
    <3>2. cpu[0].pc = "run" => cpu[0].p # p /\ cpu[0].p \in Procs
      BY <1>d, <1>t DEF Running
    <3> QED BY <1>d, <1>t, <2>1, <3>1, <3>2 DEF Clocked
  <2> QED BY <2>2, <2>3
<1>1. ASSUME NEW c \in CPUs, Schedule(c), RoundRobin(c)
      PROVE  Clocked'
  <2>1. clock' = clock /\ ticks' = ticks /\ policy' = policy /\ Free(c) /\ cpu[c].i \in Procs
          /\ cpu[c].pc = "loop"
    BY <1>1, <1>t DEF Schedule, RoundRobin, CpuRecord
  <2>2. CASE state[cpu[c].i] = "RUNNABLE"
    <3>1. Dispatch(c, cpu[c].i)
      BY <1>1, <2>2 DEF RoundRobin
    <3> QED BY <1>d, <2>1, <2>2, <3>1
  <2>3. CASE state[cpu[c].i] # "RUNNABLE"
    <3>1. cpu' = [cpu EXCEPT ![c].i = (cpu[c].i % NPROC) + 1] /\ curRun' = curRun
      BY <1>1, <2>3 DEF RoundRobin
    <3>2. cpu'[0].pc = "run" => cpu[0].pc = "run" /\ cpu'[0].p = cpu[0].p
      BY <1>t, <3>1 DEF CpuRecord
    <3> QED BY <1>f, <2>1, <3>1, <3>2
  <2> QED BY <2>2, <2>3
<1>2. ASSUME NEW c \in CPUs, Schedule(c), Dequeue(c)
      PROVE  Clocked'
  <2>1. clock' = clock /\ ticks' = ticks /\ policy' = policy /\ curRun' = curRun
    BY <1>2 DEF Schedule, Dequeue, procVars
  <2>2. cpu'[0].pc = "run" => cpu[0].pc = "run" /\ cpu'[0].p = cpu[0].p
    BY <1>2, <1>t, <1>l DEF Schedule, Dequeue, Others, CpuRecord
  <2> QED BY <1>f, <2>1, <2>2
<1>3. ASSUME NEW c \in CPUs, Schedule(c), Scan(c)
      PROVE  Clocked'
  <2>1. clock' = clock /\ ticks' = ticks /\ policy' = policy /\ curRun' = curRun
    BY <1>3 DEF Schedule, Scan
  <2>2. cpu'[c].pc # "run" /\ Others(c)
    <3>0. cpu[c].i \in Procs
      BY <1>t DEF CpuRecord
    <3>1. cpu[c].i < NPROC \/ cpu[c].i = NPROC
      BY <1>t, <3>0 DEF Procs
    <3>2. SchedTypeOK /\ AtTop.pc = "loop"
      BY DEF SchedInv, AtTop
    <3> QED BY <1>3, <3>1, <3>2, ScanDoes
  <2>3. cpu'[0].pc = "run" => cpu[0].pc = "run" /\ cpu'[0].p = cpu[0].p
    BY <1>t, <2>2 DEF Others
  <2> QED BY <1>f, <2>1, <2>3
<1>4. ASSUME NEW c \in CPUs, Schedule(c), Picked(c)
      PROVE  Clocked'
  <2>1. clock' = clock /\ ticks' = ticks /\ policy' = policy /\ Free(c) /\ cpu[c].p \in Procs
    BY <1>4, <1>t DEF Schedule, Picked, Running
  <2>2. CASE Dispatch(c, cpu[c].p)
    <3>1. policy = "FCFS" \/ state[cpu[c].p] = "RUNNABLE"
      <4>1. cpu'[c].pc = "run"
        BY <2>2, <1>t DEF Dispatch, AtTop
      <4>2. policy # "FCFS" /\ state[cpu[c].p] # "RUNNABLE" => cpu'[c] = AtTop
        BY <1>4, <1>t DEF Picked
      <4> QED BY <4>1, <4>2 DEF AtTop
    <3>2. CASE policy = "FCFS"
      <4>1. /\ clock'.pc = "off" => clock' = NoClock
            /\ clock'.pc = "count" /\ clock'.on => ticks' > 0
        BY <1>t, <2>1 DEF Clocked
      <4>2. policy' = "FCFS"
        BY <2>1, <3>2
      <4> QED BY <4>1, <4>2 DEF Clocked
    <3> QED BY <1>d, <2>1, <2>2, <3>1, <3>2
  <2>3. CASE ~Dispatch(c, cpu[c].p)
    <3>1. cpu' = [cpu EXCEPT ![c] = AtTop] /\ curRun' = curRun
      BY <1>4, <2>3 DEF Picked
    <3>2. cpu'[0].pc = "run" => cpu[0].pc = "run" /\ cpu'[0].p = cpu[0].p
      BY <1>t, <3>1 DEF AtTop
    <3> QED BY <1>f, <2>1, <3>1, <3>2
  <2> QED BY <2>2, <2>3
<1>5. ASSUME NEW c \in CPUs, OtherTimer(c)
      PROVE  Clocked'
  <2>1. clock' = clock /\ ticks' = ticks /\ policy' = policy /\ curRun' = curRun
    BY <1>5 DEF OtherTimer, Yield, procVars
  <2>2. cpu'[0].pc = "run" => cpu[0].pc = "run" /\ cpu'[0].p = cpu[0].p
    BY <1>5, <1>t, <1>l DEF OtherTimer, Yield, Others, CpuRecord
  <2> QED BY <1>f, <2>1, <2>2
<1>6. ASSUME NEW c \in CPUs, NEW p \in Procs, Sleep(c, p)
      PROVE  Clocked'
  <2>1. clock' = clock /\ ticks' = ticks /\ policy' = policy /\ curRun' = curRun
    BY <1>6 DEF Sleep, procVars
  <2>2. cpu'[0].pc = "run" => cpu[0].pc = "run" /\ cpu'[0].p = cpu[0].p
    BY <1>6, <1>t, <1>l DEF Sleep, Others, CpuRecord
  <2> QED BY <1>f, <2>1, <2>2
<1>7. ASSUME NEW c \in CPUs, NEW p \in Procs, Exit(c, p)
      PROVE  Clocked'
  <2>1. clock' = clock /\ ticks' = ticks /\ policy' = policy /\ curRun' = curRun
    BY <1>7 DEF Exit, procVars
  <2>2. cpu'[0].pc = "run" => cpu[0].pc = "run" /\ cpu'[0].p = cpu[0].p
    BY <1>7, <1>t, <1>l DEF Exit, Others, CpuRecord
  <2> QED BY <1>f, <2>1, <2>2
<1>8. ASSUME NEW c \in CPUs, NEW p \in Procs, SetPriority(c, p)
      PROVE  Clocked'
  <2>1. clock' = clock /\ ticks' = ticks /\ policy' = policy /\ curRun' = curRun
    BY <1>8 DEF SetPriority, procVars
  <2>2. cpu'[0].pc = "run" => cpu[0].pc = "run" /\ cpu'[0].p = cpu[0].p
    BY <1>8, <1>t, <1>l DEF SetPriority, Others, CpuRecord
  <2> QED BY <1>f, <2>1, <2>2
<1>9. ASSUME NEW c \in CPUs, NEW p \in Procs, NEW n \in Procs, Fork(c, p, n)
      PROVE  Clocked'
  <2>1. clock' = clock /\ ticks' = ticks /\ policy' = policy /\ curRun' = curRun
    BY <1>9 DEF Fork, procVars
  <2>2. cpu'[0].pc = "run" => cpu[0].pc = "run" /\ cpu'[0].p = cpu[0].p
    BY <1>9, <1>t, <1>l DEF Fork, Others, CpuRecord
  <2> QED BY <1>f, <2>1, <2>2
<1>10. ASSUME NEW p \in Procs, Wake(p)
      PROVE  Clocked'
  <2>1. clock' = clock /\ ticks' = ticks /\ policy' = policy /\ curRun' = curRun
    BY <1>10 DEF Wake, procVars
  <2>2. cpu'[0].pc = "run" => cpu[0].pc = "run" /\ cpu'[0].p = cpu[0].p
    BY <1>10, <1>t, <1>l DEF Wake, Others, CpuRecord
  <2> QED BY <1>f, <2>1, <2>2
<1>11. ASSUME NEW p \in Procs, Reap(p)
      PROVE  Clocked'
  <2>1. clock' = clock /\ ticks' = ticks /\ policy' = policy /\ curRun' = curRun
    BY <1>11 DEF Reap, procVars
  <2>2. cpu'[0].pc = "run" => cpu[0].pc = "run" /\ cpu'[0].p = cpu[0].p
    BY <1>11, <1>t, <1>l DEF Reap, Others, CpuRecord
  <2> QED BY <1>f, <2>1, <2>2
<1>12. ASSUME ClockTick
      PROVE  Clocked'
  <2>1. clock = NoClock /\ curRun' = curRun /\ cpu' = cpu /\ policy' = policy
        /\ ticks' = IF ticks < MaxTicks[policy] THEN ticks + 1 ELSE ticks
    BY <1>12 DEF ClockTick, procVars
  <2>2. clock'.pc = "count" /\ clock'.i = 1 /\ (clock'.on <=> ticks < MaxTicks[policy])
    BY <1>12 DEF ClockTick, NoClock
  <2>3. clock.pc = "off"
    BY <2>1 DEF NoClock
  <2>4. cpu[0].pc = "run" => 1 <= cpu[0].p
    BY <1>t DEF Running, Procs
  <2> QED BY <1>t, <2>1, <2>2, <2>3, <2>4 DEF Clocked, CountTypes
<1>13. ASSUME NEW p \in Procs, Count(p)
      PROVE  Clocked'
  <2>1. ticks' = ticks /\ cpu' = cpu /\ policy' = policy /\ clock.pc = "count" /\ clock.i = p
    BY <1>13 DEF Count
  <2>2. /\ clock'.on = clock.on
        /\ IF p < NPROC THEN clock'.i = p + 1 /\ clock'.pc = "count" ELSE clock'.pc = "check"
    BY <1>t, <1>13, <2>1, SlotCounted DEF Count, CountTypes, ClockRecord
  <2>3. \A q \in Procs : q # p => curRun'[q] = curRun[q]
    BY <1>13, <1>t DEF Count, ProcTypes
  <2>4. curRun'[p] = curRun[p] \/ curRun'[p] = curRun[p] + 1
    BY <1>13, <1>t DEF Count, ProcTypes
  <2>5. ASSUME policy # "FCFS", cpu[0].pc = "run"
        PROVE  curRun'[cpu[0].p] < QUANTUM + (IF clock'.pc = "count"
                 /\ clock'.i <= cpu[0].p THEN 0 ELSE 1)
    <3>0. cpu[0].p \in Procs /\ curRun[cpu[0].p] \in Nat
          /\ curRun[cpu[0].p] < QUANTUM + (IF p <= cpu[0].p THEN 0 ELSE 1)
      BY <1>t, <2>1, <2>5 DEF Running, Clocked, ProcTypes
    <3>1. CASE cpu[0].p = p
      BY <1>t, <2>2, <2>4, <3>0, <3>1 DEF Procs
    <3>2. CASE cpu[0].p # p
      BY <1>t, <2>2, <2>3, <3>0, <3>2 DEF Procs
    <3> QED BY <3>1, <3>2
  <2> QED BY <1>t, <2>1, <2>2, <2>5 DEF Clocked
<1>14. ASSUME CheckSlice
      PROVE  Clocked'
  <2>1. ticks' = ticks /\ curRun' = curRun /\ policy' = policy /\ clock.pc = "check"
          /\ clock' = NoClock
    BY <1>14 DEF CheckSlice, Yield, procVars
  <2>2. NoClock.pc = "off"
    BY DEF NoClock
  <2>3. CASE SliceUsed(0)
    <3>1. cpu'[0].pc = "loop"
      BY <1>14, <1>t, <2>3, LeavesCpu DEF CheckSlice, Yield
    <3> QED BY <2>1, <2>2, <3>1 DEF Clocked
  <2>4. CASE ~SliceUsed(0)
    <3>1. cpu' = cpu
      BY <1>14, <2>4 DEF CheckSlice
    <3>2. policy # "FCFS" /\ cpu[0].pc = "run" => curRun[cpu[0].p] < QUANTUM
      <4> SUFFICES ASSUME policy # "FCFS", cpu[0].pc = "run"
                   PROVE  curRun[cpu[0].p] < QUANTUM
        OBVIOUS
      <4>1. cpu[0].p \in Procs /\ curRun[cpu[0].p] # QUANTUM
        BY <1>t, <2>4 DEF SliceUsed, Running
      <4>2. curRun[cpu[0].p] \in Nat /\ curRun[cpu[0].p] < QUANTUM + 1
        BY <1>t, <2>1, <4>1 DEF Clocked, ProcTypes
      <4> QED BY <1>t, <4>1, <4>2
    <3> QED BY <1>t, <2>1, <2>2, <3>1, <3>2 DEF Clocked
  <2> QED BY <2>3, <2>4
<1>15. CASE UNCHANGED schedVars
  BY <1>15, <1>f DEF schedVars
<1>16. CASE SchedMoves
  BY <1>1, <1>2, <1>3, <1>4, <1>5, <1>6, <1>7, <1>8, <1>9, <1>10, <1>11, <1>12, <1>13, <1>14,
       <1>16 DEF SchedMoves, Schedule, Clock
<1> QED
  BY <1>15, <1>16 DEF SchedNext
-----------------------------------------------------------------------------
(* At first one process is there, and no CPU runs it.                      *)
LEMMA InitSound ==
  ASSUME SchedInit
  PROVE  SchedInv
<1>c. /\ NPROC \in Nat /\ NPROC > 0 /\ QUANTUM \in Nat /\ QUANTUM > 0 /\ NORMALP \in Decays
      /\ MaxTicks[policy] \in Nat /\ 1 \in Procs /\ policy \in Policies /\ QUANTUM * 100 \in Nat
  BY SchedConstants DEF SchedInit, Procs
<1>1. SchedTypeOK
  <2>1. ProcTypes
    BY <1>c DEF SchedInit, ProcTypes
  <2>2. CountTypes
    BY <1>c DEF SchedInit, CountTypes, NoPerf, NoClock
  <2>3. cpu \in [CPUs -> CpuRecord]
    BY TopTypes DEF SchedInit
  <2>4. /\ ring \in [0..(NPROC - 1) -> 0..NPROC]
        /\ first \in 0..(NPROC - 1) /\ last \in 0..(NPROC - 1)
    <3>1. 1 % NPROC \in 0..(NPROC - 1)
      BY <1>c
    <3> QED BY <1>c, <3>1 DEF SchedInit
  <2>5. steady \in [CPUs -> SUBSET Procs]
    BY DEF SchedInit
  <2>6. DOMAIN NoPerf = {"ctime", "rutime", "wtime"}
    BY DEF NoPerf
  <2> QED BY <1>c, <2>1, <2>2, <2>3, <2>4, <2>5, <2>6 DEF ProcTypes, CountTypes, CpuRecord,
               SchedTypeOK
<1>t. \A c \in CPUs : cpu[c] = AtTop /\ cpu[c].pc = "loop"
  BY DEF SchedInit, AtTop
<1>2. Running
  BY <1>t DEF SchedInit, Running
<1>3. Ready
  <2> SUFFICES ASSUME policy = "FCFS"
               PROVE  Ready
    BY DEF Ready
  <2>1. first = 0 /\ last = (IF NPROC = 1 THEN 0 ELSE 1)
    BY <1>c, Remainder DEF SchedInit
  <2>2. \A k \in Ring : Used(k) => k = 0 /\ ring[k] = 1
    BY <1>c, <2>1 DEF Used, Ring, SchedInit
  <2>3. state[1] = "RUNNABLE"
    BY <1>c DEF SchedInit
  <2> QED BY <1>c, <1>t, <2>2, <2>3 DEF Ready
<1>4. Charged
  BY DEF SchedInit, Charged, Owed, NoPerf, NoClock
<1>5. Clocked
  <2>1. 0 \in CPUs
    BY SchedConstants DEF CPUs
  <2> QED BY <1>t, <2>1 DEF SchedInit, Clocked, NoClock
<1> QED BY <1>1, <1>2, <1>3, <1>4, <1>5 DEF SchedInv

(* The invariant holds in every reachable state.                           *)
THEOREM SchedulersInvariant == Spec => []SchedInv
<1>1. SchedInit => SchedInv
  BY InitSound
<1>2. SchedInv /\ [SchedNext]_schedVars => SchedInv'
  <2> SUFFICES ASSUME SchedInv, [SchedNext]_schedVars
               PROVE  SchedInv'
    OBVIOUS
  <2>1. SchedTypeOK' /\ Running' /\ Ready' /\ Charged' /\ Clocked'
    BY TypeStep, RunningStep, ReadyStep, ChargedStep, ClockedStep
  <2> QED BY <2>1 DEF SchedInv
<1> QED BY <1>1, <1>2, PTL DEF Spec
-----------------------------------------------------------------------------
(* A function without repetitions has as many values as arguments.         *)
LEMMA ImageSize ==
  ASSUME NEW S, IsFiniteSet(S), NEW f, f = [x \in S |-> f[x]],
         \A x, y \in S : f[x] = f[y] => x = y
  PROVE  Cardinality({f[x] : x \in S}) = Cardinality(S)
<1> DEFINE T == {f[x] : x \in S}
<1>1. f \in [S -> T]
  OBVIOUS
<1>2. \A y \in T : \E x \in S : f[x] = y
  OBVIOUS
<1> HIDE DEF T
<1>3. f \in Bijection(S, T)
  BY <1>1, <1>2, Fun_IsBij
<1>4. ExistsBijection(S, T)
  BY <1>3 DEF ExistsBijection
<1>5. Cardinality(T) = Cardinality(S)
  BY <1>4, FS_Bijection
<1> QED BY <1>5 DEF T

(* The slots in use, and what is in them, ...                              *)
UsedSlots == {k \in Ring : Used(k)}
InQueue == Queued = {ring[k] : k \in UsedSlots} /\ Slots = UsedSlots

(* ... make up the queue.                                                  *)
LEMMA QueueIs ==
  SchedTypeOK => InQueue
BY SlotsAre DEF SchedTypeOK, Ring, Queued, InQueue, UsedSlots

(* The queue has no repetitions, so it is as long as it has members.       *)
LEMMA QueueLength ==
  ASSUME SchedInv, policy = "FCFS"
  PROVE  /\ Cardinality(Queued) = Cardinality(Slots)
         /\ IsFiniteSet(UsedSlots) /\ IsFiniteSet(Ring) /\ Cardinality(Ring) = NPROC
<1>1. Queued = {ring[k] : k \in UsedSlots} /\ Slots = UsedSlots
  BY QueueIs DEF SchedInv, InQueue
<1>2. IsFiniteSet(Ring) /\ Cardinality(Ring) = NPROC
  <2>1. NPROC \in Nat /\ NPROC > 0 /\ 0 \in Int /\ NPROC - 1 \in Int /\ ~(0 > NPROC - 1)
        /\ (NPROC - 1) - 0 + 1 = NPROC
    BY SchedConstants
  <2> QED BY <2>1, FS_Interval DEF Ring
<1>3. IsFiniteSet(UsedSlots)
  BY <1>2, FS_Subset DEF UsedSlots
<1> DEFINE f == [k \in UsedSlots |-> ring[k]]
<1>4. \A j, k \in UsedSlots : f[j] = f[k] => j = k
  BY DEF SchedInv, Ready, UsedSlots
<1>5. f = [k \in UsedSlots |-> f[k]]
  OBVIOUS
<1>6. Queued = {f[k] : k \in UsedSlots}
  BY <1>1
<1> HIDE DEF f
<1>7. Cardinality({f[k] : k \in UsedSlots}) = Cardinality(UsedSlots)
  BY <1>3, <1>4, <1>5, ImageSize
<1> QED BY <1>1, <1>2, <1>3, <1>6, <1>7

(* A process runs on as many CPUs as its state says.                       *)
LEMMA OneCpu == SchedInv => OneCpuPerProc
<1> SUFFICES ASSUME SchedInv, NEW p \in Procs
             PROVE  Cardinality({c \in CPUs : cpu[c].pc = "run" /\ cpu[c].p = p})
                      = IF state[p] = "RUNNING" THEN 1 ELSE 0
  BY DEF OneCpuPerProc
<1> DEFINE S == {c \in CPUs : cpu[c].pc = "run" /\ cpu[c].p = p}
<1>t. Running
  BY DEF SchedInv
<1>1. CASE state[p] = "RUNNING"
  <2>1. PICK c \in CPUs : cpu[c].pc = "run" /\ cpu[c].p = p
    BY <1>t, <1>1 DEF Running
  <2>2. S = {c}
    BY <1>t, <2>1 DEF Running
  <2> HIDE DEF S
  <2>3. Cardinality(S) = 1
    BY <2>2, FS_Singleton
  <2> QED BY <1>1, <2>3 DEF S
<1>2. CASE state[p] # "RUNNING"
  <2>1. S = {}
    BY <1>t, <1>2 DEF Running
  <2> HIDE DEF S
  <2>2. Cardinality(S) = 0
    BY <2>1, FS_EmptySet
  <2> QED BY <1>2, <2>2 DEF S
<1> QED BY <1>1, <1>2

(* What waits is RUNNABLE, and waits once.                                 *)
LEMMA OnceInQueue == SchedInv => QueueIsReady
<1> SUFFICES ASSUME SchedInv, policy = "FCFS"
             PROVE  QueueIsReady
  BY DEF QueueIsReady
<1> DEFINE taken == {c \in CPUs : cpu[c].pc = "picked"}
           picked == {cpu[c].p : c \in taken}
           f == [c \in taken |-> cpu[c].p]
<1>t. Ready /\ Running /\ SchedTypeOK
  BY DEF SchedInv
<1>1. Queued = {ring[k] : k \in UsedSlots}
  BY <1>t, QueueIs DEF InQueue
<1>2. \A p \in Queued \cup picked : state[p] = "RUNNABLE"
  BY <1>1, <1>t DEF Ready, UsedSlots
<1>3. Queued \cap picked = {}
  BY <1>1, <1>t DEF Ready, UsedSlots
<1>4. Cardinality(Queued) = Cardinality(Slots)
  BY QueueLength
<1>5. IsFiniteSet(taken)
  <2>1. IsFiniteSet(CPUs)
    BY SchedConstants, FS_Interval DEF CPUs
  <2> QED BY <2>1, FS_Subset
<1>6. \A c, d \in taken : f[c] = f[d] => c = d
  BY <1>t DEF Ready
<1>7. f = [c \in taken |-> f[c]] /\ picked = {f[c] : c \in taken}
  OBVIOUS
<1> HIDE DEF f, taken
<1>8. Cardinality({f[c] : c \in taken}) = Cardinality(taken)
  BY <1>5, <1>6, <1>7, ImageSize
<1>9. Cardinality(picked) = Cardinality(taken)
  BY <1>7, <1>8
<1> QED BY <1>2, <1>3, <1>4, <1>9 DEF QueueIsReady, taken

(* The counters and the slice are true to the clock.                       *)
LEMMA TrueToClock == SchedInv => TicksRight
<1> SUFFICES ASSUME SchedInv
             PROVE  TicksCountedOnce /\ SliceKept
  BY DEF TicksRight
<1>t. CountTypes /\ Charged /\ Clocked /\ MaxTicks[policy] \in Nat /\ QUANTUM \in Nat
  BY SchedConstants DEF SchedInv, SchedTypeOK, CountTypes, NoPerf
<1>1. ASSUME NEW p \in Procs
      PROVE  perf[p].rutime + perf[p].wtime <= ticks - perf[p].ctime + 1
  <2>1. perf[p].rutime \in Nat /\ perf[p].wtime \in Nat /\ perf[p].ctime \in Nat /\ ticks \in Nat
    BY <1>t DEF CountTypes
  <2>2. perf[p].rutime + perf[p].wtime + Owed(p) + perf[p].ctime
          <= ticks + (IF perf[p].ctime = 0 THEN 0 ELSE 1)
    BY <1>t DEF Charged
  <2>3. Owed(p) \in {0, 1}
    BY DEF Owed
  <2> QED BY <2>1, <2>2, <2>3
<1>2. TicksCountedOnce
  BY <1>1 DEF TicksCountedOnce
<1>3. SliceKept
  <2> SUFFICES ASSUME policy # "FCFS", cpu[0].pc = "run"
               PROVE  curRun[cpu[0].p] < QUANTUM + (IF clock = NoClock THEN 0 ELSE 1)
    BY DEF SliceKept
  <2>1. cpu[0].p \in Procs /\ curRun[cpu[0].p] \in Nat
    <3>1. 0 \in CPUs
      BY SchedConstants DEF CPUs
    <3> QED BY <3>1 DEF SchedInv, Running, SchedTypeOK
  <2>2. NoClock.pc = "off"
    BY DEF NoClock
  <2>3. CASE clock = NoClock
    BY <1>t, <2>2, <2>3 DEF Clocked
  <2>4. CASE clock # NoClock
    BY <1>t, <2>1, <2>4 DEF Clocked
  <2> QED BY <2>3, <2>4
<1> QED BY <1>2, <1>3

(* Every process is in one place, on a CPU, in the queue or neither, and   *)
(* what it is charged is true to the clock, whichever policy chooses       *)
(* (the schedulers of ass1/kernel/proc.c).                                 *)
THEOREM EverybodyInOnePlace == Spec => []SchedConsistent
<1>1. SchedInv => SchedConsistent
  <2>1. SchedInv => SchedTypeOK
    BY DEF SchedInv
  <2> QED BY <2>1, OneCpu, OnceInQueue, TrueToClock DEF SchedConsistent, InOnePlace
<1> QED BY <1>1, SchedulersInvariant, PTL
-----------------------------------------------------------------------------
(* The queue in the next state.                                            *)
LEMMA NextQueueIs ==
  SchedTypeOK' => Queued' = {ring'[k] : k \in UsedSlots'}
<1>1. SchedTypeOK' => InQueue'
  BY QueueIs, PTL
<1> QED BY <1>1 DEF InQueue

(* A full ring: all the other processes are in it.                         *)
LEMMA FullRing ==
  ASSUME SchedInv, policy = "FCFS", (last + 1) % NPROC = first,
         NEW p \in Procs, state[p] # "RUNNABLE"
  PROVE  Queued = Procs \ {p}
<1>t. /\ first \in Ring /\ last \in Ring /\ Ready /\ NPROC \in Nat /\ NPROC > 0
  BY SchedConstants DEF SchedInv, SchedTypeOK, Ring
<1>1. Queued = {ring[k] : k \in UsedSlots} /\ Slots = UsedSlots
  BY QueueIs DEF SchedInv, InQueue
<1>2. Queued \subseteq Procs \ {p}
  BY <1>t, <1>1 DEF Ready, UsedSlots
<1>3. UsedSlots = Ring \ {last}
  <2>1. first = (IF last = NPROC - 1 THEN 0 ELSE last + 1)
    BY <1>t, NextInRing
  <2> QED BY <1>t, <2>1 DEF UsedSlots, Used, Ring
<1>4. IsFiniteSet(Ring) /\ Cardinality(Ring) = NPROC /\ Cardinality(Queued) = Cardinality(Slots)
  BY QueueLength
<1>5. Cardinality(UsedSlots) = NPROC - 1
  BY <1>t, <1>3, <1>4, FS_RemoveElement
<1>6. IsFiniteSet(Procs) /\ Cardinality(Procs) = NPROC
  <2>1. 1 \in Int /\ NPROC \in Int /\ ~(1 > NPROC) /\ NPROC - 1 + 1 = NPROC
    BY <1>t
  <2> QED BY <2>1, FS_Interval DEF Procs
<1>7. IsFiniteSet(Procs \ {p}) /\ Cardinality(Procs \ {p}) = NPROC - 1
  BY <1>6, FS_RemoveElement
<1> QED BY <1>1, <1>2, <1>4, <1>5, <1>7, FS_Subset

(* One step of the queue.                                                  *)
LEMMA ForgottenStep ==
  ASSUME SchedInv, SchedInv', [SchedNext]_schedVars, policy = "FCFS"
  PROVE  /\ \A p \in Procs :
              /\ state[p] # "RUNNABLE"
                  /\ state'[p] = "RUNNABLE" => p \in Queued' \/ Queued = Procs \ {p}
              /\ p \in Queued /\ p \notin Queued' => p = ring[first]
         /\ Queued # {} /\ Queued' # {} /\ ring[first] \in Queued' => ring'[first'] = ring[first]
<1> DEFINE G == /\ \A p \in Procs :
                     /\ state[p] # "RUNNABLE"
                         /\ state'[p] = "RUNNABLE" => p \in Queued' \/ Queued = Procs \ {p}
                     /\ p \in Queued /\ p \notin Queued' => p = ring[first]
                /\ Queued # {} /\ Queued' # {}
                    /\ ring[first] \in Queued' => ring'[first'] = ring[first]
<1> SUFFICES G
  OBVIOUS
<1>t. SchedTypeOK /\ Ready /\ Running /\ first \in Ring /\ last \in Ring
  BY DEF SchedInv, SchedTypeOK, Ring
<1>q. Queued = {ring[k] : k \in UsedSlots} /\ Queued' = {ring'[k] : k \in UsedSlots'}
  BY QueueIs, NextQueueIs DEF SchedInv, InQueue
<1>f. ASSUME UNCHANGED queueVars, \A p \in Procs : state'[p] = "RUNNABLE" => state[p] = "RUNNABLE"
      PROVE  G
  <2>1. Queued' = Queued /\ ring'[first'] = ring[first]
    BY <1>f, <1>q DEF queueVars, UsedSlots, Used
  <2> QED BY <1>f, <2>1
<1>1. ASSUME NEW c \in CPUs, NEW p \in Procs, Starts(c, p)
      PROVE  G
  BY <1>f, <1>1 DEF Starts, Becomes
<1>2. ASSUME NEW c \in CPUs, Takes(c)
      PROVE  G
  <2>1. /\ first \in Ring /\ Used(first) /\ ring' = ring /\ state' = state
        /\ \A k \in Ring : Used(k)' <=> Used(k) /\ k # first
    BY <1>t, <1>2, DequeueFrees DEF Takes
  <2>2. ASSUME NEW p \in Queued, p \notin Queued'
        PROVE  p = ring[first]
    BY <1>q, <2>1, <2>2 DEF UsedSlots
  <2>3. ring[first] \notin Queued'
    BY <1>q, <1>t, <2>1 DEF UsedSlots, Ready
  <2> QED BY <2>1, <2>2, <2>3
<1>3. ASSUME NEW c \in CPUs, NEW s \in {"RUNNABLE", "SLEEPING", "ZOMBIE"}, Stops(c, s)
      PROVE  G
  BY <1>f, <1>3 DEF Stops, Becomes
<1>4. ASSUME NEW p \in Procs, Readies(p)
      PROVE  G
  <2>0. state[p] # "RUNNABLE" /\ \A q \in Procs : q # p => state'[q] = state[q]
    BY <1>4 DEF Readies, Becomes
  <2>1. CASE (last + 1) % NPROC # first
    <3>1. /\ last \in Ring /\ ~Used(last) /\ first' = first
          /\ ring'[last] = p /\ \A k \in Ring : k # last => ring'[k] = ring[k]
          /\ \A k \in Ring : Used(k)' <=> Used(k) \/ k = last
      BY <1>t, <1>4, <2>1, EnqueueUses DEF Readies
    <3>2. p \in Queued'
      BY <1>q, <3>1 DEF UsedSlots
    <3>3. Queued \subseteq Queued'
      BY <1>q, <3>1 DEF UsedSlots
    <3>4. Queued # {} => first # last
      BY <1>q, <1>t DEF UsedSlots, Used, Ring
    <3>5. Queued # {} => ring'[first'] = ring[first]
      BY <1>t, <3>1, <3>4
    <3> QED BY <2>0, <3>2, <3>3, <3>5
  <2>2. CASE (last + 1) % NPROC = first
    <3>1. UNCHANGED queueVars
      BY <1>4, <2>2 DEF Readies, Enqueue
    <3>2. Queued' = Queued /\ ring'[first'] = ring[first]
      BY <1>q, <3>1 DEF queueVars, UsedSlots, Used
    <3>3. Queued = Procs \ {p}
      BY <2>0, <2>2, FullRing
    <3> QED BY <2>0, <3>2, <3>3
  <2> QED BY <2>1, <2>2
<1>5. ASSUME NEW p \in Procs, Reaped(p) \/ Rests
      PROVE  G
  BY <1>f, <1>5 DEF Reaped, Rests, Becomes
<1>6. \A c \in CPUs : ~Looks(c)
  BY DEF Looks
<1>7. 1 \in Procs
  BY SchedConstants DEF Procs
<1> HIDE DEF G
<1> QED BY <1>1, <1>2, <1>3, <1>4, <1>5, <1>6, <1>7, Moves

(* FCFS: a process that becomes RUNNABLE is queued unless all the others   *)
(* are, and keeps its place until it is the oldest and taken (enqueue and  *)
(* dequeue of ass1/kernel/proc.c).                                         *)
THEOREM QueueForgetsNobody == Spec => NobodyForgotten
<1>1. SchedInv /\ SchedInv' /\ [SchedNext]_schedVars =>
        [policy = "FCFS" =>
           /\ \A p \in Procs :
                /\ state[p] # "RUNNABLE"
                    /\ state'[p] = "RUNNABLE" => p \in Queued' \/ Queued = Procs \ {p}
                /\ p \in Queued /\ p \notin Queued' => p = ring[first]
           /\ Queued # {} /\ Queued' # {}
               /\ ring[first] \in Queued' => ring'[first'] = ring[first]]_schedVars
  BY ForgottenStep
<1> QED BY <1>1, SchedulersInvariant, PTL DEF Spec, NobodyForgotten
-----------------------------------------------------------------------------
(* Products of numbers.                                                    *)
LEMMA Product ==
  ASSUME NEW a \in Nat, NEW b \in Nat
  PROVE  a * b \in Nat /\ (a = 0 \/ b = 0 => a * b = 0) /\ (b > 0 => a <= a * b)
OBVIOUS

(* A product grows with a factor, ...                                     *)
LEMMA ProductGrows ==
  ASSUME NEW a \in Nat, NEW b \in Nat, NEW c \in Nat, b <= c
  PROVE  a * b <= a * c
OBVIOUS

(* ... and a factor can be left out on both sides.                         *)
LEMMA ProductCancels ==
  ASSUME NEW a \in Nat, a > 0, NEW b \in Nat, NEW c \in Nat, a * b <= a * c
  PROVE  b <= c
OBVIOUS

(* A ratio that is better than one is better than what that one beats.     *)
LEMMA RatioTransitive ==
  ASSUME NEW t \in Nat, NEW b \in Nat, NEW u \in Nat, NEW d \in Nat, NEW v \in Nat, NEW e \in Nat,
         t * e <= v * b, b * u < t * d
  PROVE  t > 0 /\ u * e <= v * d
<1>1. t > 0
  BY Product
<1>2. u * (t * e) <= u * (v * b)
  BY Product, ProductGrows
<1>3. v * (b * u) <= v * (t * d)
  BY Product, ProductGrows
<1>4. u * (t * e) = t * (u * e) /\ u * (v * b) = v * (b * u) /\ v * (t * d) = t * (v * d)
  OBVIOUS
<1>5. u * e \in Nat /\ v * d \in Nat
  BY Product
<1>6. t * (u * e) \in Int /\ t * (v * d) \in Int /\ v * (b * u) \in Int
  BY Product
<1>7. t * (u * e) <= t * (v * d)
  BY <1>2, <1>3, <1>4, <1>6
<1> QED BY <1>1, <1>5, <1>7, ProductCancels
-----------------------------------------------------------------------------
(* The products of the RUNNABLE processes fit an int.                      *)
Fits ==
  \A p, q \in Procs : state[p] = "RUNNABLE" /\ state[q] = "RUNNABLE" =>
    Top(p) * (IF Bot(q) = 0 THEN 1 ELSE Bot(q)) < 2^(IntBits - 1)

(* Then the comparison of cfsd_sched is one of numbers.                    *)
LEMMA Comparison ==
  ASSUME SchedTypeOK, Fits,
         NEW p \in Procs, state[p] = "RUNNABLE", NEW q \in Procs, state[q] = "RUNNABLE",
         NEW b \in 0..Bot(p)
  PROVE  /\ Wrap(Top(p)) = Top(p)
         /\ Wrap(Top(p) * Wrap(Bot(q))) = Top(p) * Bot(q)
         /\ Wrap(Wrap(b) * Top(q)) = b * Top(q)
<1> DEFINE h == 2^(IntBits - 1)
<1>1. h \in Nat /\ h > 0
  <2>1. IntBits - 1 \in Nat
    BY SchedConstants
  <2> QED BY <2>1, PowerType
<1>2. Top(p) \in Nat /\ Bot(p) \in Nat /\ Top(q) \in Nat /\ Bot(q) \in Nat /\ b \in Nat
        /\ b <= Bot(p)
  BY CountersType
<1>3. /\ Top(p) * (IF Bot(q) = 0 THEN 1 ELSE Bot(q)) < h
      /\ Top(q) * (IF Bot(p) = 0 THEN 1 ELSE Bot(p)) < h
  BY DEF Fits
<1>4. \A x \in Nat : x < h => Wrap(x) = x
  BY <1>1, WrapFits
<1>5. \A x \in Nat : Wrap(x) \in Int
  BY WrapFits
<1> HIDE DEF h
<1>6. ASSUME NEW t \in Nat, NEW e \in Nat, t * (IF e = 0 THEN 1 ELSE e) < h
      PROVE  t < h /\ t * e < h /\ t * e \in Nat /\ (t > 0 => e < h)
  <2>1. CASE e = 0
    BY <1>1, <1>6, <2>1
  <2>2. CASE e > 0
    <3>1. t * e \in Nat /\ t <= t * e /\ (t > 0 => e <= e * t) /\ e * t = t * e /\ t * e < h
      BY <1>6, <2>2, Product
    <3> QED BY <1>1, <3>1
  <2> QED BY <2>1, <2>2
<1>7. Wrap(Top(p)) = Top(p)
  BY <1>2, <1>3, <1>4, <1>6
<1>8. Wrap(Top(p) * Wrap(Bot(q))) = Top(p) * Bot(q)
  <2>1. CASE Top(p) = 0
    <3>1. 0 * Wrap(Bot(q)) = 0 /\ 0 * Bot(q) = 0
      BY <1>2, <1>5
    <3> QED BY <1>1, <1>4, <2>1, <3>1
  <2>2. CASE Top(p) > 0
    <3>1. Bot(q) < h /\ Top(p) * Bot(q) < h /\ Top(p) * Bot(q) \in Nat
      BY <1>2, <1>3, <1>6, <2>2
    <3> QED BY <1>2, <1>4, <3>1
  <2> QED BY <1>2, <2>1, <2>2
<1>9. Wrap(Wrap(b) * Top(q)) = b * Top(q)
  <2>1. CASE Top(q) = 0
    <3>1. Wrap(b) * 0 = 0 /\ b * 0 = 0
      BY <1>2, <1>5
    <3> QED BY <1>1, <1>4, <2>1, <3>1
  <2>2. CASE Top(q) > 0
    <3>1. Bot(p) < h /\ Top(q) * Bot(p) < h /\ Top(q) * Bot(p) \in Nat
      BY <1>2, <1>3, <1>6, <2>2
    <3>2. Top(q) * b <= Top(q) * Bot(p) /\ Top(q) * b \in Nat /\ Top(q) * b = b * Top(q)
      BY <1>2, ProductGrows, Product
    <3>3. b < h /\ b * Top(q) < h /\ b * Top(q) \in Nat
      BY <1>1, <1>2, <3>1, <3>2
    <3> QED BY <1>2, <1>4, <3>3
  <2> QED BY <1>2, <2>1, <2>2
<1> QED BY <1>7, <1>8, <1>9
-----------------------------------------------------------------------------
(* What a scan has looked at.                                              *)
Seen(c, q) == cpu[c].pc = "picked" \/ q < cpu[c].i

(* SRT: the best so far is RUNNABLE and is not beaten by what was RUNNABLE *)
(* all the time, as long as nobody else was taken.                         *)
LeastBurst(c) ==
  /\ steady[c] # {} /\ cpu[c].p # 0 => state[cpu[c].p] = "RUNNABLE"
  /\ \A q \in steady[c] : Seen(c, q) => cpu[c].p # 0 /\ avgBurst[cpu[c].p] <= avgBurst[q]

(* CFSD: so is the best so far, as it was when it was looked at; it may    *)
(* have waited longer since.                                               *)
Beats(p, b, q) == Top(p) * Bot(q) <= Top(q) * b /\ (Top(q) = 0 => Top(p) = 0)

LeastRatio(c) ==
  IF cpu[c].p = 0
  THEN cpu[c].top = -1 /\ cpu[c].bot = -1 /\ \A q \in steady[c] : ~Seen(c, q)
  ELSE /\ state[cpu[c].p] = "RUNNABLE"
       /\ Fits => /\ cpu[c].top = Top(cpu[c].p)
                  /\ \E b \in 0..Bot(cpu[c].p) :
                       /\ cpu[c].bot = Wrap(b)
                       /\ \A q \in steady[c] : Seen(c, q) => Beats(cpu[c].p, b, q)

(* A scan starts with nothing.                                             *)
Scanning ==
  /\ policy \in {"SRT", "CFSD"} =>
       /\ \A c \in CPUs : cpu[c].pc = "loop" /\ cpu[c].i = 1 => cpu[c] = AtTop
       /\ \A c \in CPUs : \A q \in steady[c] : state[q] = "RUNNABLE"
  /\ policy = "SRT" => \A c \in CPUs : cpu[c].pc # "run" => LeastBurst(c)
  /\ policy = "CFSD" /\ UsedCPUs["CFSD"] = 1 =>
       /\ \A c \in CPUs : c # 0 => cpu[c].pc = "loop"
       /\ cpu[0].pc # "run" => LeastRatio(0)

(* What a step does to the scan of a CPU.                                  *)
LEMMA ScanMoves ==
  ASSUME SchedInv, [SchedNext]_schedVars, policy \in {"SRT", "CFSD"}, NEW c \in CPUs
  PROVE  \/ cpu'[c] = cpu[c] \/ cpu'[c] = AtTop \/ cpu'[c].pc = "run"
         \/ Scan(c) /\ UNCHANGED <<state, avgBurst, decay, perf>>
<1> DEFINE G == \/ cpu'[c] = cpu[c] \/ cpu'[c] = AtTop \/ cpu'[c].pc = "run"
                \/ Scan(c) /\ UNCHANGED <<state, avgBurst, decay, perf>>
<1> SUFFICES G
  OBVIOUS
<1>t. DOMAIN cpu = CPUs
  BY DEF SchedInv, SchedTypeOK
<1>d. ASSUME NEW d \in CPUs, NEW r, cpu' = [cpu EXCEPT ![d] = r],
             r = AtTop \/ r.pc = "run"
      PROVE  G
  BY <1>t, <1>d
<1>s. ASSUME NEW d \in CPUs, ToScheduler(d)
      PROVE  G
  BY <1>d, <1>s DEF ToScheduler
<1>r. \A p \in Procs : Runner(p).pc = "run"
  BY DEF Runner, AtTop
<1>1. ASSUME NEW d \in CPUs, Schedule(d)
      PROVE  G
  <2>1. CASE Scan(d)
    <3>1. CASE d = c
      BY <1>1, <2>1, <3>1 DEF Schedule, Scan, procVars
    <3>2. CASE d # c
      <4>1. Others(d)
        BY <2>1, ScanDoes DEF SchedInv
      <4> QED BY <3>2, <4>1 DEF Others
    <3> QED BY <3>1, <3>2
  <2>2. CASE Picked(d)
    <3>1. cpu[d].p \in Procs
      BY <2>2 DEF Picked, SchedInv, Running
    <3>2. cpu' = [cpu EXCEPT ![d] = Runner(cpu[d].p)] \/ cpu' = [cpu EXCEPT ![d] = AtTop]
      BY <2>2 DEF Picked, Dispatch, Runner
    <3> QED BY <1>d, <1>r, <3>1, <3>2
  <2> QED BY <1>1, <2>1, <2>2 DEF Schedule, RoundRobin, Dequeue
<1>2. ASSUME NEW d \in CPUs, OtherTimer(d)
      PROVE  G
  BY <1>2, <1>s DEF OtherTimer, Yield
<1>3. ASSUME NEW d \in CPUs, NEW p \in Procs, Sleep(d, p) \/ Exit(d, p)
      PROVE  G
  BY <1>3, <1>s DEF Sleep, Exit
<1>4. ASSUME NEW d \in CPUs, NEW p \in Procs, NEW n \in Procs, Fork(d, p, n) \/ SetPriority(d, p)
      PROVE  G
  BY <1>4 DEF Fork, SetPriority
<1>5. ASSUME NEW p \in Procs, Wake(p) \/ Reap(p) \/ Count(p)
      PROVE  G
  BY <1>5 DEF Wake, Reap, Count
<1>6. CASE ClockTick
  BY <1>6 DEF ClockTick
<1>7. CASE CheckSlice
  <2>1. cpu' = cpu \/ ToScheduler(0)
    BY <1>7 DEF CheckSlice, Yield
  <2>2. 0 \in CPUs
    BY SchedConstants DEF CPUs
  <2> QED BY <1>s, <2>1, <2>2
<1>8. CASE UNCHANGED schedVars
  BY <1>8 DEF schedVars
<1> HIDE DEF G
<1>9. 1 \in Procs
  BY SchedConstants DEF Procs
<1>10. CASE SchedMoves
  BY <1>1, <1>2, <1>3, <1>4, <1>5, <1>6, <1>7, <1>9, <1>10 DEF SchedMoves, Clock
<1> QED BY <1>8, <1>10 DEF SchedNext

(* What is read of a RUNNABLE process does not change, but that it waits.  *)
LEMMA RunnableKept ==
  ASSUME SchedInv, [SchedNext]_schedVars, NEW p \in Procs, state[p] = "RUNNABLE"
  PROVE  /\ avgBurst'[p] = avgBurst[p] /\ decay'[p] = decay[p]
         /\ perf'[p].rutime = perf[p].rutime /\ perf'[p].wtime >= perf[p].wtime
<1> DEFINE G == /\ avgBurst'[p] = avgBurst[p] /\ decay'[p] = decay[p]
                /\ perf'[p].rutime = perf[p].rutime /\ perf'[p].wtime >= perf[p].wtime
<1> SUFFICES G
  OBVIOUS
<1>t. /\ ProcTypes /\ CountTypes /\ Running /\ perf[p].wtime \in Nat
      /\ DOMAIN avgBurst = Procs /\ DOMAIN decay = Procs /\ DOMAIN perf = Procs
  <2>1. MaxTicks[policy] \in Nat
    BY SchedConstants DEF SchedInv, SchedTypeOK
  <2>2. ProcTypes /\ CountTypes /\ Running
    BY DEF SchedInv, SchedTypeOK, ProcTypes, CountTypes, NoPerf
  <2>3. perf[p].wtime \in Nat
    BY <2>1, <2>2 DEF CountTypes
  <2> QED BY <2>2, <2>3 DEF ProcTypes, CountTypes
<1>f. ASSUME perf' = perf, decay' = decay,
             avgBurst' = avgBurst \/ \E q \in Procs \ {p} : \E x : avgBurst' = [avgBurst EXCEPT ![q] = x]
      PROVE  G
  BY <1>t, <1>f
<1>r. \A c \in CPUs : cpu[c].pc = "run" => cpu[c].p \in Procs \ {p}
  BY <1>t DEF Running
<1>1. ASSUME NEW c \in CPUs, Schedule(c)
      PROVE  G
  BY <1>1, <1>f DEF Schedule, procVars
<1>2. ASSUME NEW c \in CPUs, SliceUsed(c), Yield(c)
      PROVE  G
  BY <1>2, <1>f, <1>r DEF Yield, SliceUsed
<1>3. ASSUME NEW c \in CPUs, NEW q \in Procs, Sleep(c, q)
      PROVE  G
  BY <1>3, <1>f, <1>r DEF Sleep, Runs
<1>4. ASSUME NEW c \in CPUs, NEW q \in Procs, Exit(c, q)
      PROVE  G
  BY <1>4, <1>f DEF Exit, procVars
<1>5. ASSUME NEW c \in CPUs, NEW q \in Procs, SetPriority(c, q)
      PROVE  G
  <2>1. q # p
    BY <1>5, <1>r DEF SetPriority, Runs
  <2> QED BY <1>5, <1>t, <2>1 DEF SetPriority
<1>6. ASSUME NEW c \in CPUs, NEW q \in Procs, NEW n \in Procs, Fork(c, q, n)
      PROVE  G
  <2>1. n # p
    BY <1>6 DEF Fork
  <2>2. perf' = [perf EXCEPT ![n].ctime = ticks] /\ decay' = [decay EXCEPT ![n] = decay[q]]
        /\ avgBurst' = [avgBurst EXCEPT ![n] = QUANTUM * 100]
    BY <1>6 DEF Fork
  <2> QED BY <1>t, <2>1, <2>2
<1>7. ASSUME NEW q \in Procs, Wake(q)
      PROVE  G
  BY <1>7, <1>f DEF Wake
<1>8. ASSUME NEW q \in Procs, Reap(q)
      PROVE  G
  <2>1. q # p
    BY <1>8 DEF Reap
  <2>2. perf' = [perf EXCEPT ![q] = NoPerf] /\ decay' = [decay EXCEPT ![q] = NORMALP]
        /\ avgBurst' = [avgBurst EXCEPT ![q] = QUANTUM * 100]
    BY <1>8 DEF Reap
  <2> QED BY <1>t, <2>1, <2>2
<1>9. CASE ClockTick
  BY <1>9, <1>f DEF ClockTick, procVars
<1>10. ASSUME NEW q \in Procs, Count(q)
      PROVE  G
  <2>1. avgBurst' = avgBurst /\ decay' = decay
    BY <1>10 DEF Count, procVars
  <2>2. CASE q # p \/ perf' = perf
    <3>1. perf'[p] = perf[p]
      BY <1>10, <1>t, <2>2 DEF Count
    <3> QED BY <1>t, <2>1, <3>1
  <2>3. CASE q = p /\ perf' # perf
    <3>1. perf' = [perf EXCEPT ![p]["wtime"] = perf[p]["wtime"] + 1]
      BY <1>10, <2>3 DEF Count, Counter
    <3>2. perf'[p] = [perf[p] EXCEPT !["wtime"] = perf[p]["wtime"] + 1]
      BY <1>t, <3>1
    <3>3. perf[p] \in [{"ctime", "rutime", "wtime"} -> 0..MaxTicks[policy]]
      BY <1>t DEF CountTypes
    <3>4. perf'[p].rutime = perf[p].rutime /\ perf'[p].wtime = perf[p].wtime + 1
      BY <3>2, <3>3
    <3> QED BY <1>t, <2>1, <3>4
  <2> QED BY <2>2, <2>3
<1>11. CASE CheckSlice
  <2>1. 0 \in CPUs
    BY SchedConstants DEF CPUs
  <2>2. CASE SliceUsed(0)
    BY <1>2, <1>11, <2>1, <2>2 DEF CheckSlice
  <2>3. CASE ~SliceUsed(0)
    BY <1>11, <1>f, <2>3 DEF CheckSlice, procVars
  <2> QED BY <2>2, <2>3
<1>12. CASE UNCHANGED schedVars
  BY <1>12, <1>f DEF schedVars
<1> HIDE DEF G
<1>13. CASE SchedMoves
  BY <1>1, <1>2, <1>3, <1>4, <1>5, <1>6, <1>7, <1>8, <1>9, <1>10, <1>11, <1>13
     DEF SchedMoves, Clock, OtherTimer
<1> QED BY <1>12, <1>13 DEF SchedNext

(* What stays in the memory of a scan that is under way.                   *)
LEMMA TrackKeeps ==
  ASSUME SchedInv, Scanning, [SchedNext]_schedVars, policy \in {"SRT", "CFSD"},
         NEW c \in CPUs, NEW q \in steady'[c]
  PROVE  /\ q \in Procs /\ state'[q] = "RUNNABLE"
         /\ ~(cpu[c].pc = "loop" /\ cpu[c].i = 1) =>
              /\ q \in steady[c] /\ perf'[q] = perf[q] /\ state[q] = "RUNNABLE"
              /\ policy = "SRT" => \A p \in Procs : state[p] = "RUNNABLE" => state'[p] = "RUNNABLE"
<1>t. steady \in [CPUs -> SUBSET Procs]
  BY DEF SchedInv, SchedTypeOK
<1>1. CASE Track
  BY <1>1, <1>t DEF Track, Scanning
<1>2. CASE UNCHANGED schedVars
  BY <1>2, <1>t DEF schedVars, Scanning
<1> QED BY <1>1, <1>2 DEF SchedNext

(* One step of a scan of srt_sched.                                        *)
LEMMA BurstStep ==
  ASSUME SchedInv, Scanning, [SchedNext]_schedVars, policy = "SRT", policy' = "SRT",
         NEW c \in CPUs, cpu'[c].pc # "run"
  PROVE  LeastBurst(c)'
<1>t. /\ cpu \in [CPUs -> CpuRecord] /\ avgBurst \in [Procs -> Nat]
      /\ steady \in [CPUs -> SUBSET Procs] /\ NPROC \in Nat
  BY SchedConstants DEF SchedInv, SchedTypeOK, CpuRecord
<1>k. \A q \in steady'[c] :
        /\ q \in Procs /\ state'[q] = "RUNNABLE"
        /\ ~(cpu[c].pc = "loop" /\ cpu[c].i = 1) =>
             /\ q \in steady[c] /\ state[q] = "RUNNABLE"
             /\ \A p \in Procs : state[p] = "RUNNABLE" => state'[p] = "RUNNABLE"
  BY TrackKeeps
<1>a. AtTop.pc = "loop" /\ AtTop.p = 0 /\ AtTop.i = 1
  BY DEF AtTop
<1>p. \A q \in Procs : q >= 1 /\ q \in Nat /\ q # 0
  BY <1>t DEF Procs
<1>1. CASE cpu'[c] = AtTop
  <2>1. cpu'[c].p = 0 /\ cpu'[c].pc = "loop" /\ cpu'[c].i = 1
    BY <1>1, <1>a
  <2>2. ASSUME NEW q \in steady'[c]
        PROVE  ~Seen(c, q)'
    <3>1. q >= 1 /\ q \in Nat
      BY <1>k, <1>p, <2>2
    <3> QED BY <2>1, <3>1 DEF Seen
  <2> QED BY <2>1, <2>2 DEF LeastBurst
<1>2. CASE cpu'[c] = cpu[c] /\ ~(cpu[c].pc = "loop" /\ cpu[c].i = 1)
  <2>1. LeastBurst(c)
    BY <1>2 DEF Scanning
  <2>2. cpu[c].p # 0 => cpu[c].p \in Procs
    BY <1>t DEF CpuRecord, Procs
  <2>3. \A p \in Procs : state[p] = "RUNNABLE" => avgBurst'[p] = avgBurst[p]
    BY RunnableKept
  <2>4. ASSUME cpu'[c].p # 0, NEW q \in steady'[c]
        PROVE  state'[cpu'[c].p] = "RUNNABLE"
    <3>1. q \in steady[c] /\ \A p \in Procs : state[p] = "RUNNABLE" => state'[p] = "RUNNABLE"
      BY <1>2, <1>k, <2>4
    <3> QED BY <1>2, <2>1, <2>2, <2>4, <3>1 DEF LeastBurst
  <2>5. ASSUME NEW q \in steady'[c], Seen(c, q)'
        PROVE  cpu'[c].p # 0 /\ avgBurst'[cpu'[c].p] <= avgBurst'[q]
    <3>1. Seen(c, q)
      BY <1>2, <2>5 DEF Seen
    <3>2. q \in steady[c] /\ state[q] = "RUNNABLE" /\ q \in Procs
      BY <1>2, <1>k, <2>5
    <3>3. cpu[c].p # 0 /\ avgBurst[cpu[c].p] <= avgBurst[q] /\ state[cpu[c].p] = "RUNNABLE"
      BY <2>1, <3>1, <3>2 DEF LeastBurst
    <3> QED BY <1>2, <2>2, <2>3, <3>2, <3>3
  <2> QED BY <2>4, <2>5 DEF LeastBurst
<1>3. CASE Scan(c) /\ UNCHANGED <<state, avgBurst, decay, perf>> /\ cpu'[c] # AtTop
  <2>1. cpu[c].pc = "loop" /\ cpu[c].i \in Procs
    BY <1>3, <1>t DEF Scan, CpuRecord
  <2>2. LeastBurst(c)
    BY <2>1 DEF Scanning
  <2>3. /\ cpu'[c].p = BestP(c)
        /\ \A q \in Procs : Seen(c, q)' => q < cpu[c].i \/ q = cpu[c].i
    <3>1. SchedTypeOK
      BY DEF SchedInv
    <3>2. cpu[c].i < NPROC \/ cpu[c].i = NPROC
      BY <1>t, <2>1 DEF Procs
    <3>3. CASE cpu[c].i < NPROC
      <4>1. cpu'[c].p = BestP(c) /\ cpu'[c].pc = "loop" /\ cpu'[c].i = cpu[c].i + 1
        BY <1>3, <3>1, <3>3, ScanDoes
      <4> QED BY <1>p, <2>1, <4>1 DEF Seen
    <3>4. CASE cpu[c].i = NPROC
      <4>1. cpu'[c].p = BestP(c)
        BY <1>3, <3>1, <3>4, ScanDoes
      <4> QED BY <1>p, <1>t, <3>4, <4>1 DEF Procs
    <3> QED BY <3>2, <3>3, <3>4
  <2>4. Better(c) <=> state[cpu[c].i] = "RUNNABLE"
          /\ (cpu[c].p = 0 \/ avgBurst[cpu[c].i] < avgBurst[cpu[c].p])
    BY DEF Better, BetterBurst
  <2>5. cpu[c].p # 0 => cpu[c].p \in Procs /\ cpu[c].i # 1
    BY <1>a, <1>t, <2>1 DEF CpuRecord, Procs, Scanning
  <2>6. ASSUME cpu'[c].p # 0, NEW q \in steady'[c]
        PROVE  state'[cpu'[c].p] = "RUNNABLE"
    <3>1. CASE Better(c)
      BY <1>3, <2>3, <2>4, <3>1 DEF BestP
    <3>2. CASE ~Better(c)
      <4>1. cpu'[c].p = cpu[c].p /\ cpu[c].i # 1
        BY <2>3, <2>5, <2>6, <3>2 DEF BestP
      <4>2. q \in steady[c]
        BY <1>k, <2>6, <4>1
      <4> QED BY <1>3, <2>2, <2>6, <4>1, <4>2 DEF LeastBurst
    <3> QED BY <3>1, <3>2
  <2>7. ASSUME NEW q \in steady'[c], Seen(c, q)'
        PROVE  cpu'[c].p # 0 /\ avgBurst'[cpu'[c].p] <= avgBurst'[q]
    <3>1. q \in Procs /\ state[q] = "RUNNABLE" /\ (cpu[c].i # 1 => q \in steady[c])
      BY <1>3, <1>k, <2>7
    <3>2. CASE q = cpu[c].i
      <4>1. CASE Better(c)
        BY <1>3, <1>p, <1>t, <2>1, <2>3, <3>2, <4>1 DEF BestP
      <4>2. CASE ~Better(c)
        <5>1. cpu[c].p \in Procs /\ cpu[c].p # 0 /\ ~(avgBurst[q] < avgBurst[cpu[c].p])
          BY <2>4, <2>5, <3>1, <3>2, <4>2
        <5>2. avgBurst[q] \in Nat /\ avgBurst[cpu[c].p] \in Nat
          BY <1>t, <3>1, <5>1
        <5> QED BY <1>3, <2>3, <4>2, <5>1, <5>2 DEF BestP
      <4> QED BY <4>1, <4>2
    <3>3. CASE q < cpu[c].i
      <4>1. Seen(c, q) /\ q \in steady[c]
        BY <1>p, <2>1, <3>1, <3>3 DEF Seen
      <4>2. cpu[c].p # 0 /\ avgBurst[cpu[c].p] <= avgBurst[q] /\ cpu[c].p \in Procs
        BY <2>2, <2>5, <4>1 DEF LeastBurst
      <4>3. avgBurst[q] \in Nat /\ avgBurst[cpu[c].p] \in Nat /\ avgBurst[cpu[c].i] \in Nat
        BY <1>t, <2>1, <3>1, <4>2
      <4>4. CASE Better(c)
        BY <1>3, <1>p, <2>1, <2>3, <2>4, <4>2, <4>3, <4>4 DEF BestP
      <4>5. CASE ~Better(c)
        BY <1>3, <2>3, <4>2, <4>5 DEF BestP
      <4> QED BY <4>4, <4>5
    <3> QED BY <2>3, <2>7, <3>1, <3>2, <3>3
  <2> QED BY <2>6, <2>7 DEF LeastBurst
<1>4. CASE cpu'[c] = cpu[c] /\ cpu[c].pc = "loop" /\ cpu[c].i = 1
  BY <1>1, <1>4 DEF Scanning
<1> QED BY <1>1, <1>2, <1>3, <1>4, ScanMoves

(* One step of the scan of cfsd_sched, on the one CPU that schedules.      *)
LEMMA RatioStep ==
  ASSUME SchedInv, Scanning, [SchedNext]_schedVars, policy = "CFSD", policy' = "CFSD",
         UsedCPUs["CFSD"] = 1, cpu'[0].pc # "run"
  PROVE  LeastRatio(0)'
<1>t. /\ cpu \in [CPUs -> CpuRecord] /\ NPROC \in Nat /\ 0 \in CPUs /\ SchedTypeOK
      /\ \A c \in CPUs : c \in Nat
  <2>1. cpu \in [CPUs -> CpuRecord] /\ SchedTypeOK
    BY DEF SchedInv, SchedTypeOK, CpuRecord
  <2>2. NPROC \in Nat /\ 0 \in CPUs /\ \A c \in CPUs : c \in Nat
    BY SchedConstants DEF CPUs
  <2> QED BY <2>1, <2>2
<1>n. \A q \in Procs : Top(q) \in Nat /\ Bot(q) \in Nat
  BY <1>t, CountersType
<1>k. \A q \in steady'[0] :
        /\ q \in Procs /\ state'[q] = "RUNNABLE"
        /\ ~(cpu[0].pc = "loop" /\ cpu[0].i = 1) =>
             q \in steady[0] /\ perf'[q] = perf[q] /\ state[q] = "RUNNABLE"
  BY <1>t, TrackKeeps
<1>a. AtTop.pc = "loop" /\ AtTop.p = 0 /\ AtTop.i = 1 /\ AtTop.top = -1 /\ AtTop.bot = -1
  BY DEF AtTop
<1>p. \A q \in Procs : q >= 1 /\ q \in Nat /\ q # 0
  BY <1>t DEF Procs
<1>1. CASE cpu'[0] = AtTop
  <2>1. cpu'[0].p = 0 /\ cpu'[0].pc = "loop" /\ cpu'[0].i = 1 /\ cpu'[0].top = -1
          /\ cpu'[0].bot = -1
    BY <1>1, <1>a
  <2>2. ASSUME NEW q \in steady'[0]
        PROVE  ~Seen(0, q)'
    <3>1. q >= 1 /\ q \in Nat
      BY <1>k, <1>p, <2>2
    <3> QED BY <2>1, <3>1 DEF Seen
  <2> QED BY <2>1, <2>2 DEF LeastRatio
<1>2. CASE cpu'[0] = cpu[0] /\ ~(cpu[0].pc = "loop" /\ cpu[0].i = 1)
  <2>1. LeastRatio(0)
    BY <1>2 DEF Scanning
  <2>2. \A q \in Procs : state[q] = "RUNNABLE" =>
          Top(q)' = Top(q) /\ Bot(q)' >= Bot(q)
    BY RunnableKept DEF Top, Bot
  <2>3. \A q \in Procs : state[q] = "RUNNABLE" => state'[q] = "RUNNABLE"
    <3>1. ASSUME NEW c \in CPUs, NEW q \in Procs, Starts(c, q)
          PROVE  FALSE
      <4>1. c = 0
        BY <1>t, <3>1 DEF Starts
      <4> QED BY <1>2, <3>1, <4>1 DEF Starts
    <3>2. \A c \in CPUs : ~Takes(c)
      BY DEF Takes
    <3> QED BY <1>t, <3>1, <3>2, Moves DEF Looks, Stops, Readies, Reaped, Rests, Becomes,
                 SchedInv, Running
  <2>4. \A q \in Procs : Bot(q)' \in Nat
    <3>1. SchedTypeOK'
      BY TypeStep
    <3>2. MaxTicks[policy'] \in Nat
      BY <3>1, SchedConstants DEF SchedTypeOK
    <3> QED BY <3>1, <3>2 DEF Bot, SchedTypeOK, NoPerf
  <2>5. Fits' => Fits
    <3> SUFFICES ASSUME Fits', NEW p \in Procs, NEW q \in Procs, state[p] = "RUNNABLE",
                          state[q] = "RUNNABLE"
                 PROVE  Top(p) * (IF Bot(q) = 0 THEN 1 ELSE Bot(q)) < 2^(IntBits - 1)
      BY DEF Fits
    <3> DEFINE x == IF Bot(q) = 0 THEN 1 ELSE Bot(q)
               y == IF Bot(q)' = 0 THEN 1 ELSE Bot(q)'
    <3>1. Top(p)' * y < 2^(IntBits - 1)
      BY <2>3 DEF Fits
    <3>2. x \in Nat /\ y \in Nat /\ x <= y /\ Top(p) \in Nat /\ Top(p)' = Top(p)
      BY <1>n, <2>2, <2>4
    <3>3. 2^(IntBits - 1) \in Nat
      <4>1. IntBits - 1 \in Nat
        BY SchedConstants
      <4> QED BY <4>1, PowerType
    <3> HIDE DEF x, y
    <3>4. Top(p) * x <= Top(p) * y /\ Top(p) * x \in Nat /\ Top(p) * y \in Nat
      BY <3>2, ProductGrows, Product
    <3>5. Top(p) * x < 2^(IntBits - 1)
      BY <3>1, <3>2, <3>3, <3>4
    <3> QED BY <3>5 DEF x
  <2>6. \A q \in steady'[0] : Seen(0, q)' => Seen(0, q) /\ q \in steady[0]
    BY <1>2, <1>k DEF Seen
  <2>7. CASE cpu[0].p = 0
    BY <1>2, <2>1, <2>6, <2>7 DEF LeastRatio
  <2>8. CASE cpu[0].p # 0
    <3>1. cpu[0].p \in Procs
      BY <1>t, <2>8 DEF CpuRecord, Procs
    <3>2. state[cpu[0].p] = "RUNNABLE" /\ state'[cpu[0].p] = "RUNNABLE"
      BY <2>1, <2>3, <2>8, <3>1 DEF LeastRatio
    <3>3. ASSUME Fits'
          PROVE  /\ cpu'[0].top = Top(cpu[0].p)'
                 /\ \E b \in 0..Bot(cpu[0].p)' :
                      /\ cpu'[0].bot = Wrap(b)
                      /\ \A q \in steady'[0] : Seen(0, q)' => Beats(cpu[0].p, b, q)'
      <4>1. cpu[0].top = Top(cpu[0].p)
        BY <2>1, <2>5, <2>8, <3>3 DEF LeastRatio
      <4>2. PICK b \in 0..Bot(cpu[0].p) :
              /\ cpu[0].bot = Wrap(b)
              /\ \A q \in steady[0] : Seen(0, q) => Beats(cpu[0].p, b, q)
        BY <2>1, <2>5, <2>8, <3>3 DEF LeastRatio
      <4>3. Top(cpu[0].p)' = Top(cpu[0].p)
        BY <1>2, <2>2, <3>1, <3>2 DEF Top
      <4>4. b \in 0..Bot(cpu[0].p)'
        <5>1. Bot(cpu[0].p)' >= Bot(cpu[0].p) /\ Bot(cpu[0].p)' \in Nat /\ Bot(cpu[0].p) \in Nat
          BY <1>2, <1>n, <2>2, <2>4, <3>1, <3>2 DEF Bot
        <5> QED BY <5>1
      <4>5. ASSUME NEW q \in steady'[0], Seen(0, q)'
            PROVE  Beats(cpu[0].p, b, q)'
        <5>1. Beats(cpu[0].p, b, q)
          BY <2>6, <4>2, <4>5
        <5>2. Top(q)' = Top(q) /\ Bot(q)' = Bot(q)
          BY <1>2, <1>k, <2>2, <4>5 DEF Bot
        <5> QED BY <4>3, <5>1, <5>2 DEF Beats
      <4> QED BY <1>2, <4>1, <4>2, <4>3, <4>4, <4>5
    <3>4. cpu'[0].p # 0 /\ state'[cpu'[0].p] = "RUNNABLE"
      BY <1>2, <2>8, <3>2
    <3> QED BY <3>3, <3>4 DEF LeastRatio
  <2> QED BY <2>7, <2>8
<1>3. CASE Scan(0) /\ UNCHANGED <<state, avgBurst, decay, perf>> /\ cpu'[0] # AtTop
  <2> DEFINE i == cpu[0].i
             p == cpu[0].p
  <2>1. cpu[0].pc = "loop" /\ i \in Procs
    BY <1>3, <1>t DEF Scan, CpuRecord
  <2>2. LeastRatio(0)
    BY <2>1 DEF Scanning
  <2>3. /\ cpu'[0].p = BestP(0) /\ cpu'[0].top = BestTop(0) /\ cpu'[0].bot = BestBot(0)
        /\ \A q \in Procs : Seen(0, q)' => q < i \/ q = i
    <3>2. cpu[0].i < NPROC \/ cpu[0].i = NPROC
      BY <1>t, <2>1 DEF Procs
    <3>3. CASE cpu[0].i < NPROC
      <4>1. /\ cpu'[0].p = BestP(0) /\ cpu'[0].top = BestTop(0) /\ cpu'[0].bot = BestBot(0)
            /\ cpu'[0].pc = "loop" /\ cpu'[0].i = cpu[0].i + 1
        BY <1>3, <1>t, <3>3, ScanDoes
      <4> QED BY <1>p, <2>1, <4>1 DEF Seen
    <3>4. CASE cpu[0].i = NPROC
      <4>1. cpu'[0].p = BestP(0) /\ cpu'[0].top = BestTop(0) /\ cpu'[0].bot = BestBot(0)
        BY <1>3, <1>t, <3>4, ScanDoes
      <4> QED BY <1>p, <1>t, <3>4, <4>1 DEF Procs
    <3> QED BY <3>2, <3>3, <3>4
  <2>4. /\ state' = state
        /\ \A q : Top(q)' = Top(q) /\ Bot(q)' = Bot(q)
        /\ Fits' <=> Fits
    BY <1>3 DEF Top, Bot, Fits
  <2>5. Better(0) <=> state[i] = "RUNNABLE" /\ BetterRatio(0, i)
    BY DEF Better
  <2>6. BetterRatio(0, i) <=> \/ cpu[0].top = -1 /\ cpu[0].bot = -1
                              \/ Wrap(Top(i)) = 0 /\ cpu[0].top # 0
                              \/ Wrap(cpu[0].top * Wrap(Bot(i))) > Wrap(cpu[0].bot * Wrap(Top(i)))
    BY DEF BetterRatio
  <2>7. p # 0 => p \in Procs /\ i # 1
    BY <1>a, <1>t, <2>1 DEF CpuRecord, Procs, Scanning
  <2>8. ASSUME NEW q \in steady'[0], Seen(0, q)'
        PROVE  /\ q \in Procs /\ state[q] = "RUNNABLE"
               /\ q = i \/ (q \in steady[0] /\ Seen(0, q))
    <3>1. q \in Procs /\ (q < i \/ q = i)
      BY <1>k, <2>3, <2>8
    <3>2. q < i => i # 1
      BY <1>p, <2>1, <3>1
    <3> QED BY <1>k, <2>4, <2>8, <3>1, <3>2 DEF Seen
  <2>n. Top(i) \in Nat /\ Bot(i) \in Nat /\ (p # 0 => Top(p) \in Nat /\ Bot(p) \in Nat)
    BY <1>n, <2>1, <2>7
  <2>9. CASE Better(0)
    <3>1. cpu'[0].p = i /\ cpu'[0].top = Wrap(Top(i)) /\ cpu'[0].bot = Wrap(Bot(i))
            /\ state[i] = "RUNNABLE"
      BY <2>3, <2>5, <2>9 DEF BestP, BestTop, BestBot
    <3>2. ASSUME Fits
          PROVE  /\ Wrap(Top(i)) = Top(i)
                 /\ \A q \in steady'[0] : Seen(0, q)' => Beats(i, Bot(i), q)
      <4>1. Wrap(Top(i)) = Top(i)
        BY <1>t, <2>1, <2>n, <3>1, <3>2, Comparison
      <4>2. ASSUME NEW q \in steady'[0], Seen(0, q)'
            PROVE  Beats(i, Bot(i), q)
        <5>1. CASE q = i
          BY <2>n, <5>1 DEF Beats
        <5>2. CASE q # i
          <6>1. q \in steady[0] /\ Seen(0, q) /\ q \in Procs
            BY <2>8, <4>2, <5>2
          <6>2. p # 0 /\ state[p] = "RUNNABLE" /\ cpu[0].top = Top(p)
            BY <2>2, <3>2, <6>1 DEF LeastRatio
          <6>3. PICK b \in 0..Bot(p) : cpu[0].bot = Wrap(b) /\ Beats(p, b, q)
            BY <2>2, <3>2, <6>1, <6>2 DEF LeastRatio
          <6>4. Wrap(Top(p) * Wrap(Bot(i))) = Top(p) * Bot(i) /\ Wrap(Wrap(b) * Top(i)) = b * Top(i)
            BY <1>t, <2>1, <2>7, <3>1, <3>2, <6>2, Comparison
          <6>5. Top(p) \in Nat /\ b \in Nat /\ Top(q) \in Nat /\ Bot(q) \in Nat /\ Top(p) # -1
            BY <1>n, <2>n, <6>1, <6>2
          <6>6. Top(i) = 0 \/ Top(p) * Bot(i) > b * Top(i)
            BY <2>5, <2>6, <2>9, <4>1, <6>2, <6>3, <6>4, <6>5
          <6>7. CASE Top(i) = 0
            <7>1. Top(i) * Bot(q) = 0 /\ Top(q) * Bot(i) \in Nat
              BY <2>n, <6>5, <6>7, Product
            <7> QED BY <6>7, <7>1 DEF Beats
          <6>8. CASE Top(p) * Bot(i) > b * Top(i)
            <7>1. Top(p) * Bot(q) <= Top(q) * b /\ (Top(q) = 0 => Top(p) = 0)
              BY <6>3 DEF Beats
            <7>2. b * Top(i) < Top(p) * Bot(i)
              BY <2>n, <6>5, <6>8, Product
            <7>3. Top(p) > 0 /\ Top(i) * Bot(q) <= Top(q) * Bot(i)
              BY <2>n, <6>5, <7>1, <7>2, RatioTransitive
            <7> QED BY <6>5, <7>1, <7>3 DEF Beats
          <6> QED BY <6>6, <6>7, <6>8
        <5> QED BY <5>1, <5>2
      <4> QED BY <4>1, <4>2
    <3>3. ASSUME Fits'
          PROVE  /\ cpu'[0].top = Top(cpu[0].p)'
                 /\ \E b \in 0..Bot(cpu[0].p)' :
                      /\ cpu'[0].bot = Wrap(b)
                      /\ \A q \in steady'[0] : Seen(0, q)' => Beats(cpu[0].p, b, q)'
      <4>1. Top(cpu[0].p)' = Top(i) /\ Bot(cpu[0].p)' = Bot(i)
        BY <1>3, <3>1 DEF Top, Bot
      <4>2. \A b, q : Beats(cpu[0].p, b, q)' <=> Beats(i, b, q)
        BY <1>3, <3>1 DEF Beats, Top, Bot
      <4>3. Bot(i) \in 0..Bot(cpu[0].p)'
        BY <2>n, <4>1
      <4>4. \A q \in steady'[0] : Seen(0, q)' => Beats(i, Bot(i), q)
        BY <2>4, <3>2, <3>3
      <4>5. cpu'[0].top = Top(i)
        BY <2>4, <3>1, <3>2, <3>3
      <4>0. PICK b : b = Bot(i)
        OBVIOUS
      <4>6. \A q \in steady'[0] : Seen(0, q)' => Beats(cpu[0].p, b, q)'
        BY <4>0, <4>2, <4>4
      <4>7. b \in 0..Bot(cpu[0].p)' /\ cpu'[0].bot = Wrap(b)
        BY <3>1, <4>0, <4>3
      <4> QED BY <4>1, <4>5, <4>6, <4>7
    <3>4. cpu'[0].p # 0 /\ state'[cpu'[0].p] = "RUNNABLE"
      BY <1>p, <2>1, <2>4, <3>1
    <3> QED BY <3>3, <3>4 DEF LeastRatio
  <2>10. CASE ~Better(0)
    <3>1. cpu'[0].p = p /\ cpu'[0].top = cpu[0].top /\ cpu'[0].bot = cpu[0].bot
      BY <2>3, <2>10 DEF BestP, BestTop, BestBot
    <3>2. CASE p = 0
      <4>1. cpu[0].top = -1 /\ cpu[0].bot = -1 /\ \A q \in steady[0] : ~Seen(0, q)
        BY <2>2, <3>2 DEF LeastRatio
      <4>2. state[i] # "RUNNABLE"
        BY <2>5, <2>6, <2>10, <4>1
      <4>3. \A q \in steady'[0] : ~Seen(0, q)'
        BY <2>8, <4>1, <4>2
      <4> QED BY <3>1, <3>2, <4>1, <4>3 DEF LeastRatio
    <3>3. CASE p # 0
      <4>1. state[p] = "RUNNABLE" /\ p \in Procs
        BY <2>2, <2>7, <3>3 DEF LeastRatio
      <4>2. ASSUME Fits
            PROVE  /\ cpu[0].top = Top(p)
                   /\ \E b \in 0..Bot(p) :
                        cpu[0].bot = Wrap(b) /\ \A q \in steady'[0] : Seen(0, q)' => Beats(p, b, q)
        <5>1. cpu[0].top = Top(p)
          BY <2>2, <3>3, <4>2 DEF LeastRatio
        <5>2. PICK b \in 0..Bot(p) :
                cpu[0].bot = Wrap(b) /\ \A q \in steady[0] : Seen(0, q) => Beats(p, b, q)
          BY <2>2, <3>3, <4>2 DEF LeastRatio
        <5>3. ASSUME NEW q \in steady'[0], Seen(0, q)'
              PROVE  Beats(p, b, q)
          <6>1. CASE q # i
            BY <2>8, <5>2, <5>3, <6>1
          <6>2. CASE q = i
            <7>1. state[i] = "RUNNABLE" /\ ~BetterRatio(0, i)
              BY <2>5, <2>8, <2>10, <5>3, <6>2
            <7>2. Wrap(Top(p) * Wrap(Bot(i))) = Top(p) * Bot(i)
                    /\ Wrap(Wrap(b) * Top(i)) = b * Top(i)
              BY <1>t, <2>1, <4>1, <4>2, <7>1, Comparison
            <7>3. Wrap(Top(i)) = Top(i)
              <8>1. 0 \in 0..Bot(i)
                BY <2>n
              <8> QED BY <1>t, <2>1, <4>2, <7>1, <8>1, Comparison
            <7>4. ~(Top(i) = 0 /\ Top(p) # 0) /\ ~(Top(p) * Bot(i) > b * Top(i))
              BY <2>6, <5>1, <5>2, <7>1, <7>2, <7>3
            <7>5. Top(p) * Bot(i) \in Nat /\ b * Top(i) \in Nat /\ b * Top(i) = Top(i) * b
              <8>1. b \in Nat /\ Top(p) \in Nat
                BY <2>n, <3>3
              <8> QED BY <2>n, <8>1, Product
            <7> QED BY <6>2, <7>4, <7>5 DEF Beats
          <6> QED BY <6>1, <6>2
        <5> QED BY <5>1, <5>2, <5>3
      <4>3. ASSUME Fits'
            PROVE  /\ cpu'[0].top = Top(cpu[0].p)'
                   /\ \E b \in 0..Bot(cpu[0].p)' :
                        /\ cpu'[0].bot = Wrap(b)
                        /\ \A q \in steady'[0] : Seen(0, q)' => Beats(cpu[0].p, b, q)'
        <5>1. Top(cpu[0].p)' = Top(p) /\ Bot(cpu[0].p)' = Bot(p)
          BY <1>3, <3>1 DEF Top, Bot
        <5>2. \A b, q : Beats(cpu[0].p, b, q)' <=> Beats(p, b, q)
          BY <1>3, <3>1 DEF Beats, Top, Bot
        <5>3. Fits
          BY <2>4, <4>3
        <5> QED BY <3>1, <4>2, <5>1, <5>2, <5>3
      <4>4. cpu'[0].p # 0 /\ state'[cpu'[0].p] = "RUNNABLE"
        BY <2>4, <3>1, <3>3, <4>1
      <4> QED BY <4>3, <4>4 DEF LeastRatio
    <3> QED BY <3>2, <3>3
  <2> QED BY <2>9, <2>10
<1>4. CASE cpu'[0] = cpu[0] /\ cpu[0].pc = "loop" /\ cpu[0].i = 1
  BY <1>1, <1>4, <1>t DEF Scanning
<1> QED BY <1>1, <1>2, <1>3, <1>4, <1>t, ScanMoves

(* The scans go on as they should.                                         *)
LEMMA ScanningStep ==
  ASSUME SchedInv, Scanning, [SchedNext]_schedVars
  PROVE  Scanning'
<1>t. /\ policy' = policy /\ 0 \in CPUs /\ NPROC \in Nat /\ cpu \in [CPUs -> CpuRecord]
      /\ \A c \in CPUs : c \in Nat
  <2>1. policy' = policy
    BY Moves
  <2>2. cpu \in [CPUs -> CpuRecord]
    BY DEF SchedInv, SchedTypeOK, CpuRecord
  <2>3. 0 \in CPUs /\ NPROC \in Nat /\ \A c \in CPUs : c \in Nat
    BY SchedConstants DEF CPUs
  <2> QED BY <2>1, <2>2, <2>3
<1>1. ASSUME policy \in {"SRT", "CFSD"}, NEW c \in CPUs, cpu'[c].pc = "loop", cpu'[c].i = 1
      PROVE  cpu'[c] = AtTop
  <2>1. CASE cpu'[c] = cpu[c]
    BY <1>1, <2>1 DEF Scanning
  <2>2. CASE Scan(c)
    <3>1. cpu[c].i \in Procs /\ SchedTypeOK
      BY <1>t DEF CpuRecord, SchedInv
    <3>2. cpu[c].i \in Nat /\ cpu[c].i >= 1 /\ (cpu[c].i < NPROC \/ cpu[c].i = NPROC)
      BY <1>t, <3>1 DEF Procs
    <3>3. CASE cpu[c].i < NPROC
      <4>1. cpu'[c].i = cpu[c].i + 1
        BY <2>2, <3>1, <3>3, ScanDoes
      <4> QED BY <1>1, <3>2, <4>1
    <3>4. CASE cpu[c].i = NPROC
      BY <1>1, <2>2, <3>1, <3>4, ScanDoes
    <3> QED BY <3>2, <3>3, <3>4
  <2> QED BY <1>1, <2>1, <2>2, ScanMoves
<1>2. ASSUME policy \in {"SRT", "CFSD"}, NEW c \in CPUs, NEW q \in steady'[c]
      PROVE  state'[q] = "RUNNABLE"
  BY <1>2, TrackKeeps
<1>3. ASSUME policy = "SRT", NEW c \in CPUs, cpu'[c].pc # "run"
      PROVE  LeastBurst(c)'
  BY <1>t, <1>3, BurstStep
<1>4. ASSUME policy = "CFSD", UsedCPUs["CFSD"] = 1, NEW c \in CPUs, c # 0
      PROVE  cpu'[c].pc = "loop"
  <2>1. cpu[c].pc = "loop"
    BY <1>4 DEF Scanning
  <2>2. ~(c < UsedCPUs[policy])
    BY <1>t, <1>4
  <2> QED BY <2>1, <2>2, <1>4, Moves DEF Starts, Takes, Looks, Stops, Readies, Reaped, Rests, Others
<1>5. ASSUME policy = "CFSD", UsedCPUs["CFSD"] = 1, cpu'[0].pc # "run"
      PROVE  LeastRatio(0)'
  BY <1>t, <1>5, RatioStep
<1> QED BY <1>t, <1>1, <1>2, <1>3, <1>4, <1>5 DEF Scanning

(* At first no scan has seen anything.                                     *)
LEMMA ScanningInit ==
  ASSUME SchedInit
  PROVE  Scanning
<1>1. /\ \A c \in CPUs : cpu[c] = AtTop /\ cpu[c].pc = "loop" /\ cpu[c].p = 0
          /\ cpu[c].top = -1 /\ cpu[c].bot = -1
      /\ \A c \in CPUs : steady[c] = {}
      /\ 0 \in CPUs
  BY SchedConstants DEF SchedInit, AtTop, CPUs
<1> QED BY <1>1 DEF Scanning, LeastBurst, LeastRatio

(* The process that is taken is no worse than what has been RUNNABLE.      *)
LEMMA ChoiceStep ==
  ASSUME SchedInv, Scanning, [SchedNext]_schedVars, "CFSD" \in Policies => UsedCPUs["CFSD"] = 1,
         NEW c \in CPUs, policy \in {"SRT", "CFSD"}, cpu[c].pc = "picked", cpu'[c].pc = "run"
  PROVE  /\ state[cpu[c].p] = "RUNNABLE"
         /\ FitInt /\ cpu[c].p \in steady[c] => \A q \in steady[c] : NoBetter(cpu[c].p, q)
<1>t. /\ cpu[c].p \in Procs /\ cpu[c].p # 0 /\ policy \in Policies
      /\ steady \in [CPUs -> SUBSET Procs] /\ \A q \in Procs : Top(q) \in Nat /\ Bot(q) \in Nat
  <2>1. SchedTypeOK /\ cpu[c].p \in Procs
    BY DEF SchedInv, Running
  <2>2. cpu[c].p # 0
    BY <2>1, SchedConstants DEF Procs
  <2>3. policy \in Policies /\ steady \in [CPUs -> SUBSET Procs]
    BY <2>1 DEF SchedTypeOK
  <2>4. \A q \in Procs : Top(q) \in Nat /\ Bot(q) \in Nat
    BY <2>1, CountersType
  <2> QED BY <2>1, <2>2, <2>3, <2>4
<1>1. state[cpu[c].p] = "RUNNABLE"
  <2>1. ASSUME NEW d \in CPUs, NEW p \in Procs, Starts(d, p)
        PROVE  state[cpu[c].p] = "RUNNABLE"
    <3>1. d = c
      BY <2>1 DEF Starts, Others
    <3> QED BY <2>1, <3>1 DEF Starts
  <2> QED BY <2>1, Moves DEF Takes, Looks, Stops, Readies, Reaped, Rests, Others
<1>2. ASSUME policy = "SRT", NEW q \in steady[c]
      PROVE  NoBetter(cpu[c].p, q)
  BY <1>2 DEF Scanning, LeastBurst, Seen, NoBetter
<1>3. ASSUME policy = "CFSD", FitInt, cpu[c].p \in steady[c], NEW q \in steady[c]
      PROVE  NoBetter(cpu[c].p, q)
  <2>1. UsedCPUs["CFSD"] = 1 /\ c = 0
    BY <1>t, <1>3 DEF Scanning
  <2>2. LeastRatio(c)
    BY <1>3, <2>1 DEF Scanning
  <2>3. Fits
    BY <1>3 DEF FitInt, Fits
  <2>4. PICK b \in 0..Bot(cpu[c].p) : Beats(cpu[c].p, b, q)
    BY <1>t, <1>3, <2>2, <2>3 DEF LeastRatio, Seen
  <2>5. q \in Procs /\ Top(q) \in Nat /\ Bot(q) \in Nat /\ Top(cpu[c].p) \in Nat
          /\ Bot(cpu[c].p) \in Nat
    BY <1>t
  <2>6. Top(q) * b <= Top(q) * Bot(cpu[c].p) /\ Top(q) * b \in Nat /\ Top(q) * Bot(cpu[c].p) \in Nat
    BY <2>5, ProductGrows, Product
  <2>7. Top(cpu[c].p) * Bot(q) \in Nat
    BY <2>5, Product
  <2>8. Top(cpu[c].p) * Bot(q) <= Top(q) * Bot(cpu[c].p)
    BY <2>4, <2>6, <2>7 DEF Beats
  <2> QED BY <1>3, <2>4, <2>8 DEF NoBetter, Beats
<1> QED BY <1>1, <1>2, <1>3

(* SRT and CFSD take the process with the shortest average burst, or the   *)
(* smallest ratio, of those that were RUNNABLE all along (srt_sched and    *)
(* cfsd_sched of ass1/kernel/proc.c): SRT with any number of CPUs, CFSD    *)
(* with one.                                                               *)
THEOREM TakesTheLeast ==
  ("CFSD" \in Policies => UsedCPUs["CFSD"] = 1) => (Spec => ChoosesLeast)
<1> SUFFICES ASSUME "CFSD" \in Policies => UsedCPUs["CFSD"] = 1
             PROVE  Spec => ChoosesLeast
  OBVIOUS
<1>1. SchedInit => Scanning
  BY ScanningInit
<1>2. SchedInv /\ Scanning /\ [SchedNext]_schedVars => Scanning'
  BY ScanningStep
<1>3. SchedInv /\ Scanning /\ [SchedNext]_schedVars =>
        [\A c \in CPUs :
           policy \in {"SRT", "CFSD"} /\ cpu[c].pc = "picked" /\ cpu'[c].pc = "run" =>
             /\ state[cpu[c].p] = "RUNNABLE"
             /\ FitInt /\ cpu[c].p \in steady[c] => \A q \in steady[c] : NoBetter(cpu[c].p,
                 q)]_schedVars
  BY ChoiceStep
<1> QED BY <1>1, <1>2, <1>3, SchedulersInvariant, PTL DEF Spec, ChoosesLeast
=============================================================================
