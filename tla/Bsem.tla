-------------------------------- MODULE Bsem --------------------------------
(***************************************************************************)
(* The binary and counting semaphores of ass2 (kernel/proc.c, bsem_* and   *)
(* ccsem_alloc; user/Csemaphore.h only forwards to them) together with the *)
(* kernel code they block in: sleep, wakeup, sched, scheduler and yield.   *)
(*                                                                         *)
(* Every spinlock is modelled: the lock of a descriptor, wait_lock, and    *)
(* the lock of each thread.  A step is what the code does between two      *)
(* acquires or releases; the interrupts are off while a spinlock is held   *)
(* (push_off), so a thread that holds one keeps its CPU.  Outside the      *)
(* kernel a thread may be preempted (usertrap, devintr = 2): Preempt.      *)
(*                                                                         *)
(* Two acquire-test-release sections that touch one thread's record only   *)
(* are one step each: one turn of wakeup's loop and one turn of            *)
(* scheduler's loop.  Both still need that thread's lock to be free.       *)
(***************************************************************************)
EXTENDS Naturals, FiniteSets

CONSTANTS N,         (* threads in the table, in the order wakeup scans them *)
          NSem,      (* MAX_BSEM                                             *)
          CPUs,      (* the set of CPUs                                      *)
          MaxUnits,  (* largest initial_value a caller passes to ccsem_alloc *)
          NoThread   (* an idle CPU, a free lock                             *)

ASSUME BsemConstants ==
  /\ N \in Nat \ {0}
  /\ NSem \in Nat \ {0}
  /\ MaxUnits \in Nat \ {0}
  /\ NoThread \notin 1..N

Threads == 1..N
Sems    == 1..NSem
NoChan  == 0

VARIABLES
  free,      \* binsems[d].free
  value,     \* binsems[d].value
  maxValue,  \* binsems[d].max_value
  semLock,   \* who holds binsems[d].lock
  waitLock,  \* who holds wait_lock
  tlock,     \* is t->lock held (by t, or by the scheduler of its CPU)
  state,     \* t->state
  chan,      \* t->chan: a descriptor stands for &binsems[d]
  running,   \* c->thread
  pc,        \* where each thread is
  sem,       \* the descriptor of the call a thread is in, else 1
  cursor,    \* loop variable of the wakeup a thread is in, else 1
  known,     \* descriptors the callers got and have not given back
  held,      \* descriptors each thread came back from down with
  raced      \* descriptors that were allocated while not free

semVars   == <<free, value, maxValue>>
schedVars == <<tlock, state, chan, running>>
userVars  == <<known, held, raced>>
vars == <<free, value, maxValue, semLock, waitLock, tlock, state, chan,
          running, pc, sem, cursor, known, held, raced>>

PCs == {"user", "downAcq", "downTest", "downTake",
        "sleepAcq", "sleepRel", "sleepMark", "sleepSwtch", "sleepResume",
        "upWait", "upAcq", "upInc", "upScan",
        "allocTest", "allocAcq", "allocSet", "freeAcq", "freeSet",
        "yieldAcq", "yieldSwtch", "yieldResume"}

(* Saved: swtch has stored the thread's context, its stack is not in use. *)
Saved == {"sleepResume", "yieldResume"}

OnCpu(t) == \E c \in CPUs : running[c] = t

(* t is at label "from", on a CPU, and goes on at label "to". *)
Goto(t, from, to) ==
  /\ pc[t] = from
  /\ OnCpu(t)
  /\ pc' = [pc EXCEPT ![t] = to]

(* A user of d is between the call and the return of down, up or free. *)
Users(d) == {t \in Threads : /\ sem[t] = d
                             /\ pc[t] \notin {"user", "allocTest", "allocAcq",
                                  "allocSet", "yieldAcq", "yieldSwtch", "yieldResume"}}
Holders(d) == {t \in Threads : d \in held[t]}

(* procinit leaves value 1 and, in the zeroed table, max_value 0; every    *)
(* thread has been made RUNNABLE and its first switch leads to user mode.  *)
Init ==
  /\ free = [d \in Sems |-> TRUE]
  /\ value = [d \in Sems |-> 1]
  /\ maxValue = [d \in Sems |-> 0]
  /\ semLock = [d \in Sems |-> NoThread]
  /\ waitLock = NoThread
  /\ tlock = [t \in Threads |-> FALSE]
  /\ state = [t \in Threads |-> "RUNNABLE"]
  /\ chan = [t \in Threads |-> NoChan]
  /\ running = [c \in CPUs |-> NoThread]
  /\ pc = [t \in Threads |-> "yieldResume"]
  /\ sem = [t \in Threads |-> 1]
  /\ cursor = [t \in Threads |-> 1]
  /\ known = {}
  /\ held = [t \in Threads |-> {}]
  /\ raced = {}
-----------------------------------------------------------------------------
(* bsem_down.  The callers take descriptors in ascending order: a cycle of *)
(* threads that hold one and want another would be their own deadlock.     *)
CallDown(t, d) ==
  /\ Goto(t, "user", "downAcq")
  /\ d \in known
  /\ \A e \in held[t] : e < d
  /\ sem' = [sem EXCEPT ![t] = d]
  /\ UNCHANGED <<semVars, semLock, waitLock, schedVars, cursor, userVars>>

\* Variant: does not wait for the lock.
DownAcqUnlocked(t) ==
  /\ Goto(t, "downAcq", "downTest")
  /\ semLock' = [semLock EXCEPT ![sem[t]] = t]
  /\ UNCHANGED <<semVars, waitLock, schedVars, sem, cursor, userVars>>

DownAcq(t) ==
  /\ Goto(t, "downAcq", "downTest")
  /\ semLock[sem[t]] = NoThread
  /\ semLock' = [semLock EXCEPT ![sem[t]] = t]
  /\ UNCHANGED <<semVars, waitLock, schedVars, sem, cursor, userVars>>

DownTest(t) ==
  /\ Goto(t, "downTest", IF value[sem[t]] > 0 THEN "downTake" ELSE "sleepAcq")
  /\ UNCHANGED <<semVars, semLock, waitLock, schedVars, sem, cursor, userVars>>

DownTake(t) ==
  /\ Goto(t, "downTake", "user")
  /\ value' = [value EXCEPT ![sem[t]] = @ - 1]
  /\ semLock' = [semLock EXCEPT ![sem[t]] = NoThread]
  /\ held' = [held EXCEPT ![t] = @ \cup {sem[t]}]
  /\ sem' = [sem EXCEPT ![t] = 1]
  /\ UNCHANGED <<free, maxValue, waitLock, schedVars, cursor, known, raced>>
-----------------------------------------------------------------------------
(* sleep(&binsems[d], &binsems[d].lock) and the sched() it ends in. *)
SleepAcq(t) ==
  /\ Goto(t, "sleepAcq", "sleepRel")
  /\ ~tlock[t]
  /\ tlock' = [tlock EXCEPT ![t] = TRUE]
  /\ UNCHANGED <<semVars, semLock, waitLock, state, chan, running, sem, cursor, userVars>>

SleepRel(t) ==
  /\ Goto(t, "sleepRel", "sleepMark")
  /\ semLock' = [semLock EXCEPT ![sem[t]] = NoThread]
  /\ UNCHANGED <<semVars, waitLock, schedVars, sem, cursor, userVars>>

SleepMark(t) ==
  /\ Goto(t, "sleepMark", "sleepSwtch")
  /\ chan' = [chan EXCEPT ![t] = sem[t]]
  /\ state' = [state EXCEPT ![t] = "SLEEPING"]
  /\ UNCHANGED <<semVars, semLock, waitLock, tlock, running, sem, cursor, userVars>>

SleepSwtch(t) ==
  /\ Goto(t, "sleepSwtch", "sleepResume")
  /\ UNCHANGED <<semVars, semLock, waitLock, schedVars, sem, cursor, userVars>>

SleepResume(t) ==
  /\ Goto(t, "sleepResume", "downAcq")
  /\ state[t] = "RUNNING"
  /\ chan' = [chan EXCEPT ![t] = NoChan]
  /\ tlock' = [tlock EXCEPT ![t] = FALSE]
  /\ UNCHANGED <<semVars, semLock, waitLock, state, running, sem, cursor, userVars>>
-----------------------------------------------------------------------------
(* bsem_up, and the wakeup it ends in: one turn of its loop per UpScan. *)
CallUp(t, d) ==
  /\ Goto(t, "user", "upWait")
  /\ d \in held[t]
  /\ sem' = [sem EXCEPT ![t] = d]
  /\ UNCHANGED <<semVars, semLock, waitLock, schedVars, cursor, userVars>>

UpWait(t) ==
  /\ Goto(t, "upWait", "upAcq")
  /\ waitLock = NoThread
  /\ waitLock' = t
  /\ UNCHANGED <<semVars, semLock, schedVars, sem, cursor, userVars>>

UpAcq(t) ==
  /\ Goto(t, "upAcq", "upInc")
  /\ semLock[sem[t]] = NoThread
  /\ semLock' = [semLock EXCEPT ![sem[t]] = t]
  /\ UNCHANGED <<semVars, waitLock, schedVars, sem, cursor, userVars>>

UpInc(t) ==
  /\ Goto(t, "upInc", "upScan")
  /\ value' = [value EXCEPT ![sem[t]] = IF @ < maxValue[sem[t]] THEN @ + 1 ELSE @]
  /\ semLock' = [semLock EXCEPT ![sem[t]] = NoThread]
  /\ held' = [held EXCEPT ![t] = @ \ {sem[t]}]
  /\ UNCHANGED <<free, maxValue, waitLock, schedVars, sem, cursor, known, raced>>

(* The turn of wakeup's loop that looks at thread cursor[t]. *)
\* Variant: looks at a thread without its lock.
UpScanUnlocked(t) ==
  LET k == cursor[t] IN
  /\ Goto(t, "upScan", "upScan")
  /\ k \in Threads
  /\ IF k # t /\ state[k] = "SLEEPING" /\ chan[k] = sem[t]
     THEN state' = [state EXCEPT ![k] = "RUNNABLE"]
     ELSE UNCHANGED state
  /\ cursor' = [cursor EXCEPT ![t] = k + 1]
  /\ UNCHANGED <<semVars, semLock, waitLock, tlock, chan, running, sem, userVars>>

\* Variant: wakes the first sleeper only.
UpScanFirst(t) ==
  LET k == cursor[t] IN
  /\ Goto(t, "upScan", "upScan")
  /\ k \in Threads
  /\ k # t => ~tlock[k]
  /\ IF k # t /\ state[k] = "SLEEPING" /\ chan[k] = sem[t]
     THEN state' = [state EXCEPT ![k] = "RUNNABLE"]
     ELSE UNCHANGED state
  /\ cursor' = [cursor EXCEPT ![t] = IF state' # state THEN N + 1 ELSE k + 1]
  /\ UNCHANGED <<semVars, semLock, waitLock, tlock, chan, running, sem, userVars>>

UpScan(t) ==
  LET k == cursor[t] IN
  /\ Goto(t, "upScan", "upScan")
  /\ k \in Threads
  /\ k # t => ~tlock[k]
  /\ IF k # t /\ state[k] = "SLEEPING" /\ chan[k] = sem[t]
     THEN state' = [state EXCEPT ![k] = "RUNNABLE"]
     ELSE UNCHANGED state
  /\ cursor' = [cursor EXCEPT ![t] = k + 1]
  /\ UNCHANGED <<semVars, semLock, waitLock, tlock, chan, running, sem, userVars>>

UpDone(t) ==
  /\ Goto(t, "upScan", "user")
  /\ cursor[t] = N + 1
  /\ waitLock' = NoThread
  /\ sem' = [sem EXCEPT ![t] = 1]
  /\ cursor' = [cursor EXCEPT ![t] = 1]
  /\ UNCHANGED <<semVars, semLock, schedVars, userVars>>
-----------------------------------------------------------------------------
(* bsem_alloc (one unit) and ccsem_alloc (initial_value units).  The free  *)
(* flag is tested before the lock is taken and not again after.            *)
CallAlloc(t) ==
  /\ Goto(t, "user", "allocTest")
  /\ UNCHANGED <<semVars, semLock, waitLock, schedVars, sem, cursor, userVars>>

AllocTest(t) ==
  /\ \/ /\ free[sem[t]]
        /\ Goto(t, "allocTest", "allocAcq")
        /\ UNCHANGED sem
     \/ /\ ~free[sem[t]] /\ sem[t] < NSem
        /\ Goto(t, "allocTest", "allocTest")
        /\ sem' = [sem EXCEPT ![t] = @ + 1]
     \/ /\ ~free[sem[t]] /\ sem[t] = NSem      \* none left: return -1
        /\ Goto(t, "allocTest", "user")
        /\ sem' = [sem EXCEPT ![t] = 1]
  /\ UNCHANGED <<semVars, semLock, waitLock, schedVars, cursor, userVars>>

AllocAcq(t) ==
  /\ Goto(t, "allocAcq", "allocSet")
  /\ semLock[sem[t]] = NoThread
  /\ semLock' = [semLock EXCEPT ![sem[t]] = t]
  /\ UNCHANGED <<semVars, waitLock, schedVars, sem, cursor, userVars>>

\* Variant: one unit too many.
AllocSetOffByOne(t, n) ==
  LET d == sem[t] IN
  /\ Goto(t, "allocSet", "user")
  /\ free' = [free EXCEPT ![d] = FALSE]
  /\ maxValue' = [maxValue EXCEPT ![d] = n]
  /\ value' = [value EXCEPT ![d] = n + 1]
  /\ semLock' = [semLock EXCEPT ![d] = NoThread]
  /\ known' = known \cup {d}
  /\ raced' = IF free[d] THEN raced ELSE raced \cup {d}
  /\ sem' = [sem EXCEPT ![t] = 1]
  /\ UNCHANGED <<waitLock, schedVars, cursor, held>>

AllocSet(t, n) ==
  LET d == sem[t] IN
  /\ Goto(t, "allocSet", "user")
  /\ free' = [free EXCEPT ![d] = FALSE]
  /\ maxValue' = [maxValue EXCEPT ![d] = n]
  /\ value' = [value EXCEPT ![d] = n]
  /\ semLock' = [semLock EXCEPT ![d] = NoThread]
  /\ known' = known \cup {d}
  /\ raced' = IF free[d] THEN raced ELSE raced \cup {d}
  /\ sem' = [sem EXCEPT ![t] = 1]
  /\ UNCHANGED <<waitLock, schedVars, cursor, held>>
-----------------------------------------------------------------------------
(* bsem_free.  Freeing a semaphore that threads are blocked on is left     *)
(* undefined by the assignment (section 4.1); the callers free one nobody  *)
(* uses or holds, and none of them uses it after the call.                 *)
CallFree(t, d) ==
  /\ Goto(t, "user", "freeAcq")
  /\ d \in known
  /\ Users(d) = {}
  /\ Holders(d) = {}
  /\ known' = known \ {d}
  /\ sem' = [sem EXCEPT ![t] = d]
  /\ UNCHANGED <<semVars, semLock, waitLock, schedVars, cursor, held, raced>>

FreeAcq(t) ==
  /\ Goto(t, "freeAcq", "freeSet")
  /\ semLock[sem[t]] = NoThread
  /\ semLock' = [semLock EXCEPT ![sem[t]] = t]
  /\ UNCHANGED <<semVars, waitLock, schedVars, sem, cursor, userVars>>

FreeSet(t) ==
  /\ Goto(t, "freeSet", "user")
  /\ free' = [free EXCEPT ![sem[t]] = TRUE]
  /\ value' = [value EXCEPT ![sem[t]] = maxValue[sem[t]]]
  /\ semLock' = [semLock EXCEPT ![sem[t]] = NoThread]
  /\ sem' = [sem EXCEPT ![t] = 1]
  /\ UNCHANGED <<maxValue, waitLock, schedVars, cursor, userVars>>
-----------------------------------------------------------------------------
(* yield(), called by usertrap on a timer interrupt in user mode. *)
Preempt(t) ==
  /\ Goto(t, "user", "yieldAcq")
  /\ UNCHANGED <<semVars, semLock, waitLock, schedVars, sem, cursor, userVars>>

YieldAcq(t) ==
  /\ Goto(t, "yieldAcq", "yieldSwtch")
  /\ ~tlock[t]
  /\ tlock' = [tlock EXCEPT ![t] = TRUE]
  /\ state' = [state EXCEPT ![t] = "RUNNABLE"]
  /\ UNCHANGED <<semVars, semLock, waitLock, chan, running, sem, cursor, userVars>>

YieldSwtch(t) ==
  /\ Goto(t, "yieldSwtch", "yieldResume")
  /\ UNCHANGED <<semVars, semLock, waitLock, schedVars, sem, cursor, userVars>>

YieldResume(t) ==
  /\ Goto(t, "yieldResume", "user")
  /\ state[t] = "RUNNING"
  /\ tlock' = [tlock EXCEPT ![t] = FALSE]
  /\ UNCHANGED <<semVars, semLock, waitLock, state, chan, running, sem, cursor, userVars>>
-----------------------------------------------------------------------------
(* scheduler(): an idle CPU takes the lock of a RUNNABLE thread and        *)
(* switches to it, the lock still held ...                                 *)
\* Variant: does not wait for the thread's lock.
DispatchUnlocked(c, t) ==
  /\ running[c] = NoThread
  /\ state[t] = "RUNNABLE"
  /\ tlock' = [tlock EXCEPT ![t] = TRUE]
  /\ state' = [state EXCEPT ![t] = "RUNNING"]
  /\ running' = [running EXCEPT ![c] = t]
  /\ UNCHANGED <<semVars, semLock, waitLock, chan, pc, sem, cursor, userVars>>

Dispatch(c, t) ==
  /\ running[c] = NoThread
  /\ ~tlock[t]
  /\ state[t] = "RUNNABLE"
  /\ tlock' = [tlock EXCEPT ![t] = TRUE]
  /\ state' = [state EXCEPT ![t] = "RUNNING"]
  /\ running' = [running EXCEPT ![c] = t]
  /\ UNCHANGED <<semVars, semLock, waitLock, chan, pc, sem, cursor, userVars>>

(* ... and releases it when the thread has switched back. *)
SchedRelease(c) ==
  /\ running[c] # NoThread
  /\ pc[running[c]] \in Saved
  /\ state[running[c]] # "RUNNING"
  /\ tlock' = [tlock EXCEPT ![running[c]] = FALSE]
  /\ running' = [running EXCEPT ![c] = NoThread]
  /\ UNCHANGED <<semVars, semLock, waitLock, state, chan, pc, sem, cursor, userVars>>
-----------------------------------------------------------------------------
(* What a thread does once it has called into the kernel. *)
Kernel(t) ==
  \/ DownAcq(t) \/ DownTest(t) \/ DownTake(t)
  \/ SleepAcq(t) \/ SleepRel(t) \/ SleepMark(t) \/ SleepSwtch(t) \/ SleepResume(t)
  \/ UpWait(t) \/ UpAcq(t) \/ UpInc(t) \/ UpScan(t) \/ UpDone(t)
  \/ AllocTest(t) \/ AllocAcq(t) \/ (\E n \in 1..MaxUnits : AllocSet(t, n))
  \/ FreeAcq(t) \/ FreeSet(t)
  \/ YieldAcq(t) \/ YieldSwtch(t) \/ YieldResume(t)

User(t) ==
  \/ \E d \in Sems : CallDown(t, d) \/ CallUp(t, d) \/ CallFree(t, d)
  \/ CallAlloc(t)
  \/ Preempt(t)

Next ==
  \/ \E t \in Threads : Kernel(t) \/ User(t)
  \/ \E c \in CPUs : SchedRelease(c) \/ \E t \in Threads : Dispatch(c, t)

Spec == Init /\ [][Next]_vars
-----------------------------------------------------------------------------
TypeOK ==
  /\ free \in [Sems -> BOOLEAN]
  /\ value \in [Sems -> Nat]
  /\ maxValue \in [Sems -> Nat]
  /\ semLock \in [Sems -> Threads \cup {NoThread}]
  /\ waitLock \in Threads \cup {NoThread}
  /\ tlock \in [Threads -> BOOLEAN]
  /\ state \in [Threads -> {"RUNNABLE", "RUNNING", "SLEEPING"}]
  /\ chan \in [Threads -> Sems \cup {NoChan}]
  /\ running \in [CPUs -> Threads \cup {NoThread}]
  /\ pc \in [Threads -> PCs]
  /\ sem \in [Threads -> Sems]
  /\ cursor \in [Threads -> 1..(N + 1)]
  /\ known \in SUBSET Sems
  /\ held \in [Threads -> SUBSET Sems]
  /\ raced \in SUBSET Sems

(* Never do more threads hold a unit of a semaphore than it was created    *)
(* with, and a unit is neither lost nor made: value counts exactly those   *)
(* that nobody holds.  bsem_down takes one, bsem_up gives it back and is   *)
(* never the call that hits the max_value cap.  Says nothing of a          *)
(* descriptor that two allocators got (see raced).              *)
UnitsConserved ==
  \A d \in known \ raced :
    /\ value[d] + Cardinality(Holders(d)) = maxValue[d]
    /\ Cardinality(Holders(d)) <= maxValue[d]

(* No wake-up is lost between the test in bsem_down and the sleep: while a *)
(* thread sleeps on a semaphore (or is past the point of no return), the   *)
(* semaphore has no unit, or the wakeup that follows a bsem_up has not     *)
(* reached this thread yet.                                                *)
Asleep(t) == pc[t] \in {"sleepMark", "sleepSwtch"} \/ state[t] = "SLEEPING"
WakeupOnItsWay(t) ==
  \E u \in Threads : pc[u] = "upScan" /\ sem[u] = sem[t] /\ cursor[u] <= t
NoLostWakeup ==
  \A t \in Threads :
    Asleep(t) /\ sem[t] \notin raced => value[sem[t]] = 0 \/ WakeupOnItsWay(t)

(* What sched() panics about: whoever switches away holds its own lock and *)
(* no other spinlock (sched locks), and is not RUNNING (sched running).    *)
SchedLocks ==
  \A t \in Threads : pc[t] \in {"sleepSwtch", "yieldSwtch"} =>
    /\ tlock[t]
    /\ state[t] # "RUNNING"
    /\ waitLock # t
    /\ \A d \in Sems : semLock[d] # t

(* The t->lock handed over in swtch keeps a thread on one CPU: no two CPUs *)
(* run the same thread, and one that any CPU may pick up has its context   *)
(* saved and is off the CPU it ran on.                                     *)
OneCpuPerThread ==
  /\ \A c1, c2 \in CPUs : running[c1] = running[c2] /\ running[c1] # NoThread => c1 = c2
  /\ \A t \in Threads :
       state[t] = "RUNNABLE" /\ ~tlock[t] => pc[t] \in Saved /\ ~OnCpu(t)

(* The discipline of sched, whole.                                          *)
SchedSafe == SchedLocks /\ OneCpuPerThread

(* The locks, the sleep queue and the scheduler implement a counting       *)
(* semaphore: every step is an acquisition while a unit is left, a release *)
(* or nothing.                                                             *)
Abstract == INSTANCE CountingSem WITH
              units   <- maxValue,
              holders <- [d \in Sems |-> Holders(d)],
              void    <- raced
ImplementsCountingSem == Abstract!Spec

(* A thread inside the kernel goes on, and so does a scheduler that holds  *)
(* a thread's lock; strong fairness, for a spinlock that is free again and *)
(* again is taken in the end.  No thread is made to call anything, to give *)
(* its unit back or to be dispatched.                                      *)
Fairness ==
  /\ \A t \in Threads : SF_vars(Kernel(t))
  /\ \A c \in CPUs : WF_vars(SchedRelease(c))

FairSpec == Spec /\ Fairness

(* A thread that sleeps in bsem_down while its semaphore has a unit is     *)
(* woken, wherever in the table it is and whoever else sleeps.             *)
SleeperWoken ==
  \A t \in Threads :
    state[t] = "SLEEPING" /\ value[sem[t]] > 0 ~> state[t] # "SLEEPING" \/ raced # {}
============================================================================
