----------------------------- MODULE BsemProofs -----------------------------
(***************************************************************************)
(* Proofs about Bsem, for every number of threads, descriptors and CPUs.   *)
(* The inductive invariant is built in layers; each layer is inductive     *)
(* relative to the ones before it, and one lemma per layer goes through    *)
(* the actions.                                                            *)
(***************************************************************************)
EXTENDS Bsem, FiniteSetTheorems, TLAPS

(* Layer 1: who is inside the lock of a descriptor, and inside wait_lock. *)
InSemLock  == {"downTest", "downTake", "sleepAcq", "sleepRel", "upInc", "allocSet", "freeSet"}
InWaitLock == {"upAcq", "upInc", "upScan"}
SpinLocks ==
  /\ \A t \in Threads, d \in Sems : semLock[d] = t <=> pc[t] \in InSemLock /\ sem[t] = d
  /\ \A t \in Threads : waitLock = t <=> pc[t] \in InWaitLock

(* Layer 2: what a lock holder has read stays true until it lets go. *)
ValueRead ==
  \A t \in Threads : /\ pc[t] = "downTake" => value[sem[t]] > 0
                     /\ pc[t] \in {"sleepAcq", "sleepRel"} => value[sem[t]] = 0

(* Layer 3: t->lock, t->state and c->thread tell the same story. *)
SwitchingPCs == {"sleepSwtch", "yieldSwtch"}
OwnLockPCs   == SwitchingPCs \cup {"sleepRel", "sleepMark"}
OnOneCpu ==
  \A c1, c2 \in CPUs : running[c1] = running[c2] /\ running[c1] # NoThread => c1 = c2
ThreadLocks ==
  \A t \in Threads :
    /\ pc[t] \in OwnLockPCs => tlock[t]
    /\ pc[t] \notin Saved => OnCpu(t)
    /\ pc[t] \in Saved => (tlock[t] <=> OnCpu(t))
ThreadStates ==
  \A t \in Threads :
    /\ state[t] # "RUNNING" => pc[t] \in Saved \cup SwitchingPCs
    /\ pc[t] \in SwitchingPCs => state[t] # "RUNNING"
    /\ state[t] = "RUNNING" => OnCpu(t)
SchedInv == OnOneCpu /\ ThreadLocks /\ ThreadStates

(* Layer 4: the callers' discipline as the kernel sees it.  A descriptor   *)
(* somebody uses or holds is known; a known one that was not handed out    *)
(* twice is not free; one that is being given back is not known.           *)
TakingPCs  == {"downAcq", "downTest", "downTake", "sleepAcq", "sleepRel",
               "sleepMark", "sleepSwtch", "sleepResume"}
GivingPCs  == {"upWait", "upAcq", "upInc"}
FreeingPCs == {"freeAcq", "freeSet"}
InUse ==
  \A t \in Threads :
    /\ pc[t] \in TakingPCs => sem[t] \in known /\ sem[t] \notin held[t]
    /\ pc[t] \in GivingPCs => sem[t] \in held[t]
    /\ pc[t] = "upScan" => sem[t] \in known
    /\ held[t] \subseteq known
Freeing ==
  /\ \A d \in known : d \notin raced => ~free[d]
  /\ \A t \in Threads : pc[t] \in FreeingPCs /\ sem[t] \notin raced =>
       /\ sem[t] \notin known
       /\ ~free[sem[t]]
       /\ \A u \in Threads : pc[u] \in FreeingPCs /\ sem[u] = sem[t] => u = t
CallerInv == InUse /\ Freeing

(* Layer 5: no lost wake-up, with where a sleeper is and what it waits for. *)
Sleepers ==
  \A t \in Threads :
    /\ state[t] = "SLEEPING" => pc[t] \in {"sleepSwtch", "sleepResume"} /\ chan[t] = sem[t]
    /\ pc[t] # "upScan" => cursor[t] = 1
WakeInv == Sleepers /\ NoLostWakeup

-----------------------------------------------------------------------------
LEMMA ThreadFacts ==
  NoThread \notin Threads /\ 1 \in Sems /\ 1 \in 1..(N+1)
BY BsemConstants DEF Threads, Sems

LEMMA StepRanges ==
  /\ \A k \in Threads : k + 1 \in 1..(N+1)
  /\ \A d \in Sems : d # NSem => d + 1 \in Sems
  /\ 1..MaxUnits \subseteq Nat
  /\ \A d \in Sems : ~(d < d)
  /\ \A t \in Threads : 1 <= t /\ ~(N + 1 <= t)
  /\ \A k, t \in Threads : k <= t => k = t \/ k + 1 <= t
BY BsemConstants DEF Threads, Sems

LEMMA TypeStep == TypeOK /\ ValueRead /\ [Next]_vars => TypeOK'
<1> SUFFICES ASSUME TypeOK, ValueRead, [Next]_vars PROVE TypeOK'
  OBVIOUS
<1> USE ThreadFacts DEF TypeOK, Goto, PCs, semVars, schedVars, userVars
<1>1. ASSUME NEW t \in Threads, DownAcq(t) PROVE TypeOK'
  BY <1>1 DEF DownAcq
<1>2. ASSUME NEW t \in Threads, DownTest(t) PROVE TypeOK'
  BY <1>2 DEF DownTest
<1>3. ASSUME NEW t \in Threads, DownTake(t) PROVE TypeOK'
  <2>1. sem[t] \in Sems /\ value[sem[t]] \in Nat /\ value[sem[t]] > 0
    BY <1>3 DEF DownTake, ValueRead
  <2>2. value[sem[t]] - 1 \in Nat /\ held[t] \cup {sem[t]} \in SUBSET Sems
    BY <2>1
  <2> QED BY <1>3, <2>1, <2>2 DEF DownTake
<1>4. ASSUME NEW t \in Threads, SleepAcq(t) PROVE TypeOK'
  BY <1>4 DEF SleepAcq
<1>5. ASSUME NEW t \in Threads, SleepRel(t) PROVE TypeOK'
  BY <1>5 DEF SleepRel
<1>6. ASSUME NEW t \in Threads, SleepMark(t) PROVE TypeOK'
  BY <1>6 DEF SleepMark
<1>7. ASSUME NEW t \in Threads, SleepSwtch(t) PROVE TypeOK'
  BY <1>7 DEF SleepSwtch
<1>8. ASSUME NEW t \in Threads, SleepResume(t) PROVE TypeOK'
  BY <1>8 DEF SleepResume
<1>9. ASSUME NEW t \in Threads, UpWait(t) PROVE TypeOK'
  BY <1>9 DEF UpWait
<1>10. ASSUME NEW t \in Threads, UpAcq(t) PROVE TypeOK'
  BY <1>10 DEF UpAcq
<1>11. ASSUME NEW t \in Threads, UpInc(t) PROVE TypeOK'
  <2>1. sem[t] \in Sems /\ value[sem[t]] \in Nat /\ value[sem[t]] + 1 \in Nat
    BY <1>11
  <2>2. held[t] \ {sem[t]} \in SUBSET Sems
    BY <1>11
  <2> QED BY <1>11, <2>1, <2>2 DEF UpInc
<1>12. ASSUME NEW t \in Threads, UpScan(t) PROVE TypeOK'
  BY <1>12, StepRanges DEF UpScan
<1>13. ASSUME NEW t \in Threads, UpDone(t) PROVE TypeOK'
  BY <1>13 DEF UpDone
<1>14. ASSUME NEW t \in Threads, AllocTest(t) PROVE TypeOK'
  <2>1. sem[t] \in Sems /\ (sem[t] # NSem => sem[t] + 1 \in Sems)
    BY <1>14, StepRanges
  <2>2. sem[t] < NSem => sem[t] # NSem
    BY <2>1, BsemConstants DEF Sems
  <2>3. sem' \in [Threads -> Sems]
    BY <1>14, <2>1, <2>2 DEF AllocTest
  <2>4. pc' \in [Threads -> PCs]
    BY <1>14 DEF AllocTest
  <2> QED BY <1>14, <2>3, <2>4 DEF AllocTest
<1>15. ASSUME NEW t \in Threads, AllocAcq(t) PROVE TypeOK'
  BY <1>15 DEF AllocAcq
<1>16. ASSUME NEW t \in Threads, NEW n \in 1..MaxUnits, AllocSet(t, n) PROVE TypeOK'
  BY <1>16, StepRanges DEF AllocSet
<1>17. ASSUME NEW t \in Threads, FreeAcq(t) PROVE TypeOK'
  BY <1>17 DEF FreeAcq
<1>18. ASSUME NEW t \in Threads, FreeSet(t) PROVE TypeOK'
  BY <1>18 DEF FreeSet
<1>19. ASSUME NEW t \in Threads, YieldAcq(t) PROVE TypeOK'
  BY <1>19 DEF YieldAcq
<1>20. ASSUME NEW t \in Threads, YieldSwtch(t) PROVE TypeOK'
  BY <1>20 DEF YieldSwtch
<1>21. ASSUME NEW t \in Threads, YieldResume(t) PROVE TypeOK'
  BY <1>21 DEF YieldResume
<1>22. ASSUME NEW t \in Threads, NEW d \in Sems, CallDown(t, d) PROVE TypeOK'
  BY <1>22 DEF CallDown
<1>23. ASSUME NEW t \in Threads, NEW d \in Sems, CallUp(t, d) PROVE TypeOK'
  BY <1>23 DEF CallUp
<1>24. ASSUME NEW t \in Threads, NEW d \in Sems, CallFree(t, d) PROVE TypeOK'
  BY <1>24 DEF CallFree
<1>25. ASSUME NEW t \in Threads, CallAlloc(t) PROVE TypeOK'
  BY <1>25 DEF CallAlloc
<1>26. ASSUME NEW t \in Threads, Preempt(t) PROVE TypeOK'
  BY <1>26 DEF Preempt
<1>27. ASSUME NEW c \in CPUs, NEW t \in Threads, Dispatch(c, t) PROVE TypeOK'
  BY <1>27 DEF Dispatch
<1>28. ASSUME NEW c \in CPUs, SchedRelease(c) PROVE TypeOK'
  BY <1>28 DEF SchedRelease
<1>29. CASE UNCHANGED vars
  BY <1>29 DEF vars
<1> QED
  BY <1>1, <1>2, <1>3, <1>4, <1>5, <1>6, <1>7, <1>8, <1>9, <1>10, <1>11,
     <1>12, <1>13, <1>14, <1>15, <1>16, <1>17, <1>18, <1>19, <1>20, <1>21,
     <1>22, <1>23, <1>24, <1>25, <1>26, <1>27, <1>28, <1>29 DEF Next,
     Kernel, User

LEMMA SpinStep == TypeOK /\ SpinLocks /\ [Next]_vars => SpinLocks'
<1> SUFFICES ASSUME TypeOK, SpinLocks, [Next]_vars PROVE SpinLocks'
  OBVIOUS
<1>0. /\ semLock \in [Sems -> Threads \cup {NoThread}]
      /\ waitLock \in Threads \cup {NoThread}
      /\ pc \in [Threads -> PCs]
      /\ sem \in [Threads -> Sems]
  BY DEF TypeOK
<1> USE <1>0, ThreadFacts DEF SpinLocks, Goto, InSemLock, InWaitLock, semVars, schedVars, userVars
<1>1. ASSUME NEW t \in Threads, DownAcq(t) PROVE SpinLocks'
  BY <1>1 DEF DownAcq
<1>2. ASSUME NEW t \in Threads, DownTest(t) PROVE SpinLocks'
  BY <1>2 DEF DownTest
<1>3. ASSUME NEW t \in Threads, DownTake(t) PROVE SpinLocks'
  BY <1>3 DEF DownTake
<1>4. ASSUME NEW t \in Threads, SleepAcq(t) PROVE SpinLocks'
  BY <1>4 DEF SleepAcq
<1>5. ASSUME NEW t \in Threads, SleepRel(t) PROVE SpinLocks'
  BY <1>5 DEF SleepRel
<1>6. ASSUME NEW t \in Threads, SleepMark(t) PROVE SpinLocks'
  BY <1>6 DEF SleepMark
<1>7. ASSUME NEW t \in Threads, SleepSwtch(t) PROVE SpinLocks'
  BY <1>7 DEF SleepSwtch
<1>8. ASSUME NEW t \in Threads, SleepResume(t) PROVE SpinLocks'
  BY <1>8 DEF SleepResume
<1>9. ASSUME NEW t \in Threads, UpWait(t) PROVE SpinLocks'
  BY <1>9 DEF UpWait
<1>10. ASSUME NEW t \in Threads, UpAcq(t) PROVE SpinLocks'
  BY <1>10 DEF UpAcq
<1>11. ASSUME NEW t \in Threads, UpInc(t) PROVE SpinLocks'
  BY <1>11 DEF UpInc
<1>12. ASSUME NEW t \in Threads, UpScan(t) PROVE SpinLocks'
  BY <1>12 DEF UpScan
<1>13. ASSUME NEW t \in Threads, UpDone(t) PROVE SpinLocks'
  BY <1>13 DEF UpDone
<1>14. ASSUME NEW t \in Threads, AllocTest(t) PROVE SpinLocks'
  BY <1>14 DEF AllocTest
<1>15. ASSUME NEW t \in Threads, AllocAcq(t) PROVE SpinLocks'
  BY <1>15 DEF AllocAcq
<1>16. ASSUME NEW t \in Threads, NEW n \in 1..MaxUnits, AllocSet(t, n) PROVE SpinLocks'
  BY <1>16 DEF AllocSet
<1>17. ASSUME NEW t \in Threads, FreeAcq(t) PROVE SpinLocks'
  BY <1>17 DEF FreeAcq
<1>18. ASSUME NEW t \in Threads, FreeSet(t) PROVE SpinLocks'
  BY <1>18 DEF FreeSet
<1>19. ASSUME NEW t \in Threads, YieldAcq(t) PROVE SpinLocks'
  BY <1>19 DEF YieldAcq
<1>20. ASSUME NEW t \in Threads, YieldSwtch(t) PROVE SpinLocks'
  BY <1>20 DEF YieldSwtch
<1>21. ASSUME NEW t \in Threads, YieldResume(t) PROVE SpinLocks'
  BY <1>21 DEF YieldResume
<1>22. ASSUME NEW t \in Threads, NEW d \in Sems, CallDown(t, d) PROVE SpinLocks'
  BY <1>22 DEF CallDown
<1>23. ASSUME NEW t \in Threads, NEW d \in Sems, CallUp(t, d) PROVE SpinLocks'
  BY <1>23 DEF CallUp
<1>24. ASSUME NEW t \in Threads, NEW d \in Sems, CallFree(t, d) PROVE SpinLocks'
  BY <1>24 DEF CallFree
<1>25. ASSUME NEW t \in Threads, CallAlloc(t) PROVE SpinLocks'
  BY <1>25 DEF CallAlloc
<1>26. ASSUME NEW t \in Threads, Preempt(t) PROVE SpinLocks'
  BY <1>26 DEF Preempt
<1>27. ASSUME NEW c \in CPUs, NEW t \in Threads, Dispatch(c, t) PROVE SpinLocks'
  BY <1>27 DEF Dispatch
<1>28. ASSUME NEW c \in CPUs, SchedRelease(c) PROVE SpinLocks'
  BY <1>28 DEF SchedRelease
<1>29. CASE UNCHANGED vars
  BY <1>29 DEF vars
<1> QED
  BY <1>1, <1>2, <1>3, <1>4, <1>5, <1>6, <1>7, <1>8, <1>9, <1>10, <1>11,
     <1>12, <1>13, <1>14, <1>15, <1>16, <1>17, <1>18, <1>19, <1>20, <1>21,
     <1>22, <1>23, <1>24, <1>25, <1>26, <1>27, <1>28, <1>29 DEF Next,
     Kernel, User

LEMMA ValueStep == TypeOK /\ SpinLocks /\ ValueRead /\ [Next]_vars => ValueRead'
<1> SUFFICES ASSUME TypeOK, SpinLocks, ValueRead, [Next]_vars PROVE ValueRead'
  OBVIOUS
<1>0. /\ value \in [Sems -> Nat]
      /\ pc \in [Threads -> PCs]
      /\ sem \in [Threads -> Sems]
      /\ \A t \in Threads, u \in Threads :
           pc[t] \in InSemLock /\ pc[u] \in InSemLock /\ sem[t] = sem[u] => t = u
  BY DEF TypeOK, SpinLocks
<1> USE <1>0, ThreadFacts DEF ValueRead, Goto, InSemLock, semVars, schedVars, userVars
<1>1. ASSUME NEW t \in Threads, DownAcq(t) PROVE ValueRead'
  BY <1>1 DEF DownAcq
<1>2. ASSUME NEW t \in Threads, DownTest(t) PROVE ValueRead'
  <2>1. value[sem[t]] \in Nat /\ (value[sem[t]] > 0 \/ value[sem[t]] = 0)
    BY <1>2
  <2>2. CASE value[sem[t]] > 0
    BY <1>2, <2>2 DEF DownTest
  <2>3. CASE value[sem[t]] = 0
    BY <1>2, <2>3 DEF DownTest
  <2> QED BY <1>2, <2>1, <2>2, <2>3
<1>3. ASSUME NEW t \in Threads, DownTake(t) PROVE ValueRead'
  BY <1>3 DEF DownTake
<1>4. ASSUME NEW t \in Threads, SleepAcq(t) PROVE ValueRead'
  BY <1>4 DEF SleepAcq
<1>5. ASSUME NEW t \in Threads, SleepRel(t) PROVE ValueRead'
  BY <1>5 DEF SleepRel
<1>6. ASSUME NEW t \in Threads, SleepMark(t) PROVE ValueRead'
  BY <1>6 DEF SleepMark
<1>7. ASSUME NEW t \in Threads, SleepSwtch(t) PROVE ValueRead'
  BY <1>7 DEF SleepSwtch
<1>8. ASSUME NEW t \in Threads, SleepResume(t) PROVE ValueRead'
  BY <1>8 DEF SleepResume
<1>9. ASSUME NEW t \in Threads, UpWait(t) PROVE ValueRead'
  BY <1>9 DEF UpWait
<1>10. ASSUME NEW t \in Threads, UpAcq(t) PROVE ValueRead'
  BY <1>10 DEF UpAcq
<1>11. ASSUME NEW t \in Threads, UpInc(t) PROVE ValueRead'
  BY <1>11 DEF UpInc
<1>12. ASSUME NEW t \in Threads, UpScan(t) PROVE ValueRead'
  BY <1>12 DEF UpScan
<1>13. ASSUME NEW t \in Threads, UpDone(t) PROVE ValueRead'
  BY <1>13 DEF UpDone
<1>14. ASSUME NEW t \in Threads, AllocTest(t) PROVE ValueRead'
  BY <1>14 DEF AllocTest
<1>15. ASSUME NEW t \in Threads, AllocAcq(t) PROVE ValueRead'
  BY <1>15 DEF AllocAcq
<1>16. ASSUME NEW t \in Threads, NEW n \in 1..MaxUnits, AllocSet(t, n) PROVE ValueRead'
  BY <1>16 DEF AllocSet
<1>17. ASSUME NEW t \in Threads, FreeAcq(t) PROVE ValueRead'
  BY <1>17 DEF FreeAcq
<1>18. ASSUME NEW t \in Threads, FreeSet(t) PROVE ValueRead'
  BY <1>18 DEF FreeSet
<1>19. ASSUME NEW t \in Threads, YieldAcq(t) PROVE ValueRead'
  BY <1>19 DEF YieldAcq
<1>20. ASSUME NEW t \in Threads, YieldSwtch(t) PROVE ValueRead'
  BY <1>20 DEF YieldSwtch
<1>21. ASSUME NEW t \in Threads, YieldResume(t) PROVE ValueRead'
  BY <1>21 DEF YieldResume
<1>22. ASSUME NEW t \in Threads, NEW d \in Sems, CallDown(t, d) PROVE ValueRead'
  BY <1>22 DEF CallDown
<1>23. ASSUME NEW t \in Threads, NEW d \in Sems, CallUp(t, d) PROVE ValueRead'
  BY <1>23 DEF CallUp
<1>24. ASSUME NEW t \in Threads, NEW d \in Sems, CallFree(t, d) PROVE ValueRead'
  BY <1>24 DEF CallFree
<1>25. ASSUME NEW t \in Threads, CallAlloc(t) PROVE ValueRead'
  BY <1>25 DEF CallAlloc
<1>26. ASSUME NEW t \in Threads, Preempt(t) PROVE ValueRead'
  BY <1>26 DEF Preempt
<1>27. ASSUME NEW c \in CPUs, NEW t \in Threads, Dispatch(c, t) PROVE ValueRead'
  BY <1>27 DEF Dispatch
<1>28. ASSUME NEW c \in CPUs, SchedRelease(c) PROVE ValueRead'
  BY <1>28 DEF SchedRelease
<1>29. CASE UNCHANGED vars
  BY <1>29 DEF vars
<1> QED
  BY <1>1, <1>2, <1>3, <1>4, <1>5, <1>6, <1>7, <1>8, <1>9, <1>10, <1>11,
     <1>12, <1>13, <1>14, <1>15, <1>16, <1>17, <1>18, <1>19, <1>20, <1>21,
     <1>22, <1>23, <1>24, <1>25, <1>26, <1>27, <1>28, <1>29 DEF Next,
     Kernel, User

LEMMA SchedStep == TypeOK /\ SchedInv /\ [Next]_vars => SchedInv'
<1> SUFFICES ASSUME TypeOK, SchedInv, [Next]_vars PROVE SchedInv'
  OBVIOUS
<1>0. /\ tlock \in [Threads -> BOOLEAN]
      /\ state \in [Threads -> {"RUNNABLE", "RUNNING", "SLEEPING"}]
      /\ running \in [CPUs -> Threads \cup {NoThread}]
      /\ pc \in [Threads -> PCs]
  BY DEF TypeOK
<1> USE <1>0, ThreadFacts DEF SchedInv, OnOneCpu, ThreadLocks, ThreadStates, OnCpu, Saved, SwitchingPCs, OwnLockPCs, Goto, semVars, schedVars, userVars
<1>1. ASSUME NEW t \in Threads, DownAcq(t) PROVE SchedInv'
  BY <1>1 DEF DownAcq
<1>2. ASSUME NEW t \in Threads, DownTest(t) PROVE SchedInv'
  BY <1>2 DEF DownTest
<1>3. ASSUME NEW t \in Threads, DownTake(t) PROVE SchedInv'
  BY <1>3 DEF DownTake
<1>4. ASSUME NEW t \in Threads, SleepAcq(t) PROVE SchedInv'
  BY <1>4 DEF SleepAcq
<1>5. ASSUME NEW t \in Threads, SleepRel(t) PROVE SchedInv'
  BY <1>5 DEF SleepRel
<1>6. ASSUME NEW t \in Threads, SleepMark(t) PROVE SchedInv'
  BY <1>6 DEF SleepMark
<1>7. ASSUME NEW t \in Threads, SleepSwtch(t) PROVE SchedInv'
  BY <1>7 DEF SleepSwtch
<1>8. ASSUME NEW t \in Threads, SleepResume(t) PROVE SchedInv'
  BY <1>8 DEF SleepResume
<1>9. ASSUME NEW t \in Threads, UpWait(t) PROVE SchedInv'
  BY <1>9 DEF UpWait
<1>10. ASSUME NEW t \in Threads, UpAcq(t) PROVE SchedInv'
  BY <1>10 DEF UpAcq
<1>11. ASSUME NEW t \in Threads, UpInc(t) PROVE SchedInv'
  BY <1>11 DEF UpInc
<1>12. ASSUME NEW t \in Threads, UpScan(t) PROVE SchedInv'
  BY <1>12 DEF UpScan
<1>13. ASSUME NEW t \in Threads, UpDone(t) PROVE SchedInv'
  BY <1>13 DEF UpDone
<1>14. ASSUME NEW t \in Threads, AllocTest(t) PROVE SchedInv'
  BY <1>14 DEF AllocTest
<1>15. ASSUME NEW t \in Threads, AllocAcq(t) PROVE SchedInv'
  BY <1>15 DEF AllocAcq
<1>16. ASSUME NEW t \in Threads, NEW n \in 1..MaxUnits, AllocSet(t, n) PROVE SchedInv'
  BY <1>16 DEF AllocSet
<1>17. ASSUME NEW t \in Threads, FreeAcq(t) PROVE SchedInv'
  BY <1>17 DEF FreeAcq
<1>18. ASSUME NEW t \in Threads, FreeSet(t) PROVE SchedInv'
  BY <1>18 DEF FreeSet
<1>19. ASSUME NEW t \in Threads, YieldAcq(t) PROVE SchedInv'
  BY <1>19 DEF YieldAcq
<1>20. ASSUME NEW t \in Threads, YieldSwtch(t) PROVE SchedInv'
  BY <1>20 DEF YieldSwtch
<1>21. ASSUME NEW t \in Threads, YieldResume(t) PROVE SchedInv'
  BY <1>21 DEF YieldResume
<1>22. ASSUME NEW t \in Threads, NEW d \in Sems, CallDown(t, d) PROVE SchedInv'
  BY <1>22 DEF CallDown
<1>23. ASSUME NEW t \in Threads, NEW d \in Sems, CallUp(t, d) PROVE SchedInv'
  BY <1>23 DEF CallUp
<1>24. ASSUME NEW t \in Threads, NEW d \in Sems, CallFree(t, d) PROVE SchedInv'
  BY <1>24 DEF CallFree
<1>25. ASSUME NEW t \in Threads, CallAlloc(t) PROVE SchedInv'
  BY <1>25 DEF CallAlloc
<1>26. ASSUME NEW t \in Threads, Preempt(t) PROVE SchedInv'
  BY <1>26 DEF Preempt
<1>27. ASSUME NEW c \in CPUs, NEW t \in Threads, Dispatch(c, t) PROVE SchedInv'
  BY <1>27 DEF Dispatch
<1>28. ASSUME NEW c \in CPUs, SchedRelease(c) PROVE SchedInv'
  BY <1>28 DEF SchedRelease
<1>29. CASE UNCHANGED vars
  BY <1>29 DEF vars
<1> QED
  BY <1>1, <1>2, <1>3, <1>4, <1>5, <1>6, <1>7, <1>8, <1>9, <1>10, <1>11,
     <1>12, <1>13, <1>14, <1>15, <1>16, <1>17, <1>18, <1>19, <1>20, <1>21,
     <1>22, <1>23, <1>24, <1>25, <1>26, <1>27, <1>28, <1>29 DEF Next,
     Kernel, User

LEMMA CallerStep == TypeOK /\ CallerInv /\ [Next]_vars => CallerInv'
<1> SUFFICES ASSUME TypeOK, CallerInv, [Next]_vars PROVE CallerInv'
  OBVIOUS
<1>0. /\ free \in [Sems -> BOOLEAN]
      /\ pc \in [Threads -> PCs]
      /\ sem \in [Threads -> Sems]
      /\ held \in [Threads -> SUBSET Sems]
      /\ known \in SUBSET Sems
      /\ raced \in SUBSET Sems
  BY DEF TypeOK
<1> USE <1>0, ThreadFacts DEF CallerInv, InUse, Freeing, TakingPCs, GivingPCs, FreeingPCs, Goto, semVars, schedVars, userVars
<1>1. ASSUME NEW t \in Threads, DownAcq(t) PROVE CallerInv'
  BY <1>1 DEF DownAcq
<1>2. ASSUME NEW t \in Threads, DownTest(t) PROVE CallerInv'
  BY <1>2 DEF DownTest
<1>3. ASSUME NEW t \in Threads, DownTake(t) PROVE CallerInv'
  BY <1>3 DEF DownTake
<1>4. ASSUME NEW t \in Threads, SleepAcq(t) PROVE CallerInv'
  BY <1>4 DEF SleepAcq
<1>5. ASSUME NEW t \in Threads, SleepRel(t) PROVE CallerInv'
  BY <1>5 DEF SleepRel
<1>6. ASSUME NEW t \in Threads, SleepMark(t) PROVE CallerInv'
  BY <1>6 DEF SleepMark
<1>7. ASSUME NEW t \in Threads, SleepSwtch(t) PROVE CallerInv'
  BY <1>7 DEF SleepSwtch
<1>8. ASSUME NEW t \in Threads, SleepResume(t) PROVE CallerInv'
  BY <1>8 DEF SleepResume
<1>9. ASSUME NEW t \in Threads, UpWait(t) PROVE CallerInv'
  BY <1>9 DEF UpWait
<1>10. ASSUME NEW t \in Threads, UpAcq(t) PROVE CallerInv'
  BY <1>10 DEF UpAcq
<1>11. ASSUME NEW t \in Threads, UpInc(t) PROVE CallerInv'
  BY <1>11 DEF UpInc
<1>12. ASSUME NEW t \in Threads, UpScan(t) PROVE CallerInv'
  BY <1>12 DEF UpScan
<1>13. ASSUME NEW t \in Threads, UpDone(t) PROVE CallerInv'
  BY <1>13 DEF UpDone
<1>14. ASSUME NEW t \in Threads, AllocTest(t) PROVE CallerInv'
  BY <1>14 DEF AllocTest
<1>15. ASSUME NEW t \in Threads, AllocAcq(t) PROVE CallerInv'
  BY <1>15 DEF AllocAcq
<1>16. ASSUME NEW t \in Threads, NEW n \in 1..MaxUnits, AllocSet(t, n) PROVE CallerInv'
  BY <1>16 DEF AllocSet
<1>17. ASSUME NEW t \in Threads, FreeAcq(t) PROVE CallerInv'
  BY <1>17 DEF FreeAcq
<1>18. ASSUME NEW t \in Threads, FreeSet(t) PROVE CallerInv'
  BY <1>18 DEF FreeSet
<1>19. ASSUME NEW t \in Threads, YieldAcq(t) PROVE CallerInv'
  BY <1>19 DEF YieldAcq
<1>20. ASSUME NEW t \in Threads, YieldSwtch(t) PROVE CallerInv'
  BY <1>20 DEF YieldSwtch
<1>21. ASSUME NEW t \in Threads, YieldResume(t) PROVE CallerInv'
  BY <1>21 DEF YieldResume
<1>22. ASSUME NEW t \in Threads, NEW d \in Sems, CallDown(t, d) PROVE CallerInv'
  <2>1. d \notin held[t]
    BY <1>22, StepRanges DEF CallDown
  <2> QED BY <1>22, <2>1 DEF CallDown
<1>23. ASSUME NEW t \in Threads, NEW d \in Sems, CallUp(t, d) PROVE CallerInv'
  BY <1>23 DEF CallUp
<1>24. ASSUME NEW t \in Threads, NEW d \in Sems, CallFree(t, d) PROVE CallerInv'
  BY <1>24 DEF CallFree, Users, Holders
<1>25. ASSUME NEW t \in Threads, CallAlloc(t) PROVE CallerInv'
  BY <1>25 DEF CallAlloc
<1>26. ASSUME NEW t \in Threads, Preempt(t) PROVE CallerInv'
  BY <1>26 DEF Preempt
<1>27. ASSUME NEW c \in CPUs, NEW t \in Threads, Dispatch(c, t) PROVE CallerInv'
  BY <1>27 DEF Dispatch
<1>28. ASSUME NEW c \in CPUs, SchedRelease(c) PROVE CallerInv'
  BY <1>28 DEF SchedRelease
<1>29. CASE UNCHANGED vars
  BY <1>29 DEF vars
<1> QED
  BY <1>1, <1>2, <1>3, <1>4, <1>5, <1>6, <1>7, <1>8, <1>9, <1>10, <1>11,
     <1>12, <1>13, <1>14, <1>15, <1>16, <1>17, <1>18, <1>19, <1>20, <1>21,
     <1>22, <1>23, <1>24, <1>25, <1>26, <1>27, <1>28, <1>29 DEF Next,
     Kernel, User

LEMMA SleepersStep == TypeOK /\ SchedInv /\ Sleepers /\ [Next]_vars => Sleepers'
<1> SUFFICES ASSUME TypeOK, SchedInv, Sleepers, [Next]_vars PROVE Sleepers'
  OBVIOUS
<1>0. /\ value \in [Sems -> Nat]
      /\ state \in [Threads -> {"RUNNABLE", "RUNNING", "SLEEPING"}]
      /\ chan \in [Threads -> Sems \cup {NoChan}]
      /\ pc \in [Threads -> PCs]
      /\ sem \in [Threads -> Sems]
      /\ cursor \in [Threads -> 1..(N + 1)]
      /\ known \in SUBSET Sems
  BY DEF TypeOK
<1> USE <1>0, ThreadFacts DEF Sleepers, SchedInv, ThreadLocks, ThreadStates, Saved, OwnLockPCs, SwitchingPCs, Goto, semVars, schedVars, userVars
<1>1. ASSUME NEW t \in Threads, DownAcq(t) PROVE Sleepers'
  BY <1>1 DEF DownAcq
<1>2. ASSUME NEW t \in Threads, DownTest(t) PROVE Sleepers'
  BY <1>2 DEF DownTest
<1>3. ASSUME NEW t \in Threads, DownTake(t) PROVE Sleepers'
  BY <1>3 DEF DownTake
<1>4. ASSUME NEW t \in Threads, SleepAcq(t) PROVE Sleepers'
  BY <1>4 DEF SleepAcq
<1>5. ASSUME NEW t \in Threads, SleepRel(t) PROVE Sleepers'
  BY <1>5 DEF SleepRel
<1>6. ASSUME NEW t \in Threads, SleepMark(t) PROVE Sleepers'
  BY <1>6 DEF SleepMark
<1>7. ASSUME NEW t \in Threads, SleepSwtch(t) PROVE Sleepers'
  BY <1>7 DEF SleepSwtch
<1>8. ASSUME NEW t \in Threads, SleepResume(t) PROVE Sleepers'
  BY <1>8 DEF SleepResume
<1>9. ASSUME NEW t \in Threads, UpWait(t) PROVE Sleepers'
  BY <1>9 DEF UpWait
<1>10. ASSUME NEW t \in Threads, UpAcq(t) PROVE Sleepers'
  BY <1>10 DEF UpAcq
<1>11. ASSUME NEW t \in Threads, UpInc(t) PROVE Sleepers'
  BY <1>11 DEF UpInc
<1>12. ASSUME NEW t \in Threads, UpScan(t) PROVE Sleepers'
  BY <1>12 DEF UpScan
<1>13. ASSUME NEW t \in Threads, UpDone(t) PROVE Sleepers'
  BY <1>13 DEF UpDone
<1>14. ASSUME NEW t \in Threads, AllocTest(t) PROVE Sleepers'
  BY <1>14 DEF AllocTest
<1>15. ASSUME NEW t \in Threads, AllocAcq(t) PROVE Sleepers'
  BY <1>15 DEF AllocAcq
<1>16. ASSUME NEW t \in Threads, NEW n \in 1..MaxUnits, AllocSet(t, n) PROVE Sleepers'
  BY <1>16 DEF AllocSet
<1>17. ASSUME NEW t \in Threads, FreeAcq(t) PROVE Sleepers'
  BY <1>17 DEF FreeAcq
<1>18. ASSUME NEW t \in Threads, FreeSet(t) PROVE Sleepers'
  BY <1>18 DEF FreeSet
<1>19. ASSUME NEW t \in Threads, YieldAcq(t) PROVE Sleepers'
  BY <1>19 DEF YieldAcq
<1>20. ASSUME NEW t \in Threads, YieldSwtch(t) PROVE Sleepers'
  BY <1>20 DEF YieldSwtch
<1>21. ASSUME NEW t \in Threads, YieldResume(t) PROVE Sleepers'
  BY <1>21 DEF YieldResume
<1>22. ASSUME NEW t \in Threads, NEW d \in Sems, CallDown(t, d) PROVE Sleepers'
  BY <1>22 DEF CallDown
<1>23. ASSUME NEW t \in Threads, NEW d \in Sems, CallUp(t, d) PROVE Sleepers'
  BY <1>23 DEF CallUp
<1>24. ASSUME NEW t \in Threads, NEW d \in Sems, CallFree(t, d) PROVE Sleepers'
  BY <1>24 DEF CallFree
<1>25. ASSUME NEW t \in Threads, CallAlloc(t) PROVE Sleepers'
  BY <1>25 DEF CallAlloc
<1>26. ASSUME NEW t \in Threads, Preempt(t) PROVE Sleepers'
  BY <1>26 DEF Preempt
<1>27. ASSUME NEW c \in CPUs, NEW t \in Threads, Dispatch(c, t) PROVE Sleepers'
  BY <1>27 DEF Dispatch
<1>28. ASSUME NEW c \in CPUs, SchedRelease(c) PROVE Sleepers'
  BY <1>28 DEF SchedRelease
<1>29. CASE UNCHANGED vars
  BY <1>29 DEF vars
<1> QED
  BY <1>1, <1>2, <1>3, <1>4, <1>5, <1>6, <1>7, <1>8, <1>9, <1>10, <1>11,
     <1>12, <1>13, <1>14, <1>15, <1>16, <1>17, <1>18, <1>19, <1>20, <1>21,
     <1>22, <1>23, <1>24, <1>25, <1>26, <1>27, <1>28, <1>29 DEF Next,
     Kernel, User

LEMMA WakeStep == TypeOK /\ SpinLocks /\ ValueRead /\ SchedInv /\ CallerInv /\ Sleepers /\ NoLostWakeup /\ [Next]_vars => NoLostWakeup'
<1> SUFFICES ASSUME TypeOK, SpinLocks, ValueRead, SchedInv, CallerInv, Sleepers, NoLostWakeup, [Next]_vars PROVE NoLostWakeup'
  OBVIOUS
<1>0. /\ value \in [Sems -> Nat]
      /\ state \in [Threads -> {"RUNNABLE", "RUNNING", "SLEEPING"}]
      /\ chan \in [Threads -> Sems \cup {NoChan}]
      /\ pc \in [Threads -> PCs]
      /\ sem \in [Threads -> Sems]
      /\ cursor \in [Threads -> 1..(N + 1)]
      /\ known \in SUBSET Sems
  BY DEF TypeOK
<1> USE <1>0, ThreadFacts DEF Sleepers, NoLostWakeup, Asleep, WakeupOnItsWay, Goto, semVars, schedVars, userVars
<1>1. ASSUME NEW t \in Threads, DownAcq(t) PROVE NoLostWakeup'
  BY <1>1 DEF DownAcq
<1>2. ASSUME NEW t \in Threads, DownTest(t) PROVE NoLostWakeup'
  BY <1>2 DEF DownTest
<1>3. ASSUME NEW t \in Threads, DownTake(t) PROVE NoLostWakeup'
  <2> SUFFICES ASSUME NEW u \in Threads, Asleep(u)', (sem[u] \notin raced)'
               PROVE  (value[sem[u]] = 0)' \/ WakeupOnItsWay(u)'
    OBVIOUS
  <2>1. /\ u # t /\ sem'[u] = sem[u] /\ Asleep(u) /\ sem[u] \notin raced
        /\ sem[u] \in Sems
    BY <1>3 DEF DownTake
  <2>2. CASE value[sem[u]] = 0
    <3>1. sem[u] # sem[t]
      BY <1>3, <2>2 DEF DownTake, ValueRead
    <3> QED BY <1>3, <2>1, <2>2, <3>1 DEF DownTake
  <2>3. CASE WakeupOnItsWay(u)
    <3>1. PICK w \in Threads : pc[w] = "upScan" /\ sem[w] = sem[u] /\ cursor[w] <= u
      BY <2>3
    <3>2. w # t
      BY <1>3, <3>1 DEF DownTake
    <3> QED BY <1>3, <2>1, <3>1, <3>2 DEF DownTake
  <2> QED BY <2>1, <2>2, <2>3
<1>4. ASSUME NEW t \in Threads, SleepAcq(t) PROVE NoLostWakeup'
  BY <1>4 DEF SleepAcq
<1>5. ASSUME NEW t \in Threads, SleepRel(t) PROVE NoLostWakeup'
  <2> SUFFICES ASSUME NEW u \in Threads, Asleep(u)', (sem[u] \notin raced)'
               PROVE  (value[sem[u]] = 0)' \/ WakeupOnItsWay(u)'
    OBVIOUS
  <2>1. CASE u = t
    BY <1>5, <2>1 DEF SleepRel, ValueRead
  <2>2. CASE u # t
    BY <1>5, <2>2 DEF SleepRel
  <2> QED BY <2>1, <2>2
<1>6. ASSUME NEW t \in Threads, SleepMark(t) PROVE NoLostWakeup'
  BY <1>6 DEF SleepMark
<1>7. ASSUME NEW t \in Threads, SleepSwtch(t) PROVE NoLostWakeup'
  BY <1>7 DEF SleepSwtch
<1>8. ASSUME NEW t \in Threads, SleepResume(t) PROVE NoLostWakeup'
  BY <1>8 DEF SleepResume
<1>9. ASSUME NEW t \in Threads, UpWait(t) PROVE NoLostWakeup'
  BY <1>9 DEF UpWait
<1>10. ASSUME NEW t \in Threads, UpAcq(t) PROVE NoLostWakeup'
  BY <1>10 DEF UpAcq
<1>11. ASSUME NEW t \in Threads, UpInc(t) PROVE NoLostWakeup'
  <2> SUFFICES ASSUME NEW u \in Threads, Asleep(u)', (sem[u] \notin raced)'
               PROVE  (value[sem[u]] = 0)' \/ WakeupOnItsWay(u)'
    OBVIOUS
  <2>1. /\ u # t /\ sem'[u] = sem[u] /\ Asleep(u) /\ sem[u] \notin raced
        /\ sem[u] \in Sems
    BY <1>11 DEF UpInc
  <2>2. CASE sem[u] = sem[t]
    <3>1. 1 <= u
      BY StepRanges
    <3>2. (pc[t] = "upScan")' /\ sem'[t] = sem'[u] /\ cursor'[t] = 1
      BY <1>11, <2>1, <2>2 DEF UpInc
    <3> QED BY <3>1, <3>2
  <2>3. CASE sem[u] # sem[t]
    BY <1>11, <2>1, <2>3 DEF UpInc
  <2> QED BY <2>2, <2>3
<1>12. ASSUME NEW t \in Threads, UpScan(t) PROVE NoLostWakeup'
  <2> SUFFICES ASSUME NEW u \in Threads, Asleep(u)', (sem[u] \notin raced)'
               PROVE  (value[sem[u]] = 0)' \/ WakeupOnItsWay(u)'
    OBVIOUS
  <2>1. /\ sem'[u] = sem[u] /\ Asleep(u) /\ sem[u] \notin raced /\ value' = value
        /\ cursor[t] \in Threads /\ u # t
    BY <1>12 DEF UpScan
  <2>2. CASE value[sem[u]] = 0
    BY <2>1, <2>2
  <2>3. CASE WakeupOnItsWay(u)
    <3>1. PICK w \in Threads : pc[w] = "upScan" /\ sem[w] = sem[u] /\ cursor[w] <= u
      BY <2>3
    <3>2. CASE w # t
      BY <1>12, <2>1, <3>1, <3>2 DEF UpScan
    <3>3. CASE w = t
      <4>1. cursor[t] # u
        <5> SUFFICES ASSUME cursor[t] = u PROVE FALSE
          OBVIOUS
        <5>1. ~tlock[u]
          BY <1>12, <2>1 DEF UpScan
        <5>2. pc[u] \notin {"sleepMark", "sleepSwtch"}
          BY <5>1 DEF SchedInv, ThreadLocks, OwnLockPCs, SwitchingPCs
        <5>3. state[u] = "SLEEPING" /\ chan[u] = sem[t]
          BY <2>1, <3>1, <3>3, <5>2
        <5>4. (state[u] = "RUNNABLE")' /\ pc'[u] = pc[u]
          BY <1>12, <2>1, <5>3 DEF UpScan
        <5> QED BY <5>2, <5>4
      <4>2. cursor[t] + 1 <= u
        BY <2>1, <3>1, <3>3, <4>1, StepRanges
      <4> QED BY <1>12, <2>1, <3>1, <3>3, <4>2 DEF UpScan
    <3> QED BY <3>2, <3>3
  <2> QED BY <2>1, <2>2, <2>3
<1>13. ASSUME NEW t \in Threads, UpDone(t) PROVE NoLostWakeup'
  <2> SUFFICES ASSUME NEW u \in Threads, Asleep(u)', (sem[u] \notin raced)'
               PROVE  (value[sem[u]] = 0)' \/ WakeupOnItsWay(u)'
    OBVIOUS
  <2>1. /\ u # t /\ sem'[u] = sem[u] /\ Asleep(u) /\ sem[u] \notin raced
        /\ sem[u] \in Sems
    BY <1>13 DEF UpDone
  <2>2. CASE value[sem[u]] = 0
    BY <1>13, <2>1, <2>2 DEF UpDone
  <2>3. CASE WakeupOnItsWay(u)
    <3>1. PICK w \in Threads : pc[w] = "upScan" /\ sem[w] = sem[u] /\ cursor[w] <= u
      BY <2>3
    <3>2. w # t
      BY <1>13, <3>1, StepRanges DEF UpDone
    <3> QED BY <1>13, <2>1, <3>1, <3>2 DEF UpDone
  <2> QED BY <2>1, <2>2, <2>3
<1>14. ASSUME NEW t \in Threads, AllocTest(t) PROVE NoLostWakeup'
  BY <1>14 DEF AllocTest
<1>15. ASSUME NEW t \in Threads, AllocAcq(t) PROVE NoLostWakeup'
  BY <1>15 DEF AllocAcq
<1>16. ASSUME NEW t \in Threads, NEW n \in 1..MaxUnits, AllocSet(t, n) PROVE NoLostWakeup'
  <2> SUFFICES ASSUME NEW u \in Threads, Asleep(u)', (sem[u] \notin raced)'
               PROVE  (value[sem[u]] = 0)' \/ WakeupOnItsWay(u)'
    OBVIOUS
  <2>1. /\ u # t /\ sem'[u] = sem[u] /\ Asleep(u) /\ sem[u] \notin raced
        /\ sem[u] \in Sems
    BY <1>16 DEF AllocSet
  <2>2. sem[u] \in known
    BY <2>1 DEF CallerInv, InUse, TakingPCs
  <2>3. sem[u] # sem[t]
    BY <1>16, <2>1, <2>2 DEF AllocSet, CallerInv, Freeing
  <2>4. CASE value[sem[u]] = 0
    BY <1>16, <2>1, <2>3, <2>4 DEF AllocSet
  <2>5. CASE WakeupOnItsWay(u)
    <3>1. PICK w \in Threads : pc[w] = "upScan" /\ sem[w] = sem[u] /\ cursor[w] <= u
      BY <2>5
    <3>2. w # t
      BY <1>16, <3>1 DEF AllocSet
    <3> QED BY <1>16, <2>1, <3>1, <3>2 DEF AllocSet
  <2> QED BY <2>1, <2>4, <2>5
<1>17. ASSUME NEW t \in Threads, FreeAcq(t) PROVE NoLostWakeup'
  BY <1>17 DEF FreeAcq
<1>18. ASSUME NEW t \in Threads, FreeSet(t) PROVE NoLostWakeup'
  <2> SUFFICES ASSUME NEW u \in Threads, Asleep(u)', (sem[u] \notin raced)'
               PROVE  (value[sem[u]] = 0)' \/ WakeupOnItsWay(u)'
    OBVIOUS
  <2>1. /\ u # t /\ sem'[u] = sem[u] /\ Asleep(u) /\ sem[u] \notin raced
        /\ sem[u] \in Sems
    BY <1>18 DEF FreeSet
  <2>2. sem[u] \in known
    BY <2>1 DEF CallerInv, InUse, TakingPCs
  <2>3. sem[u] # sem[t]
    BY <1>18, <2>1, <2>2 DEF FreeSet, CallerInv, Freeing, FreeingPCs
  <2>4. CASE value[sem[u]] = 0
    BY <1>18, <2>1, <2>3, <2>4 DEF FreeSet
  <2>5. CASE WakeupOnItsWay(u)
    <3>1. PICK w \in Threads : pc[w] = "upScan" /\ sem[w] = sem[u] /\ cursor[w] <= u
      BY <2>5
    <3>2. w # t
      BY <1>18, <3>1 DEF FreeSet
    <3> QED BY <1>18, <2>1, <3>1, <3>2 DEF FreeSet
  <2> QED BY <2>1, <2>4, <2>5
<1>19. ASSUME NEW t \in Threads, YieldAcq(t) PROVE NoLostWakeup'
  BY <1>19 DEF YieldAcq
<1>20. ASSUME NEW t \in Threads, YieldSwtch(t) PROVE NoLostWakeup'
  BY <1>20 DEF YieldSwtch
<1>21. ASSUME NEW t \in Threads, YieldResume(t) PROVE NoLostWakeup'
  BY <1>21 DEF YieldResume
<1>22. ASSUME NEW t \in Threads, NEW d \in Sems, CallDown(t, d) PROVE NoLostWakeup'
  BY <1>22 DEF CallDown
<1>23. ASSUME NEW t \in Threads, NEW d \in Sems, CallUp(t, d) PROVE NoLostWakeup'
  BY <1>23 DEF CallUp
<1>24. ASSUME NEW t \in Threads, NEW d \in Sems, CallFree(t, d) PROVE NoLostWakeup'
  BY <1>24 DEF CallFree
<1>25. ASSUME NEW t \in Threads, CallAlloc(t) PROVE NoLostWakeup'
  BY <1>25 DEF CallAlloc
<1>26. ASSUME NEW t \in Threads, Preempt(t) PROVE NoLostWakeup'
  BY <1>26 DEF Preempt
<1>27. ASSUME NEW c \in CPUs, NEW t \in Threads, Dispatch(c, t) PROVE NoLostWakeup'
  BY <1>27 DEF Dispatch
<1>28. ASSUME NEW c \in CPUs, SchedRelease(c) PROVE NoLostWakeup'
  BY <1>28 DEF SchedRelease
<1>29. CASE UNCHANGED vars
  BY <1>29 DEF vars
<1> QED
  BY <1>1, <1>2, <1>3, <1>4, <1>5, <1>6, <1>7, <1>8, <1>9, <1>10, <1>11,
     <1>12, <1>13, <1>14, <1>15, <1>16, <1>17, <1>18, <1>19, <1>20, <1>21,
     <1>22, <1>23, <1>24, <1>25, <1>26, <1>27, <1>28, <1>29 DEF Next,
     Kernel, User

LEMMA HoldersFinite ==
  ASSUME NEW d
  PROVE  IsFiniteSet(Holders(d)) /\ Cardinality(Holders(d)) \in Nat
<1>1. Holders(d) \subseteq 1..N /\ IsFiniteSet(1..N)
  BY BsemConstants, FS_Interval DEF Holders, Threads
<1> QED BY <1>1, FS_Subset, FS_CardinalityType

LEMMA UnitsStep == TypeOK /\ ValueRead /\ CallerInv /\ UnitsConserved /\ [Next]_vars => UnitsConserved'
<1> SUFFICES ASSUME TypeOK, ValueRead, CallerInv, UnitsConserved, [Next]_vars PROVE UnitsConserved'
  OBVIOUS
<1> USE DEF UnitsConserved, Holders, Goto, semVars, schedVars, userVars
<1>1. ASSUME NEW t \in Threads, DownAcq(t) PROVE UnitsConserved'
  BY <1>1 DEF DownAcq
<1>2. ASSUME NEW t \in Threads, DownTest(t) PROVE UnitsConserved'
  BY <1>2 DEF DownTest
<1>3. ASSUME NEW t \in Threads, DownTake(t) PROVE UnitsConserved'
  <2>0. PICK e \in Sems : e = sem[t]
    BY <1>3 DEF TypeOK
  <2>1. /\ e \in known /\ t \notin Holders(e) /\ value[e] > 0 /\ e \in Sems
        /\ value[e] \in Nat /\ maxValue[e] \in Nat
    BY <1>3, <2>0 DEF DownTake, TypeOK, ValueRead, CallerInv, InUse, TakingPCs
  <2>2. Holders(e)' = Holders(e) \cup {t}
    BY <1>3, <2>0 DEF DownTake, TypeOK
  <2>3. \A d \in Sems : d # e => Holders(d)' = Holders(d) /\ value'[d] = value[d]
    BY <1>3, <2>0 DEF DownTake, TypeOK
  <2> HIDE DEF Holders
  <2>4. Cardinality(Holders(e))' = Cardinality(Holders(e)) + 1
    BY <2>1, <2>2, HoldersFinite, FS_AddElement
  <2>5. value'[e] = value[e] - 1 /\ maxValue' = maxValue /\ known' = known /\ raced' = raced
    BY <1>3, <2>0, <2>1 DEF DownTake, TypeOK
  <2>6. e \notin raced => value'[e] + Cardinality(Holders(e))' = maxValue[e]
                           /\ Cardinality(Holders(e))' <= maxValue[e]
    BY <2>0, <2>1, <2>4, <2>5, HoldersFinite DEF UnitsConserved
  <2> QED BY <2>3, <2>5, <2>6 DEF TypeOK, UnitsConserved
<1>4. ASSUME NEW t \in Threads, SleepAcq(t) PROVE UnitsConserved'
  BY <1>4 DEF SleepAcq
<1>5. ASSUME NEW t \in Threads, SleepRel(t) PROVE UnitsConserved'
  BY <1>5 DEF SleepRel
<1>6. ASSUME NEW t \in Threads, SleepMark(t) PROVE UnitsConserved'
  BY <1>6 DEF SleepMark
<1>7. ASSUME NEW t \in Threads, SleepSwtch(t) PROVE UnitsConserved'
  BY <1>7 DEF SleepSwtch
<1>8. ASSUME NEW t \in Threads, SleepResume(t) PROVE UnitsConserved'
  BY <1>8 DEF SleepResume
<1>9. ASSUME NEW t \in Threads, UpWait(t) PROVE UnitsConserved'
  BY <1>9 DEF UpWait
<1>10. ASSUME NEW t \in Threads, UpAcq(t) PROVE UnitsConserved'
  BY <1>10 DEF UpAcq
<1>11. ASSUME NEW t \in Threads, UpInc(t) PROVE UnitsConserved'
  <2>0. PICK e \in Sems : e = sem[t]
    BY <1>11 DEF TypeOK
  <2>1. /\ t \in Holders(e) /\ e \in Sems
        /\ value[e] \in Nat /\ maxValue[e] \in Nat
    BY <1>11, <2>0 DEF UpInc, TypeOK, CallerInv, InUse, GivingPCs
  <2>2. Holders(e)' = Holders(e) \ {t}
    BY <1>11, <2>0 DEF UpInc, TypeOK
  <2>3. Cardinality(Holders(e))' = Cardinality(Holders(e)) - 1
        /\ Cardinality(Holders(e))' \in Nat
    BY <2>1, <2>2, HoldersFinite, FS_RemoveElement, FS_CardinalityType
  <2>4. \A d \in Sems : d # e => Holders(d)' = Holders(d) /\ value'[d] = value[d]
    BY <1>11, <2>0 DEF UpInc, TypeOK
  <2>5. /\ value'[e] = IF value[e] < maxValue[e] THEN value[e] + 1 ELSE value[e]
        /\ maxValue' = maxValue /\ known' = known /\ raced' = raced
    BY <1>11, <2>0, <2>1 DEF UpInc, TypeOK
  <2> HIDE DEF Holders
  <2>6. e \in known \ raced => value'[e] + Cardinality(Holders(e))' = maxValue[e]
                           /\ Cardinality(Holders(e))' <= maxValue[e]
    BY <2>1, <2>3, <2>5, HoldersFinite DEF UnitsConserved
  <2> QED BY <2>4, <2>5, <2>6 DEF TypeOK, UnitsConserved
<1>12. ASSUME NEW t \in Threads, UpScan(t) PROVE UnitsConserved'
  BY <1>12 DEF UpScan
<1>13. ASSUME NEW t \in Threads, UpDone(t) PROVE UnitsConserved'
  BY <1>13 DEF UpDone
<1>14. ASSUME NEW t \in Threads, AllocTest(t) PROVE UnitsConserved'
  BY <1>14 DEF AllocTest
<1>15. ASSUME NEW t \in Threads, AllocAcq(t) PROVE UnitsConserved'
  BY <1>15 DEF AllocAcq
<1>16. ASSUME NEW t \in Threads, NEW n \in 1..MaxUnits, AllocSet(t, n) PROVE UnitsConserved'
  <2>0. PICK e \in Sems : e = sem[t]
    BY <1>16 DEF TypeOK
  <2>1. held' = held /\ known' = known \cup {e} /\ e \in Sems /\ raced \subseteq raced'
    BY <1>16, <2>0 DEF AllocSet, TypeOK
  <2>2. \A d \in Sems : d # e => value'[d] = value[d] /\ maxValue'[d] = maxValue[d]
    BY <1>16, <2>0 DEF AllocSet, TypeOK
  <2>3. value'[e] = n /\ maxValue'[e] = n /\ n \in Nat
    BY <1>16, <2>0, <2>1, StepRanges DEF AllocSet, TypeOK
  <2>4. ASSUME e \notin raced' PROVE Holders(e) = {}
    BY <1>16, <2>0, <2>1, <2>4 DEF AllocSet, TypeOK, CallerInv, InUse, Freeing
  <2>5. e \notin raced' => Cardinality(Holders(e)') = 0
    BY <2>1, <2>4, FS_EmptySet
  <2>6. \A d \in Sems : Holders(d)' = Holders(d)
    BY <2>1
  <2> HIDE DEF Holders
  <2>7. e \notin raced' => value'[e] + Cardinality(Holders(e)') = maxValue'[e]
                           /\ Cardinality(Holders(e)') <= maxValue'[e]
    BY <2>3, <2>5
  <2>8. \A d \in known \ raced : d # e => value'[d] + Cardinality(Holders(d)') = maxValue'[d]
                                         /\ Cardinality(Holders(d)') <= maxValue'[d]
    BY <2>2, <2>6 DEF TypeOK
  <2> QED BY <2>1, <2>7, <2>8 DEF TypeOK
<1>17. ASSUME NEW t \in Threads, FreeAcq(t) PROVE UnitsConserved'
  BY <1>17 DEF FreeAcq
<1>18. ASSUME NEW t \in Threads, FreeSet(t) PROVE UnitsConserved'
  <2>1. held' = held /\ known' = known /\ raced' = raced /\ maxValue' = maxValue
    BY <1>18 DEF FreeSet
  <2>2. \A d \in known \ raced : value'[d] = value[d]
    BY <1>18 DEF FreeSet, TypeOK, CallerInv, Freeing, FreeingPCs
  <2> QED BY <2>1, <2>2
<1>19. ASSUME NEW t \in Threads, YieldAcq(t) PROVE UnitsConserved'
  BY <1>19 DEF YieldAcq
<1>20. ASSUME NEW t \in Threads, YieldSwtch(t) PROVE UnitsConserved'
  BY <1>20 DEF YieldSwtch
<1>21. ASSUME NEW t \in Threads, YieldResume(t) PROVE UnitsConserved'
  BY <1>21 DEF YieldResume
<1>22. ASSUME NEW t \in Threads, NEW d \in Sems, CallDown(t, d) PROVE UnitsConserved'
  BY <1>22 DEF CallDown
<1>23. ASSUME NEW t \in Threads, NEW d \in Sems, CallUp(t, d) PROVE UnitsConserved'
  BY <1>23 DEF CallUp
<1>24. ASSUME NEW t \in Threads, NEW d \in Sems, CallFree(t, d) PROVE UnitsConserved'
  <2>1. known' \subseteq known /\ held' = held /\ raced' = raced
        /\ value' = value /\ maxValue' = maxValue
    BY <1>24 DEF CallFree
  <2> QED BY <2>1
<1>25. ASSUME NEW t \in Threads, CallAlloc(t) PROVE UnitsConserved'
  BY <1>25 DEF CallAlloc
<1>26. ASSUME NEW t \in Threads, Preempt(t) PROVE UnitsConserved'
  BY <1>26 DEF Preempt
<1>27. ASSUME NEW c \in CPUs, NEW t \in Threads, Dispatch(c, t) PROVE UnitsConserved'
  BY <1>27 DEF Dispatch
<1>28. ASSUME NEW c \in CPUs, SchedRelease(c) PROVE UnitsConserved'
  BY <1>28 DEF SchedRelease
<1>29. CASE UNCHANGED vars
  BY <1>29 DEF vars
<1> QED
  BY <1>1, <1>2, <1>3, <1>4, <1>5, <1>6, <1>7, <1>8, <1>9, <1>10, <1>11,
     <1>12, <1>13, <1>14, <1>15, <1>16, <1>17, <1>18, <1>19, <1>20, <1>21,
     <1>22, <1>23, <1>24, <1>25, <1>26, <1>27, <1>28, <1>29 DEF Next,
     Kernel, User

(* The refinement mapping's value for holders. *)
H == [d \in Sems |-> Holders(d)]

LEMMA Stutters ==
  UNCHANGED <<maxValue, held, raced>> => UNCHANGED Abstract!avars
BY DEF Abstract!avars, Holders

LEMMA RefinementStep == TypeOK /\ ValueRead /\ CallerInv /\ UnitsConserved /\ [Next]_vars => [Abstract!Next]_(Abstract!avars)
<1> SUFFICES ASSUME TypeOK, ValueRead, CallerInv, UnitsConserved, [Next]_vars PROVE [Abstract!Next]_(Abstract!avars)
  OBVIOUS
<1> USE DEF Goto
<1>1. ASSUME NEW t \in Threads, DownAcq(t) PROVE [Abstract!Next]_(Abstract!avars)
  BY <1>1, Stutters DEF DownAcq, userVars, semVars
<1>2. ASSUME NEW t \in Threads, DownTest(t) PROVE [Abstract!Next]_(Abstract!avars)
  BY <1>2, Stutters DEF DownTest, userVars, semVars
<1>3. ASSUME NEW t \in Threads, DownTake(t) PROVE [Abstract!Next]_(Abstract!avars)
  <2>0. PICK e \in Sems : e = sem[t]
    BY <1>3 DEF TypeOK
  <2>1. e \in known /\ value[e] \in Nat /\ value[e] > 0 /\ maxValue[e] \in Nat
    BY <1>3, <2>0 DEF DownTake, TypeOK, ValueRead, CallerInv, InUse, TakingPCs
  <2>2. H' = [H EXCEPT ![e] = @ \cup {t}]
    <3>1. ASSUME NEW d \in Sems
          PROVE Holders(d)' = IF d = e THEN Holders(d) \cup {t} ELSE Holders(d)
      BY <1>3, <2>0 DEF DownTake, TypeOK, Holders
    <3> QED BY <3>1 DEF H
  <2>3. maxValue' = maxValue /\ raced' = raced
    BY <1>3 DEF DownTake
  <2>4. CASE e \in raced
    <3>1. Abstract!Spoil(e)
      BY <2>2, <2>3, <2>4 DEF Abstract!Spoil, H
    <3> QED BY <3>1 DEF Abstract!Next
  <2>5. CASE e \notin raced
    <3>1. Cardinality(H[e]) < maxValue[e]
      <4>1. H[e] = Holders(e)
        BY DEF H
      <4>2. value[e] + Cardinality(Holders(e)) = maxValue[e]
        BY <2>1, <2>5 DEF UnitsConserved
      <4> QED BY <2>1, <4>1, <4>2, HoldersFinite
    <3>2. Abstract!Acquire(t, e) <=>
            /\ Cardinality(H[e]) < maxValue[e]
            /\ H' = [H EXCEPT ![e] = @ \cup {t}]
            /\ UNCHANGED <<maxValue, raced>>
      BY DEF Abstract!Acquire, H, Abstract!Cardinality, Cardinality
    <3>3. Abstract!Acquire(t, e)
      BY <2>2, <2>3, <3>1, <3>2
    <3> QED BY <3>3 DEF Abstract!Next
  <2> QED BY <2>4, <2>5
<1>4. ASSUME NEW t \in Threads, SleepAcq(t) PROVE [Abstract!Next]_(Abstract!avars)
  BY <1>4, Stutters DEF SleepAcq, userVars, semVars
<1>5. ASSUME NEW t \in Threads, SleepRel(t) PROVE [Abstract!Next]_(Abstract!avars)
  BY <1>5, Stutters DEF SleepRel, userVars, semVars
<1>6. ASSUME NEW t \in Threads, SleepMark(t) PROVE [Abstract!Next]_(Abstract!avars)
  BY <1>6, Stutters DEF SleepMark, userVars, semVars
<1>7. ASSUME NEW t \in Threads, SleepSwtch(t) PROVE [Abstract!Next]_(Abstract!avars)
  BY <1>7, Stutters DEF SleepSwtch, userVars, semVars
<1>8. ASSUME NEW t \in Threads, SleepResume(t) PROVE [Abstract!Next]_(Abstract!avars)
  BY <1>8, Stutters DEF SleepResume, userVars, semVars
<1>9. ASSUME NEW t \in Threads, UpWait(t) PROVE [Abstract!Next]_(Abstract!avars)
  BY <1>9, Stutters DEF UpWait, userVars, semVars
<1>10. ASSUME NEW t \in Threads, UpAcq(t) PROVE [Abstract!Next]_(Abstract!avars)
  BY <1>10, Stutters DEF UpAcq, userVars, semVars
<1>11. ASSUME NEW t \in Threads, UpInc(t) PROVE [Abstract!Next]_(Abstract!avars)
  <2>0. PICK e \in Sems : e = sem[t]
    BY <1>11 DEF TypeOK
  <2>1. t \in H[e]
    BY <1>11, <2>0 DEF UpInc, TypeOK, CallerInv, InUse, GivingPCs, H, Holders
  <2>2. H' = [H EXCEPT ![e] = @ \ {t}]
    <3>1. ASSUME NEW d \in Sems
          PROVE Holders(d)' = IF d = e THEN Holders(d) \ {t} ELSE Holders(d)
      BY <1>11, <2>0 DEF UpInc, TypeOK, Holders
    <3> QED BY <3>1 DEF H
  <2>3. maxValue' = maxValue /\ raced' = raced
    BY <1>11 DEF UpInc
  <2>4. Abstract!Release(t, e)
    BY <2>1, <2>2, <2>3 DEF Abstract!Release, H
  <2> QED BY <2>4 DEF Abstract!Next
<1>12. ASSUME NEW t \in Threads, UpScan(t) PROVE [Abstract!Next]_(Abstract!avars)
  BY <1>12, Stutters DEF UpScan, userVars, semVars
<1>13. ASSUME NEW t \in Threads, UpDone(t) PROVE [Abstract!Next]_(Abstract!avars)
  BY <1>13, Stutters DEF UpDone, userVars, semVars
<1>14. ASSUME NEW t \in Threads, AllocTest(t) PROVE [Abstract!Next]_(Abstract!avars)
  BY <1>14, Stutters DEF AllocTest, userVars, semVars
<1>15. ASSUME NEW t \in Threads, AllocAcq(t) PROVE [Abstract!Next]_(Abstract!avars)
  BY <1>15, Stutters DEF AllocAcq, userVars, semVars
<1>16. ASSUME NEW t \in Threads, NEW n \in 1..MaxUnits, AllocSet(t, n) PROVE [Abstract!Next]_(Abstract!avars)
  <2>0. PICK e \in Sems : e = sem[t]
    BY <1>16 DEF TypeOK
  <2>1. maxValue' = [maxValue EXCEPT ![e] = n] /\ n \in Nat /\ H' = H
    BY <1>16, <2>0, StepRanges DEF AllocSet, H, Holders
  <2>2. CASE free[e]
    <3>1. raced' = raced
      BY <1>16, <2>0, <2>2 DEF AllocSet
    <3>2. CASE e \in raced
      <4>1. Abstract!Spoil(e)
        BY <2>1, <3>1, <3>2 DEF Abstract!Spoil, H, TypeOK
      <4> QED BY <4>1 DEF Abstract!Next
    <3>3. CASE e \notin raced
      <4>1. e \notin known
        BY <2>2, <3>3 DEF CallerInv, Freeing
      <4>2. H[e] = {}
        BY <4>1 DEF H, Holders, CallerInv, InUse
      <4>3. Abstract!Allocate(e)
        BY <2>1, <3>1, <4>2 DEF Abstract!Allocate, H, TypeOK
      <4> QED BY <4>3 DEF Abstract!Next
    <3> QED BY <3>2, <3>3
  <2>3. CASE ~free[e]
    <3>1. raced' = raced \cup {e}
      BY <1>16, <2>0, <2>3 DEF AllocSet
    <3>2. Abstract!Spoil(e)
      BY <2>1, <3>1 DEF Abstract!Spoil, H, TypeOK
    <3> QED BY <3>2 DEF Abstract!Next
  <2> QED BY <2>2, <2>3
<1>17. ASSUME NEW t \in Threads, FreeAcq(t) PROVE [Abstract!Next]_(Abstract!avars)
  BY <1>17, Stutters DEF FreeAcq, userVars, semVars
<1>18. ASSUME NEW t \in Threads, FreeSet(t) PROVE [Abstract!Next]_(Abstract!avars)
  BY <1>18, Stutters DEF FreeSet, userVars, semVars
<1>19. ASSUME NEW t \in Threads, YieldAcq(t) PROVE [Abstract!Next]_(Abstract!avars)
  BY <1>19, Stutters DEF YieldAcq, userVars, semVars
<1>20. ASSUME NEW t \in Threads, YieldSwtch(t) PROVE [Abstract!Next]_(Abstract!avars)
  BY <1>20, Stutters DEF YieldSwtch, userVars, semVars
<1>21. ASSUME NEW t \in Threads, YieldResume(t) PROVE [Abstract!Next]_(Abstract!avars)
  BY <1>21, Stutters DEF YieldResume, userVars, semVars
<1>22. ASSUME NEW t \in Threads, NEW d \in Sems, CallDown(t, d) PROVE [Abstract!Next]_(Abstract!avars)
  BY <1>22, Stutters DEF CallDown, userVars, semVars
<1>23. ASSUME NEW t \in Threads, NEW d \in Sems, CallUp(t, d) PROVE [Abstract!Next]_(Abstract!avars)
  BY <1>23, Stutters DEF CallUp, userVars, semVars
<1>24. ASSUME NEW t \in Threads, NEW d \in Sems, CallFree(t, d) PROVE [Abstract!Next]_(Abstract!avars)
  BY <1>24, Stutters DEF CallFree, userVars, semVars
<1>25. ASSUME NEW t \in Threads, CallAlloc(t) PROVE [Abstract!Next]_(Abstract!avars)
  BY <1>25, Stutters DEF CallAlloc, userVars, semVars
<1>26. ASSUME NEW t \in Threads, Preempt(t) PROVE [Abstract!Next]_(Abstract!avars)
  BY <1>26, Stutters DEF Preempt, userVars, semVars
<1>27. ASSUME NEW c \in CPUs, NEW t \in Threads, Dispatch(c, t) PROVE [Abstract!Next]_(Abstract!avars)
  BY <1>27, Stutters DEF Dispatch, userVars, semVars
<1>28. ASSUME NEW c \in CPUs, SchedRelease(c) PROVE [Abstract!Next]_(Abstract!avars)
  BY <1>28, Stutters DEF SchedRelease, userVars, semVars
<1>29. CASE UNCHANGED vars
  BY <1>29, Stutters DEF vars, userVars, semVars
<1> QED
  BY <1>1, <1>2, <1>3, <1>4, <1>5, <1>6, <1>7, <1>8, <1>9, <1>10, <1>11,
     <1>12, <1>13, <1>14, <1>15, <1>16, <1>17, <1>18, <1>19, <1>20, <1>21,
     <1>22, <1>23, <1>24, <1>25, <1>26, <1>27, <1>28, <1>29 DEF Next,
     Kernel, User

-----------------------------------------------------------------------------
(* The inductive invariant: the five layers and the conserved units. *)
IInv ==
  /\ TypeOK /\ SpinLocks /\ ValueRead
  /\ SchedInv /\ CallerInv
  /\ WakeInv
  /\ UnitsConserved

LEMMA IInvInit == Init => IInv
<1> SUFFICES ASSUME Init PROVE IInv
  OBVIOUS
<1>1. TypeOK
  BY ThreadFacts DEF Init, TypeOK, PCs, Saved
<1>2. SpinLocks /\ ValueRead
  BY ThreadFacts DEF Init, SpinLocks, ValueRead, InSemLock, InWaitLock
<1>3. SchedInv
  BY ThreadFacts DEF Init, SchedInv, OnOneCpu, ThreadLocks, ThreadStates, OwnLockPCs,
                     SwitchingPCs, Saved, OnCpu
<1>4. CallerInv
  BY DEF Init, CallerInv, InUse, Freeing, TakingPCs, GivingPCs, FreeingPCs
<1>5. WakeInv
  BY DEF Init, WakeInv, Sleepers, NoLostWakeup, Asleep
<1>6. UnitsConserved
  BY DEF Init, UnitsConserved
<1> QED BY <1>1, <1>2, <1>3, <1>4, <1>5, <1>6 DEF IInv

LEMMA IInvStep == IInv /\ [Next]_vars => IInv'
BY TypeStep, SpinStep, ValueStep, SchedStep, CallerStep, SleepersStep, WakeStep, UnitsStep
   DEF IInv, WakeInv

LEMMA IInvAlways == Spec => []IInv
BY IInvInit, IInvStep, PTL DEF Spec

(* Every variable keeps its type; in particular value never goes below 0,  *)
(* that is, bsem_down never takes a unit that is not there.                *)
THEOREM TypeCorrect == Spec => []TypeOK
<1>1. IInv => TypeOK
  BY DEF IInv
<1> QED BY <1>1, IInvAlways, PTL

(* Exclusion: for any number of threads, descriptors and CPUs, no more     *)
(* threads come back from bsem_down than there are units, and no unit is   *)
(* lost, unless bsem_alloc handed the descriptor out twice.                *)
THEOREM Exclusion == Spec => []UnitsConserved
<1>1. IInv => UnitsConserved
  BY DEF IInv
<1> QED BY <1>1, IInvAlways, PTL

(* sleep() marks the thread SLEEPING after it let go of the descriptor's   *)
(* lock, and still no bsem_up is missed: t->lock stops the waker's scan.   *)
THEOREM WakeupsArrive == Spec => []NoLostWakeup
<1>1. IInv => NoLostWakeup
  BY DEF IInv, WakeInv
<1> QED BY <1>1, IInvAlways, PTL

(* None of sched()'s panics ("sched t->lock", "sched locks", "sched        *)
(* running") can be reached from the semaphore calls or from yield.        *)
THEOREM SchedNeverPanics == Spec => []SchedLocks
<1>1. IInv => SchedLocks
  <2> SUFFICES ASSUME IInv, NEW t \in Threads, pc[t] \in {"sleepSwtch", "yieldSwtch"}
               PROVE  /\ tlock[t] /\ state[t] # "RUNNING"
                      /\ waitLock # t
                      /\ \A d \in Sems : semLock[d] # t
    BY DEF SchedLocks
  <2>1. tlock[t] /\ state[t] # "RUNNING"
    BY DEF IInv, SchedInv, ThreadLocks, ThreadStates, OwnLockPCs, SwitchingPCs
  <2>2. waitLock # t /\ \A d \in Sems : semLock[d] # t
    BY DEF IInv, SpinLocks, InSemLock, InWaitLock
  <2> QED BY <2>1, <2>2
<1> QED BY <1>1, IInvAlways, PTL

(* t->lock held across swtch keeps a thread from running on two CPUs.      *)
THEOREM OneCpu == Spec => []OneCpuPerThread
<1>1. IInv => OneCpuPerThread
  BY DEF IInv, SchedInv, OnOneCpu, ThreadLocks, ThreadStates, OwnLockPCs, SwitchingPCs,
         OneCpuPerThread
<1> QED BY <1>1, IInvAlways, PTL

(* Both together: what sched relies on.                                    *)
THEOREM SchedSafety == Spec => []SchedSafe
<1>1. SchedLocks /\ OneCpuPerThread => SchedSafe
  BY DEF SchedSafe
<1> QED BY <1>1, SchedNeverPanics, OneCpu, PTL

(* The code implements the abstract counting semaphore.                    *)
THEOREM Refinement == Spec => ImplementsCountingSem
<1>1. Init => Abstract!Init
  BY DEF Init, Abstract!Init, Holders
<1>2. IInv /\ [Next]_vars => [Abstract!Next]_(Abstract!avars)
  BY RefinementStep DEF IInv
<1> QED BY <1>1, <1>2, IInvAlways, PTL DEF Spec, ImplementsCountingSem, Abstract!Spec
============================================================================
