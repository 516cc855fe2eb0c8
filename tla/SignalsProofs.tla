---------------------------- MODULE SignalsProofs ----------------------------
(***************************************************************************)
(* Proofs about Signals, for any number of threads and killers and any     *)
(* signals, masks and handlers.  What needs one CPU says so: with more,    *)
(* kill and handle_signal can take back each other's changes.              *)
(***************************************************************************)
EXTENDS Signals, FiniteSetTheorems, WellFoundedInduction, TLAPS

(* What the loop of handle_signal and the callers of kill work on. *)
LoopPCs == {"test", "unmasked", "clear", "write", "act", "save", "setup", "restore"}
LoopVars ==
  /\ \A t \in Threads : pc[t] \in LoopPCs \cup {"sigaction"} => sig[t] \in Sigs
  /\ \A k \in Killers : pc[k] = "user" \/ (pc[k] = "write" /\ sig[k] \in Sigs)
  /\ \A a \in Actors : pc[a] = "write" => seen[a] \subseteq Sigs

(* On one CPU one actor at most is in the kernel, *)
Alone ==
  \A a, b \in Actors : pc[a] \notin OffCpu /\ pc[b] \notin OffCpu => a = b

(* so what it has read is still there when it writes. *)
Reread ==
  /\ \A a \in Actors : pc[a] = "write" => seen[a] = pending
  /\ \A t \in Threads :
       /\ pc[t] \in {"unmasked", "clear", "write"} => sig[t] \in pending
       /\ pc[t] \in {"clear", "write"} => sig[t] \notin mask
       /\ pc[t] = "setup" => seen[t] = mask
       /\ pc[t] = "restore" => seen[t] \cap {SIGKILL, SIGSTOP} = {}
OneCpuInv == Alone /\ Reread /\ KillAndStopUnblocked

-----------------------------------------------------------------------------
LEMMA LeastSig == ASSUME NEW S, S \subseteq Sigs 
  PROVE Least(S) \in Sigs \cup {End} /\ (S # {} => Least(S) \in Sigs)
<1>1. CASE S = {}
  BY <1>1 DEF Least
<1>2. CASE S # {}
  <2> S \subseteq Nat
    BY SignalsConstants
  <2> DEFINE Lt == {ss \in Nat \X Nat : ss[1] < ss[2]}
  <2>1. IsWellFoundedOn(Lt, Nat)
    BY NatLessThanWellFounded DEF OpToRel
  <2> HIDE DEF Lt
  <2>2. PICK x \in S : \A y \in S : <<y, x>> \notin Lt
    BY <2>1, <1>2, WFMin
  <2>3. \A y \in S : x <= y
    <3> SUFFICES ASSUME NEW y \in S, ~(x <= y) PROVE FALSE
      OBVIOUS
    <3>1. x \in Nat /\ y \in Nat /\ y < x
      OBVIOUS
    <3>2. <<y, x>> \in Lt
      BY <3>1 DEF Lt
    <3> QED BY <2>2, <3>2
  <2>4. Least(S) \in S \cup {End} /\ \A y \in S : Least(S) <= y
    BY <2>2, <2>3 DEF Least
  <2>5. x \in 0..31
    BY SignalsConstants
  <2>6. ~(End <= x)
    BY <2>5 DEF End
  <2>7. Least(S) \in S
    BY <2>4, <2>6
  <2> QED BY <2>7
<1> QED BY <1>1, <1>2

LEMMA NextSigType == \A s \in Sigs \cup {End} : NextSig(s) \in Sigs \cup {End}
BY LeastSig DEF NextSig

LEMMA SigFacts ==
  /\ FirstSig \in Sigs
  /\ Sigs \subseteq 0..31
  /\ \A s \in Sigs : {s} \subseteq 0..31
  /\ \A m \in Masks : m \subseteq 0..31
  /\ \A h \in Actions : h \in AllActions
BY LeastSig, SignalsConstants DEF FirstSig

LEMMA ActorFacts ==
  /\ \A t \in Threads : t \in Actors /\ t \notin Killers
  /\ \A k \in Killers : k \in Actors /\ k \notin Threads
BY SignalsConstants DEF Actors
-----------------------------------------------------------------------------
LEMMA TypeInit == Init => TypeOK /\ LoopVars
<1> SUFFICES ASSUME Init PROVE TypeOK /\ LoopVars
  OBVIOUS
<1> USE SigFacts, ActorFacts
<1>1. PICK A \in SUBSET Threads : pc = [a \in Actors |-> IF a \in Threads \ A THEN "gone" ELSE "user"]
  BY DEF Init
<1>2. TypeOK
  BY <1>1 DEF Init, TypeOK, AllActions, PCs, OffCpu
<1>3. LoopVars
  BY <1>1 DEF Init, LoopVars, LoopPCs
<1> QED BY <1>2, <1>3

LEMMA TypeStep == TypeOK /\ LoopVars /\ [Next]_vars => TypeOK'
<1> SUFFICES ASSUME TypeOK, LoopVars, [Next]_vars PROVE TypeOK'
  OBVIOUS
<1> USE SigFacts, ActorFacts, NextSigType
    DEF TypeOK, Goto, Enter, NextTurn, PCs, OffCpu, procVars, frames
<1>1. ASSUME NEW k \in Killers, NEW s \in Sigs, KillRead(k, s) PROVE TypeOK'
  BY <1>1 DEF KillRead
<1>2. ASSUME NEW k \in Killers, KillWrite(k) PROVE TypeOK'
  BY <1>2 DEF KillWrite, LoopVars
<1>3. ASSUME NEW t \in Threads, Syscall(t) PROVE TypeOK'
  BY <1>3 DEF Syscall
<1>4. ASSUME NEW t \in Threads, Timer(t) PROVE TypeOK'
  BY <1>4 DEF Timer
<1>5. ASSUME NEW t \in Threads, Tick(t) PROVE TypeOK'
  BY <1>5 DEF Tick
<1>6. ASSUME NEW t \in Threads, Yielded(t) PROVE TypeOK'
  BY <1>6 DEF Yielded
<1>7. ASSUME NEW t \in Threads, Leave(t) PROVE TypeOK'
  BY <1>7 DEF Leave
<1>8. ASSUME NEW t \in Threads, Sleep(t) PROVE TypeOK'
  BY <1>8 DEF Sleep
<1>9. ASSUME NEW t \in Threads, Awake(t) PROVE TypeOK'
  BY <1>9 DEF Awake
<1>10. ASSUME NEW t \in Threads, Sigret(t) PROVE TypeOK'
  BY <1>10 DEF Sigret
<1>11. ASSUME NEW t \in Threads, Exec(t) PROVE TypeOK'
  BY <1>11 DEF Exec, AllActions
<1>12. ASSUME NEW t \in Threads, Return(t) PROVE TypeOK'
  BY <1>12 DEF Return
<1>13. ASSUME NEW t \in Threads, Test(t) PROVE TypeOK'
  BY <1>13 DEF Test
<1>14. ASSUME NEW t \in Threads, TestMask(t) PROVE TypeOK'
  <2>1. pc' \in [Actors -> PCs]
    BY <1>14 DEF TestMask
  <2>2. sig' \in [Actors -> Sigs \cup {End}]
    BY <1>14 DEF TestMask
  <2> QED BY <1>14, <2>1, <2>2 DEF TestMask
<1>15. ASSUME NEW t \in Threads, ClearRead(t) PROVE TypeOK'
  BY <1>15 DEF ClearRead
<1>16. ASSUME NEW t \in Threads, ClearWrite(t) PROVE TypeOK'
  BY <1>16 DEF ClearWrite, LoopVars
<1>17. ASSUME NEW t \in Threads, Act(t) PROVE TypeOK'
  BY <1>17 DEF Act
<1>18. ASSUME NEW t \in Threads, ActUser(t) PROVE TypeOK'
  BY <1>18 DEF ActUser
<1>19. ASSUME NEW t \in Threads, SaveContext(t) PROVE TypeOK'
  BY <1>19 DEF SaveContext
<1>20. ASSUME NEW t \in Threads, SetupHandler(t) PROVE TypeOK'
  BY <1>20 DEF SetupHandler, LoopVars, LoopPCs
<1>21. ASSUME NEW t \in Threads, RestoreMask(t) PROVE TypeOK'
  BY <1>21 DEF RestoreMask
<1>22. ASSUME NEW t \in Threads, EndHandle(t) PROVE TypeOK'
  BY <1>22 DEF EndHandle
<1>23. ASSUME NEW t \in Threads, Resume(t) PROVE TypeOK'
  BY <1>23 DEF Resume
<1>24. ASSUME NEW t \in Threads, Again(t) PROVE TypeOK'
  BY <1>24 DEF Again
<1>25. ASSUME NEW t \in Threads, NEW m \in Masks, Sigprocmask(t, m) PROVE TypeOK'
  BY <1>25 DEF Sigprocmask
<1>26. ASSUME NEW t \in Threads, NEW s \in Sigs, NEW h \in Actions, SigactionHandler(t, s, h) PROVE TypeOK'
  BY <1>26 DEF SigactionHandler
<1>27. ASSUME NEW t \in Threads, NEW m \in Masks, SigactionMask(t, m) PROVE TypeOK'
  BY <1>27 DEF SigactionMask, LoopVars
<1>28. CASE UNCHANGED vars
  BY <1>28 DEF vars
<1> QED
  BY <1>1, <1>2, <1>3, <1>4, <1>5, <1>6, <1>7, <1>8, <1>9, <1>10, <1>11, <1>12, <1>13, <1>14, <1>15, <1>16, <1>17, <1>18, <1>19, <1>20, <1>21, <1>22, <1>23, <1>24, <1>25, <1>26, <1>27, <1>28
  DEF Next, ThreadStep, KillerStep, Runs, Calls, Handling

LEMMA LoopStep == TypeOK /\ LoopVars /\ [Next]_vars => LoopVars'
<1> SUFFICES ASSUME TypeOK, LoopVars, [Next]_vars PROVE LoopVars'
  OBVIOUS
<1> USE SigFacts, ActorFacts, NextSigType
    DEF TypeOK, LoopVars, LoopPCs, Goto, Enter, NextTurn, procVars, frames
<1>1. ASSUME NEW k \in Killers, NEW s \in Sigs, KillRead(k, s) PROVE LoopVars'
  BY <1>1 DEF KillRead
<1>2. ASSUME NEW k \in Killers, KillWrite(k) PROVE LoopVars'
  BY <1>2 DEF KillWrite
<1>3. ASSUME NEW t \in Threads, Syscall(t) PROVE LoopVars'
  BY <1>3 DEF Syscall
<1>4. ASSUME NEW t \in Threads, Timer(t) PROVE LoopVars'
  BY <1>4 DEF Timer
<1>5. ASSUME NEW t \in Threads, Tick(t) PROVE LoopVars'
  BY <1>5 DEF Tick
<1>6. ASSUME NEW t \in Threads, Yielded(t) PROVE LoopVars'
  BY <1>6 DEF Yielded
<1>7. ASSUME NEW t \in Threads, Leave(t) PROVE LoopVars'
  BY <1>7 DEF Leave
<1>8. ASSUME NEW t \in Threads, Sleep(t) PROVE LoopVars'
  BY <1>8 DEF Sleep
<1>9. ASSUME NEW t \in Threads, Awake(t) PROVE LoopVars'
  BY <1>9 DEF Awake
<1>10. ASSUME NEW t \in Threads, Sigret(t) PROVE LoopVars'
  BY <1>10 DEF Sigret
<1>11. ASSUME NEW t \in Threads, Exec(t) PROVE LoopVars'
  BY <1>11 DEF Exec
<1>12. ASSUME NEW t \in Threads, Return(t) PROVE LoopVars'
  BY <1>12 DEF Return
<1>13. ASSUME NEW t \in Threads, Test(t) PROVE LoopVars'
  <2>1. /\ pc[t] = "test" /\ sig[t] \in Sigs
        /\ UNCHANGED seen
    BY <1>13 DEF Test
  <2>2. \/ pc' = [pc EXCEPT ![t] = "unmasked"] /\ UNCHANGED sig
        \/ NextTurn(t, "test")
    BY <1>13 DEF Test
  <2>3. CASE pc' = [pc EXCEPT ![t] = "unmasked"] /\ UNCHANGED sig
    BY <2>1, <2>3
  <2>4. CASE NextTurn(t, "test")
    BY <2>1, <2>4
  <2> QED BY <2>2, <2>3, <2>4
<1>14. ASSUME NEW t \in Threads, TestMask(t) PROVE LoopVars'
  <2>1. /\ pc[t] = "unmasked" /\ sig[t] \in Sigs
        /\ UNCHANGED seen
    BY <1>14 DEF TestMask
  <2>2. \/ pc' = [pc EXCEPT ![t] = "clear"] /\ UNCHANGED sig
        \/ NextTurn(t, "unmasked")
    BY <1>14 DEF TestMask
  <2>3. CASE pc' = [pc EXCEPT ![t] = "clear"] /\ UNCHANGED sig
    BY <2>1, <2>3
  <2>4. CASE NextTurn(t, "unmasked")
    BY <2>1, <2>4
  <2> QED BY <2>2, <2>3, <2>4
<1>15. ASSUME NEW t \in Threads, ClearRead(t) PROVE LoopVars'
  BY <1>15 DEF ClearRead
<1>16. ASSUME NEW t \in Threads, ClearWrite(t) PROVE LoopVars'
  BY <1>16 DEF ClearWrite
<1>17. ASSUME NEW t \in Threads, Act(t) PROVE LoopVars'
  BY <1>17 DEF Act
<1>18. ASSUME NEW t \in Threads, ActUser(t) PROVE LoopVars'
  BY <1>18 DEF ActUser
<1>19. ASSUME NEW t \in Threads, SaveContext(t) PROVE LoopVars'
  BY <1>19 DEF SaveContext
<1>20. ASSUME NEW t \in Threads, SetupHandler(t) PROVE LoopVars'
  BY <1>20 DEF SetupHandler
<1>21. ASSUME NEW t \in Threads, RestoreMask(t) PROVE LoopVars'
  BY <1>21 DEF RestoreMask
<1>22. ASSUME NEW t \in Threads, EndHandle(t) PROVE LoopVars'
  BY <1>22 DEF EndHandle
<1>23. ASSUME NEW t \in Threads, Resume(t) PROVE LoopVars'
  BY <1>23 DEF Resume
<1>24. ASSUME NEW t \in Threads, Again(t) PROVE LoopVars'
  BY <1>24 DEF Again
<1>25. ASSUME NEW t \in Threads, NEW m \in Masks, Sigprocmask(t, m) PROVE LoopVars'
  BY <1>25 DEF Sigprocmask
<1>26. ASSUME NEW t \in Threads, NEW s \in Sigs, NEW h \in Actions, SigactionHandler(t, s, h) PROVE LoopVars'
  BY <1>26 DEF SigactionHandler
<1>27. ASSUME NEW t \in Threads, NEW m \in Masks, SigactionMask(t, m) PROVE LoopVars'
  BY <1>27 DEF SigactionMask
<1>28. CASE UNCHANGED vars
  BY <1>28 DEF vars
<1> QED
  BY <1>1, <1>2, <1>3, <1>4, <1>5, <1>6, <1>7, <1>8, <1>9, <1>10, <1>11, <1>12, <1>13, <1>14, <1>15, <1>16, <1>17, <1>18, <1>19, <1>20, <1>21, <1>22, <1>23, <1>24, <1>25, <1>26, <1>27, <1>28
  DEF Next, ThreadStep, KillerStep, Runs, Calls, Handling

(* Types, on any number of CPUs. *)
THEOREM TypeCorrect == Spec => [](TypeOK /\ LoopVars)
<1> QED BY TypeInit, TypeStep, LoopStep, PTL DEF Spec
-----------------------------------------------------------------------------
LEMMA WatchedStep == TypeOK /\ StoppedIsWatched /\ [Next]_vars => StoppedIsWatched'
<1> SUFFICES ASSUME TypeOK, StoppedIsWatched, [Next]_vars PROVE StoppedIsWatched'
  OBVIOUS
<1> USE ActorFacts
    DEF TypeOK, StoppedIsWatched, InLoop, Goto, Enter, NextTurn, procVars, frames
<1>1. ASSUME NEW k \in Killers, NEW s \in Sigs, KillRead(k, s) PROVE StoppedIsWatched'
  BY <1>1 DEF KillRead
<1>2. ASSUME NEW k \in Killers, KillWrite(k) PROVE StoppedIsWatched'
  BY <1>2 DEF KillWrite
<1>3. ASSUME NEW t \in Threads, Syscall(t) PROVE StoppedIsWatched'
  BY <1>3 DEF Syscall
<1>4. ASSUME NEW t \in Threads, Timer(t) PROVE StoppedIsWatched'
  BY <1>4 DEF Timer
<1>5. ASSUME NEW t \in Threads, Tick(t) PROVE StoppedIsWatched'
  BY <1>5 DEF Tick
<1>6. ASSUME NEW t \in Threads, Yielded(t) PROVE StoppedIsWatched'
  BY <1>6 DEF Yielded
<1>7. ASSUME NEW t \in Threads, Leave(t) PROVE StoppedIsWatched'
  BY <1>7 DEF Leave
<1>8. ASSUME NEW t \in Threads, Sleep(t) PROVE StoppedIsWatched'
  BY <1>8 DEF Sleep
<1>9. ASSUME NEW t \in Threads, Awake(t) PROVE StoppedIsWatched'
  BY <1>9 DEF Awake
<1>10. ASSUME NEW t \in Threads, Sigret(t) PROVE StoppedIsWatched'
  BY <1>10 DEF Sigret
<1>11. ASSUME NEW t \in Threads, Exec(t) PROVE StoppedIsWatched'
  BY <1>11 DEF Exec
<1>12. ASSUME NEW t \in Threads, Return(t) PROVE StoppedIsWatched'
  BY <1>12 DEF Return
<1>13. ASSUME NEW t \in Threads, Test(t) PROVE StoppedIsWatched'
  BY <1>13 DEF Test
<1>14. ASSUME NEW t \in Threads, TestMask(t) PROVE StoppedIsWatched'
  BY <1>14 DEF TestMask
<1>15. ASSUME NEW t \in Threads, ClearRead(t) PROVE StoppedIsWatched'
  BY <1>15 DEF ClearRead
<1>16. ASSUME NEW t \in Threads, ClearWrite(t) PROVE StoppedIsWatched'
  BY <1>16 DEF ClearWrite
<1>17. ASSUME NEW t \in Threads, Act(t) PROVE StoppedIsWatched'
  BY <1>17 DEF Act
<1>18. ASSUME NEW t \in Threads, ActUser(t) PROVE StoppedIsWatched'
  BY <1>18 DEF ActUser
<1>19. ASSUME NEW t \in Threads, SaveContext(t) PROVE StoppedIsWatched'
  BY <1>19 DEF SaveContext
<1>20. ASSUME NEW t \in Threads, SetupHandler(t) PROVE StoppedIsWatched'
  BY <1>20 DEF SetupHandler
<1>21. ASSUME NEW t \in Threads, RestoreMask(t) PROVE StoppedIsWatched'
  BY <1>21 DEF RestoreMask
<1>22. ASSUME NEW t \in Threads, EndHandle(t) PROVE StoppedIsWatched'
  BY <1>22 DEF EndHandle
<1>23. ASSUME NEW t \in Threads, Resume(t) PROVE StoppedIsWatched'
  BY <1>23 DEF Resume
<1>24. ASSUME NEW t \in Threads, Again(t) PROVE StoppedIsWatched'
  BY <1>24 DEF Again
<1>25. ASSUME NEW t \in Threads, NEW m \in Masks, Sigprocmask(t, m) PROVE StoppedIsWatched'
  BY <1>25 DEF Sigprocmask
<1>26. ASSUME NEW t \in Threads, NEW s \in Sigs, NEW h \in Actions, SigactionHandler(t, s, h) PROVE StoppedIsWatched'
  BY <1>26 DEF SigactionHandler
<1>27. ASSUME NEW t \in Threads, NEW m \in Masks, SigactionMask(t, m) PROVE StoppedIsWatched'
  BY <1>27 DEF SigactionMask
<1>28. CASE UNCHANGED vars
  BY <1>28 DEF vars
<1> QED
  BY <1>1, <1>2, <1>3, <1>4, <1>5, <1>6, <1>7, <1>8, <1>9, <1>10, <1>11, <1>12, <1>13, <1>14, <1>15, <1>16, <1>17, <1>18, <1>19, <1>20, <1>21, <1>22, <1>23, <1>24, <1>25, <1>26, <1>27, <1>28
  DEF Next, ThreadStep, KillerStep, Runs, Calls, Handling

(* A stopped process is watched by one of its threads, on any number of    *)
(* CPUs.                                                                   *)
THEOREM Watched == Spec => []StoppedIsWatched
<1>1. Init => StoppedIsWatched
  BY DEF Init, StoppedIsWatched
<1> QED BY <1>1, TypeCorrect, WatchedStep, PTL DEF Spec
-----------------------------------------------------------------------------
LEMMA FreeCpu == ASSUME NCPU = 1, CpuFree PROVE \A a \in Actors : pc[a] \in OffCpu
<1>1. IsFiniteSet(Actors)
  BY SignalsConstants, FS_Union DEF Actors
<1>2. IsFiniteSet(InKernel)
  BY <1>1, FS_Subset DEF InKernel
<1>3. Cardinality(InKernel) \in Nat /\ Cardinality(InKernel) < 1
  BY <1>2, FS_CardinalityType DEF CpuFree
<1>4. Cardinality(InKernel) = 0
  BY <1>3
<1>5. InKernel = {}
  BY <1>2, <1>4, FS_EmptySet
<1> QED BY <1>5 DEF InKernel

LEMMA OneCpuInit == Init => OneCpuInv
<1> SUFFICES ASSUME Init PROVE OneCpuInv
  OBVIOUS
<1>1. PICK A \in SUBSET Threads : pc = [a \in Actors |-> IF a \in Threads \ A THEN "gone" ELSE "user"]
  BY DEF Init
<1>2. \A a \in Actors : pc[a] \in {"gone", "user"}
  BY <1>1
<1> QED BY <1>2, ActorFacts
  DEF Init, OneCpuInv, Alone, Reread, KillAndStopUnblocked, OffCpu

LEMMA AloneStep ==
  ASSUME NCPU = 1, TypeOK, Alone, [Next]_vars PROVE Alone'
<1> USE ActorFacts, FreeCpu
    DEF TypeOK, Alone, OffCpu, Goto, Enter, NextTurn, procVars, frames
<1>1. ASSUME NEW k \in Killers, NEW s \in Sigs, KillRead(k, s) PROVE Alone'
  BY <1>1 DEF KillRead
<1>2. ASSUME NEW k \in Killers, KillWrite(k) PROVE Alone'
  BY <1>2 DEF KillWrite
<1>3. ASSUME NEW t \in Threads, Syscall(t) PROVE Alone'
  BY <1>3 DEF Syscall
<1>4. ASSUME NEW t \in Threads, Timer(t) PROVE Alone'
  BY <1>4 DEF Timer
<1>5. ASSUME NEW t \in Threads, Tick(t) PROVE Alone'
  BY <1>5 DEF Tick
<1>6. ASSUME NEW t \in Threads, Yielded(t) PROVE Alone'
  BY <1>6 DEF Yielded
<1>7. ASSUME NEW t \in Threads, Leave(t) PROVE Alone'
  BY <1>7 DEF Leave
<1>8. ASSUME NEW t \in Threads, Sleep(t) PROVE Alone'
  BY <1>8 DEF Sleep
<1>9. ASSUME NEW t \in Threads, Awake(t) PROVE Alone'
  BY <1>9 DEF Awake
<1>10. ASSUME NEW t \in Threads, Sigret(t) PROVE Alone'
  BY <1>10 DEF Sigret
<1>11. ASSUME NEW t \in Threads, Exec(t) PROVE Alone'
  BY <1>11 DEF Exec
<1>12. ASSUME NEW t \in Threads, Return(t) PROVE Alone'
  BY <1>12 DEF Return
<1>13. ASSUME NEW t \in Threads, Test(t) PROVE Alone'
  BY <1>13 DEF Test
<1>14. ASSUME NEW t \in Threads, TestMask(t) PROVE Alone'
  BY <1>14 DEF TestMask
<1>15. ASSUME NEW t \in Threads, ClearRead(t) PROVE Alone'
  BY <1>15 DEF ClearRead
<1>16. ASSUME NEW t \in Threads, ClearWrite(t) PROVE Alone'
  BY <1>16 DEF ClearWrite
<1>17. ASSUME NEW t \in Threads, Act(t) PROVE Alone'
  BY <1>17 DEF Act
<1>18. ASSUME NEW t \in Threads, ActUser(t) PROVE Alone'
  BY <1>18 DEF ActUser
<1>19. ASSUME NEW t \in Threads, SaveContext(t) PROVE Alone'
  BY <1>19 DEF SaveContext
<1>20. ASSUME NEW t \in Threads, SetupHandler(t) PROVE Alone'
  BY <1>20 DEF SetupHandler
<1>21. ASSUME NEW t \in Threads, RestoreMask(t) PROVE Alone'
  BY <1>21 DEF RestoreMask
<1>22. ASSUME NEW t \in Threads, EndHandle(t) PROVE Alone'
  BY <1>22 DEF EndHandle
<1>23. ASSUME NEW t \in Threads, Resume(t) PROVE Alone'
  BY <1>23 DEF Resume
<1>24. ASSUME NEW t \in Threads, Again(t) PROVE Alone'
  BY <1>24 DEF Again
<1>25. ASSUME NEW t \in Threads, NEW m \in Masks, Sigprocmask(t, m) PROVE Alone'
  BY <1>25 DEF Sigprocmask
<1>26. ASSUME NEW t \in Threads, NEW s \in Sigs, NEW h \in Actions, SigactionHandler(t, s, h) PROVE Alone'
  BY <1>26 DEF SigactionHandler
<1>27. ASSUME NEW t \in Threads, NEW m \in Masks, SigactionMask(t, m) PROVE Alone'
  BY <1>27 DEF SigactionMask
<1>28. CASE UNCHANGED vars
  BY <1>28 DEF vars
<1> QED
  BY <1>1, <1>2, <1>3, <1>4, <1>5, <1>6, <1>7, <1>8, <1>9, <1>10, <1>11, <1>12, <1>13, <1>14, <1>15, <1>16, <1>17, <1>18, <1>19, <1>20, <1>21, <1>22, <1>23, <1>24, <1>25, <1>26, <1>27, <1>28
  DEF Next, ThreadStep, KillerStep, Runs, Calls, Handling

LEMMA RereadStep ==
  ASSUME NCPU = 1, TypeOK, LoopVars, OneCpuInv, [Next]_vars PROVE Reread'
<1> USE ActorFacts, FreeCpu
    DEF TypeOK, OneCpuInv, Alone, Reread, KillAndStopUnblocked, OffCpu, Goto, Enter, NextTurn, procVars, frames
<1>1. ASSUME NEW k \in Killers, NEW s \in Sigs, KillRead(k, s) PROVE Reread'
  BY <1>1 DEF KillRead
<1>2. ASSUME NEW k \in Killers, KillWrite(k) PROVE Reread'
  BY <1>2 DEF KillWrite
<1>3. ASSUME NEW t \in Threads, Syscall(t) PROVE Reread'
  BY <1>3 DEF Syscall
<1>4. ASSUME NEW t \in Threads, Timer(t) PROVE Reread'
  BY <1>4 DEF Timer
<1>5. ASSUME NEW t \in Threads, Tick(t) PROVE Reread'
  BY <1>5 DEF Tick
<1>6. ASSUME NEW t \in Threads, Yielded(t) PROVE Reread'
  BY <1>6 DEF Yielded
<1>7. ASSUME NEW t \in Threads, Leave(t) PROVE Reread'
  BY <1>7 DEF Leave
<1>8. ASSUME NEW t \in Threads, Sleep(t) PROVE Reread'
  BY <1>8 DEF Sleep
<1>9. ASSUME NEW t \in Threads, Awake(t) PROVE Reread'
  BY <1>9 DEF Awake
<1>10. ASSUME NEW t \in Threads, Sigret(t) PROVE Reread'
  BY <1>10 DEF Sigret
<1>11. ASSUME NEW t \in Threads, Exec(t) PROVE Reread'
  BY <1>11 DEF Exec
<1>12. ASSUME NEW t \in Threads, Return(t) PROVE Reread'
  BY <1>12 DEF Return
<1>13. ASSUME NEW t \in Threads, Test(t) PROVE Reread'
  BY <1>13 DEF Test
<1>14. ASSUME NEW t \in Threads, TestMask(t) PROVE Reread'
  BY <1>14 DEF TestMask
<1>15. ASSUME NEW t \in Threads, ClearRead(t) PROVE Reread'
  BY <1>15 DEF ClearRead
<1>16. ASSUME NEW t \in Threads, ClearWrite(t) PROVE Reread'
  BY <1>16 DEF ClearWrite
<1>17. ASSUME NEW t \in Threads, Act(t) PROVE Reread'
  BY <1>17 DEF Act
<1>18. ASSUME NEW t \in Threads, ActUser(t) PROVE Reread'
  BY <1>18 DEF ActUser
<1>19. ASSUME NEW t \in Threads, SaveContext(t) PROVE Reread'
  BY <1>19 DEF SaveContext
<1>20. ASSUME NEW t \in Threads, SetupHandler(t) PROVE Reread'
  BY <1>20 DEF SetupHandler
<1>21. ASSUME NEW t \in Threads, RestoreMask(t) PROVE Reread'
  BY <1>21 DEF RestoreMask
<1>22. ASSUME NEW t \in Threads, EndHandle(t) PROVE Reread'
  BY <1>22 DEF EndHandle
<1>23. ASSUME NEW t \in Threads, Resume(t) PROVE Reread'
  BY <1>23 DEF Resume
<1>24. ASSUME NEW t \in Threads, Again(t) PROVE Reread'
  BY <1>24 DEF Again
<1>25. ASSUME NEW t \in Threads, NEW m \in Masks, Sigprocmask(t, m) PROVE Reread'
  BY <1>25 DEF Sigprocmask
<1>26. ASSUME NEW t \in Threads, NEW s \in Sigs, NEW h \in Actions, SigactionHandler(t, s, h) PROVE Reread'
  BY <1>26 DEF SigactionHandler
<1>27. ASSUME NEW t \in Threads, NEW m \in Masks, SigactionMask(t, m) PROVE Reread'
  BY <1>27 DEF SigactionMask
<1>28. CASE UNCHANGED vars
  BY <1>28 DEF vars
<1> QED
  BY <1>1, <1>2, <1>3, <1>4, <1>5, <1>6, <1>7, <1>8, <1>9, <1>10, <1>11, <1>12, <1>13, <1>14, <1>15, <1>16, <1>17, <1>18, <1>19, <1>20, <1>21, <1>22, <1>23, <1>24, <1>25, <1>26, <1>27, <1>28
  DEF Next, ThreadStep, KillerStep, Runs, Calls, Handling

LEMMA UnblockedStep ==
  ASSUME NCPU = 1, TypeOK, OneCpuInv, [Next]_vars PROVE KillAndStopUnblocked'
<1> USE ActorFacts, FreeCpu
    DEF TypeOK, OneCpuInv, Alone, Reread, KillAndStopUnblocked, OffCpu, Goto, Enter, NextTurn, procVars, frames
<1>1. ASSUME NEW k \in Killers, NEW s \in Sigs, KillRead(k, s) PROVE KillAndStopUnblocked'
  BY <1>1 DEF KillRead
<1>2. ASSUME NEW k \in Killers, KillWrite(k) PROVE KillAndStopUnblocked'
  BY <1>2 DEF KillWrite
<1>3. ASSUME NEW t \in Threads, Syscall(t) PROVE KillAndStopUnblocked'
  BY <1>3 DEF Syscall
<1>4. ASSUME NEW t \in Threads, Timer(t) PROVE KillAndStopUnblocked'
  BY <1>4 DEF Timer
<1>5. ASSUME NEW t \in Threads, Tick(t) PROVE KillAndStopUnblocked'
  BY <1>5 DEF Tick
<1>6. ASSUME NEW t \in Threads, Yielded(t) PROVE KillAndStopUnblocked'
  BY <1>6 DEF Yielded
<1>7. ASSUME NEW t \in Threads, Leave(t) PROVE KillAndStopUnblocked'
  BY <1>7 DEF Leave
<1>8. ASSUME NEW t \in Threads, Sleep(t) PROVE KillAndStopUnblocked'
  BY <1>8 DEF Sleep
<1>9. ASSUME NEW t \in Threads, Awake(t) PROVE KillAndStopUnblocked'
  BY <1>9 DEF Awake
<1>10. ASSUME NEW t \in Threads, Sigret(t) PROVE KillAndStopUnblocked'
  BY <1>10 DEF Sigret
<1>11. ASSUME NEW t \in Threads, Exec(t) PROVE KillAndStopUnblocked'
  BY <1>11 DEF Exec
<1>12. ASSUME NEW t \in Threads, Return(t) PROVE KillAndStopUnblocked'
  BY <1>12 DEF Return
<1>13. ASSUME NEW t \in Threads, Test(t) PROVE KillAndStopUnblocked'
  BY <1>13 DEF Test
<1>14. ASSUME NEW t \in Threads, TestMask(t) PROVE KillAndStopUnblocked'
  BY <1>14 DEF TestMask
<1>15. ASSUME NEW t \in Threads, ClearRead(t) PROVE KillAndStopUnblocked'
  BY <1>15 DEF ClearRead
<1>16. ASSUME NEW t \in Threads, ClearWrite(t) PROVE KillAndStopUnblocked'
  BY <1>16 DEF ClearWrite
<1>17. ASSUME NEW t \in Threads, Act(t) PROVE KillAndStopUnblocked'
  BY <1>17 DEF Act
<1>18. ASSUME NEW t \in Threads, ActUser(t) PROVE KillAndStopUnblocked'
  BY <1>18 DEF ActUser
<1>19. ASSUME NEW t \in Threads, SaveContext(t) PROVE KillAndStopUnblocked'
  BY <1>19 DEF SaveContext
<1>20. ASSUME NEW t \in Threads, SetupHandler(t) PROVE KillAndStopUnblocked'
  BY <1>20 DEF SetupHandler
<1>21. ASSUME NEW t \in Threads, RestoreMask(t) PROVE KillAndStopUnblocked'
  BY <1>21 DEF RestoreMask
<1>22. ASSUME NEW t \in Threads, EndHandle(t) PROVE KillAndStopUnblocked'
  BY <1>22 DEF EndHandle
<1>23. ASSUME NEW t \in Threads, Resume(t) PROVE KillAndStopUnblocked'
  BY <1>23 DEF Resume
<1>24. ASSUME NEW t \in Threads, Again(t) PROVE KillAndStopUnblocked'
  BY <1>24 DEF Again
<1>25. ASSUME NEW t \in Threads, NEW m \in Masks, Sigprocmask(t, m) PROVE KillAndStopUnblocked'
  BY <1>25 DEF Sigprocmask
<1>26. ASSUME NEW t \in Threads, NEW s \in Sigs, NEW h \in Actions, SigactionHandler(t, s, h) PROVE KillAndStopUnblocked'
  BY <1>26 DEF SigactionHandler
<1>27. ASSUME NEW t \in Threads, NEW m \in Masks, SigactionMask(t, m) PROVE KillAndStopUnblocked'
  BY <1>27 DEF SigactionMask
<1>28. CASE UNCHANGED vars
  BY <1>28 DEF vars
<1> QED
  BY <1>1, <1>2, <1>3, <1>4, <1>5, <1>6, <1>7, <1>8, <1>9, <1>10, <1>11, <1>12, <1>13, <1>14, <1>15, <1>16, <1>17, <1>18, <1>19, <1>20, <1>21, <1>22, <1>23, <1>24, <1>25, <1>26, <1>27, <1>28
  DEF Next, ThreadStep, KillerStep, Runs, Calls, Handling

LEMMA OneCpuStep ==
  ASSUME NCPU = 1, TypeOK, LoopVars, OneCpuInv, [Next]_vars PROVE OneCpuInv'
<1> QED BY AloneStep, RereadStep, UnblockedStep DEF OneCpuInv

(* What holds on one CPU: nobody comes between a read and the write that   *)
(* goes with it.                                                           *)
THEOREM OneCpuHolds == NCPU = 1 => (Spec => []OneCpuInv)
<1> SUFFICES ASSUME NCPU = 1 PROVE Spec => []OneCpuInv
  OBVIOUS
<1>1. TypeOK /\ LoopVars /\ OneCpuInv /\ [Next]_vars => OneCpuInv'
  BY OneCpuStep
<1> QED BY <1>1, OneCpuInit, TypeCorrect, PTL DEF Spec

(* SIGKILL and SIGSTOP are never blocked, on one CPU and with any number   *)
(* of threads, masks and handlers.                                         *)
THEOREM Unblocked == NCPU = 1 => (Spec => []KillAndStopUnblocked)
<1>1. OneCpuInv => KillAndStopUnblocked
  BY DEF OneCpuInv
<1> QED BY <1>1, OneCpuHolds, PTL

(* No other action than these two writes pending_signals. *)
LEMMA ExactStep ==
  ASSUME TypeOK, LoopVars, OneCpuInv, [Next]_vars
  PROVE  \/ \E k \in Killers : pc[k] = "write" /\ pending' = pending \cup {sig[k]}
         \/ \E t \in Threads : /\ pc[t] = "write" /\ sig[t] \in pending
                               /\ sig[t] \notin mask
                               /\ pending' = pending \ {sig[t]}
         \/ UNCHANGED pending
<1> DEFINE Exact ==
      \/ \E k \in Killers : pc[k] = "write" /\ pending' = pending \cup {sig[k]}
      \/ \E t \in Threads : /\ pc[t] = "write" /\ sig[t] \in pending
                            /\ sig[t] \notin mask
                            /\ pending' = pending \ {sig[t]}
      \/ UNCHANGED pending
<1> SUFFICES Exact
  OBVIOUS
<1> USE ActorFacts DEF OneCpuInv, Reread, Goto, Enter, NextTurn, procVars, frames
<1>1. ASSUME NEW k \in Killers, NEW s \in Sigs, KillRead(k, s) PROVE Exact
  BY <1>1 DEF KillRead
<1>2. ASSUME NEW k \in Killers, KillWrite(k) PROVE Exact
  BY <1>2 DEF KillWrite
<1>3. ASSUME NEW t \in Threads, Syscall(t) PROVE Exact
  BY <1>3 DEF Syscall
<1>4. ASSUME NEW t \in Threads, Timer(t) PROVE Exact
  BY <1>4 DEF Timer
<1>5. ASSUME NEW t \in Threads, Tick(t) PROVE Exact
  BY <1>5 DEF Tick
<1>6. ASSUME NEW t \in Threads, Yielded(t) PROVE Exact
  BY <1>6 DEF Yielded
<1>7. ASSUME NEW t \in Threads, Leave(t) PROVE Exact
  BY <1>7 DEF Leave
<1>8. ASSUME NEW t \in Threads, Sleep(t) PROVE Exact
  BY <1>8 DEF Sleep
<1>9. ASSUME NEW t \in Threads, Awake(t) PROVE Exact
  BY <1>9 DEF Awake
<1>10. ASSUME NEW t \in Threads, Sigret(t) PROVE Exact
  BY <1>10 DEF Sigret
<1>11. ASSUME NEW t \in Threads, Exec(t) PROVE Exact
  BY <1>11 DEF Exec
<1>12. ASSUME NEW t \in Threads, Return(t) PROVE Exact
  BY <1>12 DEF Return
<1>13. ASSUME NEW t \in Threads, Test(t) PROVE Exact
  BY <1>13 DEF Test
<1>14. ASSUME NEW t \in Threads, TestMask(t) PROVE Exact
  BY <1>14 DEF TestMask
<1>15. ASSUME NEW t \in Threads, ClearRead(t) PROVE Exact
  BY <1>15 DEF ClearRead
<1>16. ASSUME NEW t \in Threads, ClearWrite(t) PROVE Exact
  BY <1>16 DEF ClearWrite
<1>17. ASSUME NEW t \in Threads, Act(t) PROVE Exact
  BY <1>17 DEF Act
<1>18. ASSUME NEW t \in Threads, ActUser(t) PROVE Exact
  BY <1>18 DEF ActUser
<1>19. ASSUME NEW t \in Threads, SaveContext(t) PROVE Exact
  BY <1>19 DEF SaveContext
<1>20. ASSUME NEW t \in Threads, SetupHandler(t) PROVE Exact
  BY <1>20 DEF SetupHandler
<1>21. ASSUME NEW t \in Threads, RestoreMask(t) PROVE Exact
  BY <1>21 DEF RestoreMask
<1>22. ASSUME NEW t \in Threads, EndHandle(t) PROVE Exact
  BY <1>22 DEF EndHandle
<1>23. ASSUME NEW t \in Threads, Resume(t) PROVE Exact
  BY <1>23 DEF Resume
<1>24. ASSUME NEW t \in Threads, Again(t) PROVE Exact
  BY <1>24 DEF Again
<1>25. ASSUME NEW t \in Threads, NEW m \in Masks, Sigprocmask(t, m) PROVE Exact
  BY <1>25 DEF Sigprocmask
<1>26. ASSUME NEW t \in Threads, NEW s \in Sigs, NEW h \in Actions, SigactionHandler(t, s, h) PROVE Exact
  BY <1>26 DEF SigactionHandler
<1>27. ASSUME NEW t \in Threads, NEW m \in Masks, SigactionMask(t, m) PROVE Exact
  BY <1>27 DEF SigactionMask
<1>28. CASE UNCHANGED vars
  BY <1>28 DEF vars
<1> QED
  BY <1>1, <1>2, <1>3, <1>4, <1>5, <1>6, <1>7, <1>8, <1>9, <1>10, <1>11, <1>12, <1>13, <1>14, <1>15, <1>16, <1>17, <1>18, <1>19, <1>20, <1>21, <1>22, <1>23, <1>24, <1>25, <1>26, <1>27, <1>28
  DEF Next, ThreadStep, KillerStep, Runs, Calls, Handling

(* On one CPU a signal becomes pending by being sent, stops to be by being *)
(* handled, and no other signal is touched.                                *)
THEOREM Exactly == NCPU = 1 => (Spec => PendingIsExact)
<1> SUFFICES ASSUME NCPU = 1 PROVE Spec => PendingIsExact
  OBVIOUS
<1>1. TypeOK /\ LoopVars /\ OneCpuInv /\ [Next]_vars =>
        [\/ \E k \in Killers : pc[k] = "write" /\ pending' = pending \cup {sig[k]}
         \/ \E t \in Threads : /\ pc[t] = "write" /\ sig[t] \in pending
                               /\ pending' = pending \ {sig[t]}]_pending
  BY ExactStep
<1> QED BY <1>1, TypeCorrect, OneCpuHolds, PTL DEF Spec, PendingIsExact

(* On one CPU a blocked signal stays pending. *)
THEOREM BlockedStays == NCPU = 1 => (Spec => BlockedStaysPending)
<1> SUFFICES ASSUME NCPU = 1 PROVE Spec => BlockedStaysPending
  OBVIOUS
<1>1. TypeOK /\ LoopVars /\ OneCpuInv /\ [Next]_vars =>
        [pending \cap mask \subseteq pending']_pending
  BY ExactStep
<1> QED BY <1>1, TypeCorrect, OneCpuHolds, PTL DEF Spec, BlockedStaysPending
=============================================================================
