---------------------------- MODULE ThreadsProofs ----------------------------
(***************************************************************************)
(* Proofs about the threads of a process, for every size of the thread     *)
(* table: no wake-up is lost, a process is never left without a thread     *)
(* that ends it, and whoever ends it is the only one left.                 *)
(*                                                                         *)
(* Nothing is claimed once the program is undefined (broken).              *)
(***************************************************************************)
EXTENDS Threads, TLAPS

Up == {"ACTIVE", "SLEEPING"}
Reap == {"reapLock", "reapDead", "reapScan", "reapEnd"}

(* What the others of a thread are: none alive; none at all; one up.  And  *)
(* a scan that has reached cur[t] has not passed the last one that is up.  *)
Alone(t) == \A k \in Slots \ {t} : ~Live(k)
LastOne(t) == \A k \in Slots \ {t} : st[k] = "UNUSED"
Company(t) == \E k \in Slots \ {t} : st[k] \in Up
Ahead(t) == Company(t) => \E k \in Slots \ {t} : k >= cur[t] /\ st[k] \in Up

(* t waits for j, which is dead, and its wakeup is over.                   *)
Missed(t, j) == tid[j] = target[t] /\ st[j] = "ZOMBIE" /\ pc[j] # "texitWake"

(* The state of a thread's slot and where the thread is.                   *)
Place(t) ==
  /\ st[t] \in {"UNUSED", "USED"} <=> pc[t] = "none"
  /\ st[t] = "SLEEPING" => pc[t] \in {"joinLock", "reapLock"}
  /\ st[t] = "ACTIVE" => pc[t] \notin {"texitWake", "texitSwtch", "gone", "exitSwtch"}
  /\ st[t] = "ZOMBIE" =>
       pc[t] \in {"texitWake", "texitSwtch", "gone", "exitMark", "exitSwtch"} \cup Reap

Held(t) ==
  /\ waitLock = t <=> pc[t] \in {"joinScan", "joinEnd", "reapDead", "reapScan", "reapEnd"}
  /\ deadLock = t <=> pc[t] \in {"texitScan", "texitMark", "reapScan", "reapEnd"}

Scanning(t) ==
  /\ pc[t] \notin {"createScan", "createSet", "createRun", "texitScan", "joinScan", "killScan",
                   "reapScan"} => cur[t] = 1
  /\ pc[t] # "createScan" => cur[t] \in Slots

(* kthread_exit: all_dead_lock keeps the others from dying meanwhile.      *)
Leaving(t) ==
  /\ pc[t] = "texitScan" => allDead[t] /\ Ahead(t)
  /\ pc[t] = "texitMark" => IF allDead[t] THEN Alone(t) ELSE Company(t)
  /\ pc[t] = "texitWake" /\ allDead[t] => Alone(t)

(* The loop of exit and kill_all_threads.                                  *)
Reaping(t) ==
  /\ st[t] = "ZOMBIE" /\ pc[t] \in Reap => Alone(t) /\ task[t] = "exit"
  /\ pc[t] = "reapScan" => /\ IF allDead[t] THEN Ahead(t) ELSE Company(t)
                           /\ \A k \in Slots \ {t} : k < cur[t] => st[k] # "ZOMBIE"
  /\ pc[t] = "reapEnd" => IF allDead[t] THEN LastOne(t) ELSE Company(t)
  /\ pc[t] = "reapLock" /\ st[t] = "SLEEPING" =>
       Company(t) \/ \E k \in Slots \ {t} : pc[k] = "texitWake"

(* kthread_join: wait_lock keeps the wakeup of who dies meanwhile back.    *)
Joining(t) ==
  \A j \in Slots :
    /\ pc[t] = "joinScan" /\ j < cur[t] => ~Missed(t, j)
    /\ pc[t] = "joinEnd" => ~Missed(t, j)
    /\ pc[t] = "joinLock" /\ st[t] = "SLEEPING" => ~Missed(t, j)

Last(t) ==
  /\ pc[t] \in {"exitMark", "exitSwtch"} => LastOne(t)
  /\ pc[t] = "exitSwtch" => pstate = "ZOMBIE"

Local(t) ==
  Place(t) /\ Held(t) /\ Scanning(t) /\ Leaving(t) /\ Reaping(t) /\ Joining(t) /\ Last(t)

(* A slot that is being set up has one thread that does it.                *)
Creators ==
  /\ \A k \in Slots : st[k] = "USED" => \E c \in Slots : pc[c] = "createRun" /\ cur[c] = k
  /\ \A c \in Slots : pc[c] = "createRun" => st[cur[c]] = "USED"
  /\ \A c, d \in Slots : pc[c] = "createRun" /\ pc[d] = "createRun" /\ cur[c] = cur[d] => c = d

Process ==
  /\ pstate = "ZOMBIE" => \A k \in Slots : pc[k] \in {"none", "exitSwtch", "gone"} /\ ~Live(k)
  /\ pstate = "UNUSED" => \A k \in Slots : st[k] = "UNUSED"
  /\ pstate = "USED" => \E k \in Slots : Live(k) \/ Ending(k)

Sound == (\A t \in Slots : Local(t)) /\ Creators /\ Process
ThreadsInv == TypeOK /\ (~broken => Sound)
-----------------------------------------------------------------------------
(* What t does to the slots in most of its steps: it may free the dead,    *)
(* who are gone, and wake sleepers, and go to sleep itself; nobody is made *)
(* and nobody dies.                                                        *)
Frees(k) == pc[k] = "gone" /\ pc'[k] = "none" /\ st[k] = "ZOMBIE" /\ st'[k] = "UNUSED"
Calm(t) ==
  /\ \A k \in Slots \ {t} :
       /\ cur'[k] = cur[k] /\ allDead'[k] = allDead[k] /\ target'[k] = target[k] /\ task'[k] = task[k]
       /\ (waitLock' = k <=> waitLock = k) /\ (deadLock' = k <=> deadLock = k)
       /\ \/ pc'[k] = pc[k] /\ (st'[k] = st[k] \/ (st[k] = "SLEEPING" /\ st'[k] = "ACTIVE"))
          \/ Frees(k)
  /\ \A k \in Slots : st'[k] = "ZOMBIE" => tid'[k] = tid[k]
  /\ st'[t] = st[t] \/ (st[t] \in Up /\ st'[t] \in Up)
  /\ pc[t] \notin {"none", "createRun"} /\ pc'[t] \notin {"none", "createRun"}
  /\ pc[t] = "texitWake" => waitLock = 0 /\ \A k \in Slots : st'[k] # "SLEEPING"
  /\ pc'[t] = "texitWake" => pc[t] = "texitWake"
  /\ pstate' = pstate

(* Who is up stays up, and nobody comes up.                                *)
LEMMA CalmUp ==
  ASSUME ThreadsInv, Sound, NEW t \in Slots, Calm(t)
  PROVE  /\ \A k \in Slots : st'[k] \in Up <=> st[k] \in Up
         /\ \A k \in Slots : st'[k] = "USED" <=> st[k] = "USED"
         /\ \A k \in Slots : st[k] = "UNUSED" => st'[k] = "UNUSED"
         /\ \A k \in Slots : st'[k] = "ZOMBIE" => st[k] = "ZOMBIE"
         /\ \A k \in Slots : Live(k)' <=> Live(k)
BY DEF Calm, Frees, Up, Live, ThreadsInv, TypeOK

(* What holds of another thread, it keeps.                                 *)
LEMMA CalmOthers ==
  ASSUME ThreadsInv, Sound, NEW t \in Slots, Calm(t), NEW s \in Slots \ {t}
  PROVE  Local(s)'
<1>1. Local(s) /\ Local(t)
  BY DEF Sound
<1>2. /\ \A k \in Slots : st'[k] \in Up <=> st[k] \in Up
      /\ \A k \in Slots : st[k] = "UNUSED" => st'[k] = "UNUSED"
      /\ \A k \in Slots : st'[k] = "ZOMBIE" => st[k] = "ZOMBIE"
      /\ \A k \in Slots : Live(k)' <=> Live(k)
  BY CalmUp
<1>3. /\ cur'[s] = cur[s] /\ allDead'[s] = allDead[s] /\ target'[s] = target[s] /\ task'[s] = task[s]
      /\ \/ pc'[s] = pc[s] /\ (st'[s] = st[s] \/ (st[s] = "SLEEPING" /\ st'[s] = "ACTIVE"))
         \/ Frees(s)
  BY DEF Calm
<1>4. /\ Alone(s)' <=> Alone(s)
      /\ LastOne(s) => LastOne(s)'
      /\ Company(s)' <=> Company(s)
  BY <1>2 DEF Alone, LastOne, Company
<1>5. Ahead(s) => Ahead(s)'
  BY <1>2, <1>3 DEF Ahead, Company
<1>6. Place(s)'
  BY <1>1, <1>3 DEF Local, Place, Frees, Reap
<1>7. Held(s)'
  BY <1>1, <1>3 DEF Local, Held, Frees, Calm
<1>8. Scanning(s)'
  BY <1>1, <1>3 DEF Local, Scanning, Frees
<1>9. Leaving(s)'
  BY <1>1, <1>3, <1>4, <1>5 DEF Local, Leaving, Frees
<1>10. Reaping(s)'
  <2>1. st'[s] = "ZOMBIE" /\ pc'[s] \in Reap => Alone(s)' /\ task'[s] = "exit"
    BY <1>1, <1>2, <1>3, <1>4 DEF Local, Reaping, Frees, Reap
  <2>2. pc'[s] = "reapScan" => /\ IF allDead'[s] THEN Ahead(s)' ELSE Company(s)'
                               /\ \A k \in Slots \ {s} : k < cur'[s] => st'[k] # "ZOMBIE"
    BY <1>1, <1>2, <1>3, <1>4, <1>5 DEF Local, Reaping, Frees
  <2>3. pc'[s] = "reapEnd" => IF allDead'[s] THEN LastOne(s)' ELSE Company(s)'
    BY <1>1, <1>3, <1>4 DEF Local, Reaping, Frees
  <2>4. pc'[s] = "reapLock" /\ st'[s] = "SLEEPING" =>
          Company(s)' \/ \E k \in Slots \ {s} : pc'[k] = "texitWake"
    <3>1. ASSUME pc'[s] = "reapLock", st'[s] = "SLEEPING", NEW k \in Slots \ {s}, pc[k] = "texitWake"
          PROVE  pc'[k] = "texitWake"
      BY <3>1 DEF Calm, Frees
    <3> QED BY <1>1, <1>3, <1>4, <3>1 DEF Local, Reaping, Frees
  <2> QED BY <2>1, <2>2, <2>3, <2>4 DEF Reaping
<1>11. Joining(s)'
  <2>1. ASSUME NEW j \in Slots, ~Missed(s, j), Missed(s, j)'
        PROVE  waitLock = 0 /\ st'[s] # "SLEEPING"
    BY <1>2, <1>3, <2>1 DEF Missed, Calm, Frees
  <2>2. pc[s] \in {"joinScan", "joinEnd"} => waitLock = s
    BY <1>1 DEF Local, Held
  <2>3. s # 0
    BY ThreadsConstants DEF Slots
  <2> QED BY <1>1, <1>3, <2>1, <2>2, <2>3 DEF Local, Joining, Frees
<1>12. Last(s)'
  BY <1>1, <1>3, <1>4 DEF Local, Last, Frees, Calm
<1> QED BY <1>6, <1>7, <1>8, <1>9, <1>10, <1>11, <1>12 DEF Local

(* So what is left is what t does to itself.                               *)
LEMMA CalmStep ==
  ASSUME ThreadsInv, Sound, NEW t \in Slots, Calm(t), Local(t)', Ending(t) => Live(t)' \/ Ending(t)',
         pstate = "USED"
  PROVE  Sound'
<1>1. \A s \in Slots : Local(s)'
  BY CalmOthers
<1>2. Creators'
  <2>1. \A k \in Slots : pc'[k] = "createRun" <=> pc[k] = "createRun"
    BY DEF Calm, Frees
  <2>2. \A k \in Slots : pc[k] = "createRun" => cur'[k] = cur[k] /\ cur[k] \in Slots
    BY DEF Calm, Sound, Local, Scanning
  <2> QED BY <2>1, <2>2, CalmUp DEF Sound, Creators
<1>3. Process'
  <2>1. ASSUME NEW k \in Slots \ {t}, Ending(k)
        PROVE  Ending(k)'
    BY <2>1 DEF Calm, Frees, Ending
  <2> QED BY <2>1, CalmUp DEF Sound, Process, Calm
<1> QED BY <1>1, <1>2, <1>3 DEF Sound
-----------------------------------------------------------------------------
(* Where a thread is in the kernel, the process is not dead.               *)
LEMMA InUse ==
  ASSUME ThreadsInv, Sound, NEW t \in Slots, pc[t] \notin {"none", "exitSwtch", "gone"}
  PROVE  pstate = "USED"
BY DEF Sound, Process, Local, Place, ThreadsInv, TypeOK

(* Who sees another alive has company: if that one is only being set up,   *)
(* then by a third, who is up.                                             *)
LEMMA InCompany ==
  ASSUME ThreadsInv, Sound, NEW t \in Slots, NEW k \in Slots \ {t}, Live(k), pc[t] # "createRun"
  PROVE  Company(t)
<1>1. CASE st[k] \in Up
  BY <1>1 DEF Company
<1>2. CASE st[k] = "USED"
  <2>1. PICK c \in Slots : pc[c] = "createRun"
    BY <1>2 DEF Sound, Creators
  <2>2. st[c] \in Up
    BY <2>1 DEF Sound, Local, Place, Reap, ThreadsInv, TypeOK, Up
  <2> QED BY <2>1, <2>2 DEF Company
<1> QED BY <1>1, <1>2 DEF Live, Up, ThreadsInv, TypeOK

(* What t knows of the others after a calm step.                           *)
LEMMA CalmSelf ==
  ASSUME ThreadsInv, Sound, NEW t \in Slots, Calm(t)
  PROVE  /\ Alone(t)' <=> Alone(t)
         /\ LastOne(t) => LastOne(t)'
         /\ Company(t)' <=> Company(t)
         /\ cur'[t] = cur[t] /\ Ahead(t) => Ahead(t)'
         /\ cur'[t] = 1 => Ahead(t)'
         /\ target'[t] = target[t] /\ pc[t] # "texitWake" => \A j \in Slots : Missed(t, j)' => Missed(t, j)
BY CalmUp DEF Alone, LastOne, Company, Ahead, Calm, Frees, Missed, Slots

(* Away from kthread_exit and from that loop neither says anything.        *)
LEMMA Elsewhere ==
  ASSUME NEW t \in Slots,
         pc'[t] \notin {"texitScan", "texitMark", "texitWake"},
         pc'[t] \notin {"reapLock", "reapDead", "reapScan", "reapEnd"}
  PROVE  Leaving(t)' /\ Reaping(t)'
BY DEF Leaving, Reaping, Reap

(* A call of kthread_create, exit, exec or kthread_exit; a fault. *)
LEMMA CallCreateCalm ==
  ASSUME ThreadsInv, Sound, NEW t \in Slots, CallCreate(t), ~broken'
  PROVE  Calm(t) /\ Local(t)' /\ (Ending(t) => Live(t)' \/ Ending(t)')
<1> USE DEF CallCreate, Goto, At, FreeThreads, locals, procVars, locks, Live, Doomed
<1>1. Local(t) /\ 0 \notin Slots
  BY ThreadsConstants DEF Sound, Slots
<1>2. Calm(t)
  BY <1>1 DEF Calm, Frees, Local, Place, Held, Up, Reap, ThreadsInv, TypeOK
<1>3. Place(t)' /\ Held(t)' /\ Scanning(t)'
  BY <1>1, ThreadsConstants DEF Local, Place, Held, Scanning, Slots, Reap, ThreadsInv, TypeOK
<1>4. Leaving(t)' /\ Reaping(t)'
  <2>1. pc'[t] = "createScan"
    BY DEF ThreadsInv, TypeOK
  <2> QED BY <2>1, Elsewhere
<1>5. Joining(t)' /\ Last(t)'
  BY <1>1, <1>2, CalmSelf DEF Local, Joining, Last, Scanning, Slots, ThreadsInv, TypeOK
<1>6. Ending(t) => Live(t)' \/ Ending(t)'
  BY <1>1 DEF Local, Place, Ending, Reap, ThreadsInv, TypeOK
<1> QED BY <1>2, <1>3, <1>4, <1>5, <1>6 DEF Local

(* exit is entered by a thread that is up; no slot changes hands.          *)
LEMMA CallExitCalm ==
  ASSUME ThreadsInv, Sound, NEW t \in Slots, CallExit(t), ~broken'
  PROVE  Calm(t) /\ Local(t)' /\ (Ending(t) => Live(t)' \/ Ending(t)')
<1> USE DEF CallExit, Goto, At, FreeThreads, locals, procVars, locks, Live, Doomed
<1>1. Local(t) /\ 0 \notin Slots
  BY ThreadsConstants DEF Sound, Slots
<1>2. Calm(t)
  BY <1>1 DEF Calm, Frees, Local, Place, Held, Up, Reap, ThreadsInv, TypeOK
<1>3. Place(t)' /\ Held(t)' /\ Scanning(t)'
  BY <1>1, ThreadsConstants DEF Local, Place, Held, Scanning, Slots, Reap, ThreadsInv, TypeOK
<1>4. Leaving(t)' /\ Reaping(t)'
  <2>1. Leaving(t)'
    BY <1>1, <1>2, CalmSelf DEF Local, Leaving, Scanning, Place, Ahead, Reap, ThreadsInv, TypeOK
  <2>2. Reaping(t)'
    BY <1>1, <1>2, CalmSelf DEF Local, Reaping, Scanning, Place, Ahead, Slots, Reap, ThreadsInv, TypeOK
  <2> QED BY <2>1, <2>2
<1>5. Joining(t)' /\ Last(t)'
  BY <1>1, <1>2, CalmSelf DEF Local, Joining, Last, Scanning, Slots, ThreadsInv, TypeOK
<1>6. Ending(t) => Live(t)' \/ Ending(t)'
  BY <1>1 DEF Local, Place, Ending, Reap, ThreadsInv, TypeOK
<1> QED BY <1>2, <1>3, <1>4, <1>5, <1>6 DEF Local

(* So it is when exec is entered.                                          *)
LEMMA CallExecCalm ==
  ASSUME ThreadsInv, Sound, NEW t \in Slots, CallExec(t), ~broken'
  PROVE  Calm(t) /\ Local(t)' /\ (Ending(t) => Live(t)' \/ Ending(t)')
<1> USE DEF CallExec, Goto, At, FreeThreads, locals, procVars, locks, Live, Doomed
<1>1. Local(t) /\ 0 \notin Slots
  BY ThreadsConstants DEF Sound, Slots
<1>2. Calm(t)
  BY <1>1 DEF Calm, Frees, Local, Place, Held, Up, Reap, ThreadsInv, TypeOK
<1>3. Place(t)' /\ Held(t)' /\ Scanning(t)'
  BY <1>1, ThreadsConstants DEF Local, Place, Held, Scanning, Slots, Reap, ThreadsInv, TypeOK
<1>4. Leaving(t)' /\ Reaping(t)'
  <2>1. pc'[t] = "killScan"
    BY DEF ThreadsInv, TypeOK
  <2> QED BY <2>1, Elsewhere
<1>5. Joining(t)' /\ Last(t)'
  BY <1>1, <1>2, CalmSelf DEF Local, Joining, Last, Scanning, Slots, ThreadsInv, TypeOK
<1>6. Ending(t) => Live(t)' \/ Ending(t)'
  BY <1>1 DEF Local, Place, Ending, Reap, ThreadsInv, TypeOK
<1> QED BY <1>2, <1>3, <1>4, <1>5, <1>6 DEF Local

(* So it is when kthread_exit is entered: nothing has been counted yet.    *)
LEMMA CallThreadExitCalm ==
  ASSUME ThreadsInv, Sound, NEW t \in Slots, CallThreadExit(t), ~broken'
  PROVE  Calm(t) /\ Local(t)' /\ (Ending(t) => Live(t)' \/ Ending(t)')
<1> USE DEF CallThreadExit, Goto, At, FreeThreads, locals, procVars, locks, Live, Doomed
<1>1. Local(t) /\ 0 \notin Slots
  BY ThreadsConstants DEF Sound, Slots
<1>2. Calm(t)
  BY <1>1 DEF Calm, Frees, Local, Place, Held, Up, Reap, ThreadsInv, TypeOK
<1>3. Place(t)' /\ Held(t)' /\ Scanning(t)'
  BY <1>1, ThreadsConstants DEF Local, Place, Held, Scanning, Slots, Reap, ThreadsInv, TypeOK
<1>4. Leaving(t)' /\ Reaping(t)'
  <2>1. pc'[t] = "texitLock"
    BY DEF ThreadsInv, TypeOK
  <2> QED BY <2>1, Elsewhere
<1>5. Joining(t)' /\ Last(t)'
  BY <1>1, <1>2, CalmSelf DEF Local, Joining, Last, Scanning, Slots, ThreadsInv, TypeOK
<1>6. Ending(t) => Live(t)' \/ Ending(t)'
  BY <1>1 DEF Local, Place, Ending, Reap, ThreadsInv, TypeOK
<1> QED BY <1>2, <1>3, <1>4, <1>5, <1>6 DEF Local

(* A fault or a fatal signal sends a thread to exit, as a call does.       *)
LEMMA FaultCalm ==
  ASSUME ThreadsInv, Sound, NEW t \in Slots, Fault(t), ~broken'
  PROVE  Calm(t) /\ Local(t)' /\ (Ending(t) => Live(t)' \/ Ending(t)')
<1> USE DEF Fault, Goto, At, FreeThreads, locals, procVars, locks, Live, Doomed
<1>1. Local(t) /\ 0 \notin Slots
  BY ThreadsConstants DEF Sound, Slots
<1>2. Calm(t)
  BY <1>1 DEF Calm, Frees, Local, Place, Held, Up, Reap, ThreadsInv, TypeOK
<1>3. Place(t)' /\ Held(t)' /\ Scanning(t)'
  BY <1>1, ThreadsConstants DEF Local, Place, Held, Scanning, Slots, Reap, ThreadsInv, TypeOK
<1>4. Leaving(t)' /\ Reaping(t)'
  <2>1. pc'[t] = "texitLock"
    BY DEF Fault, ThreadsInv, TypeOK
  <2> QED BY <2>1, Elsewhere
<1>5. Joining(t)' /\ Last(t)'
  BY <1>1, <1>2, CalmSelf DEF Local, Joining, Last, Scanning, Slots, ThreadsInv, TypeOK
<1>6. Ending(t) => Live(t)' \/ Ending(t)'
  BY <1>1 DEF Local, Place, Ending, Reap, ThreadsInv, TypeOK
<1> QED BY <1>2, <1>3, <1>4, <1>5, <1>6 DEF Local

(* kthread_join only waits: nobody depends on who has called it.           *)
LEMMA CallJoinCalm ==
  ASSUME ThreadsInv, Sound, NEW t \in Slots, NEW x \in Tids, CallJoin(t, x), ~broken'
  PROVE  Calm(t) /\ Local(t)' /\ (Ending(t) => Live(t)' \/ Ending(t)')
<1> USE DEF CallJoin, Goto, At, FreeThreads, locals, procVars, locks, Live, Doomed
<1>1. Local(t) /\ 0 \notin Slots
  BY ThreadsConstants DEF Sound, Slots
<1>2. Calm(t)
  BY <1>1 DEF Calm, Frees, Local, Place, Held, Up, Reap, ThreadsInv, TypeOK
<1>3. Place(t)' /\ Held(t)' /\ Scanning(t)'
  BY <1>1, ThreadsConstants DEF Local, Place, Held, Scanning, Slots, Reap, ThreadsInv, TypeOK
<1>4. Leaving(t)' /\ Reaping(t)'
  <2>1. pc'[t] = "joinLock"
    BY DEF ThreadsInv, TypeOK
  <2> QED BY <2>1, Elsewhere
<1>5. Joining(t)' /\ Last(t)'
  BY <1>1, <1>2, CalmSelf DEF Local, Joining, Last, Scanning, Slots, ThreadsInv, TypeOK
<1>6. Ending(t) => Live(t)' \/ Ending(t)'
  BY <1>1 DEF Local, Place, Ending, Reap, ThreadsInv, TypeOK
<1> QED BY <1>2, <1>3, <1>4, <1>5, <1>6 DEF Local

(* kthread_create looks for a slot. *)
LEMMA CreateScanCalm ==
  ASSUME ThreadsInv, Sound, NEW t \in Slots, CreateScan(t), ~broken'
  PROVE  Calm(t) /\ Local(t)' /\ (Ending(t) => Live(t)' \/ Ending(t)')
<1> USE DEF CreateScan, Goto, At, FreeThreads, locals, procVars, locks, Live, Doomed
<1>1. Local(t) /\ 0 \notin Slots
  BY ThreadsConstants DEF Sound, Slots
<1>2. Calm(t)
  BY <1>1 DEF Calm, Frees, Local, Place, Held, Up, Reap, ThreadsInv, TypeOK
<1>3. Place(t)' /\ Held(t)' /\ Scanning(t)'
  BY <1>1, ThreadsConstants DEF Local, Place, Held, Scanning, Slots, Reap, ThreadsInv, TypeOK
<1>4. Leaving(t)' /\ Reaping(t)'
  <2>1. pc'[t] \in {"createSet", "createScan", "user"}
    BY DEF ThreadsInv, TypeOK
  <2> QED BY <2>1, Elsewhere
<1>5. Joining(t)' /\ Last(t)'
  BY <1>1, <1>2, CalmSelf DEF Local, Joining, Last, Scanning, Slots, ThreadsInv, TypeOK
<1>6. Ending(t) => Live(t)' \/ Ending(t)'
  BY <1>1 DEF Local, Place, Ending, Reap, ThreadsInv, TypeOK
<1> QED BY <1>2, <1>3, <1>4, <1>5, <1>6 DEF Local

(* kthread_exit takes all_dead_lock, *)
LEMMA ThreadExitLockCalm ==
  ASSUME ThreadsInv, Sound, NEW t \in Slots, ThreadExitLock(t), ~broken'
  PROVE  Calm(t) /\ Local(t)' /\ (Ending(t) => Live(t)' \/ Ending(t)')
<1> USE DEF ThreadExitLock, Goto, At, FreeThreads, locals, procVars, locks, Live, Doomed
<1>1. Local(t) /\ 0 \notin Slots
  BY ThreadsConstants DEF Sound, Slots
<1>2. Calm(t)
  BY <1>1 DEF Calm, Frees, Local, Place, Held, Up, Reap, ThreadsInv, TypeOK
<1>3. Place(t)' /\ Held(t)' /\ Scanning(t)'
  BY <1>1, ThreadsConstants DEF Local, Place, Held, Scanning, Slots, Reap, ThreadsInv, TypeOK
<1>4. Leaving(t)' /\ Reaping(t)'
  <2>1. Leaving(t)'
    BY <1>1, <1>2, CalmSelf DEF Local, Leaving, Scanning, Place, Ahead, Reap, ThreadsInv, TypeOK
  <2>2. Reaping(t)'
    BY <1>1, <1>2, CalmSelf DEF Local, Reaping, Scanning, Place, Ahead, Slots, Reap, ThreadsInv, TypeOK
  <2> QED BY <2>1, <2>2
<1>5. Joining(t)' /\ Last(t)'
  BY <1>1, <1>2, CalmSelf DEF Local, Joining, Last, Scanning, Slots, ThreadsInv, TypeOK
<1>6. Ending(t) => Live(t)' \/ Ending(t)'
  BY <1>1 DEF Local, Place, Ending, Reap, ThreadsInv, TypeOK
<1> QED BY <1>2, <1>3, <1>4, <1>5, <1>6 DEF Local

(* looks for another that lives, *)
LEMMA ThreadExitScanCalm ==
  ASSUME ThreadsInv, Sound, NEW t \in Slots, ThreadExitScan(t), ~broken'
  PROVE  Calm(t) /\ Local(t)' /\ (Ending(t) => Live(t)' \/ Ending(t)')
<1> USE DEF ThreadExitScan, Goto, At, FreeThreads, locals, procVars, locks, Live, Doomed
<1>1. Local(t) /\ 0 \notin Slots
  BY ThreadsConstants DEF Sound, Slots
<1>2. Calm(t)
  BY <1>1 DEF Calm, Frees, Local, Place, Held, Reaping, Company, Alone, Up, Reap, ThreadsInv, TypeOK
<1>3. Place(t)' /\ Held(t)'
  BY <1>1 DEF Local, Place, Held, Reaping, Company, Alone, Up, Reap, ThreadsInv, TypeOK
<1>4. Scanning(t)'
  BY <1>1, ThreadsConstants DEF Local, Scanning, Slots, ThreadsInv, TypeOK
<1>5. Leaving(t)'
  <2>1. allDead[t] /\ Ahead(t)
    BY <1>1 DEF Local, Leaving
  <2>2. cur'[t] = cur[t] + 1 /\ ~(cur[t] # t /\ Live(cur[t])) => Ahead(t)'
    BY <1>2, <2>1, CalmUp, CalmSelf, ThreadsConstants DEF Ahead, Up, Slots, ThreadsInv, TypeOK
  <2>3. cur[t] = NT /\ ~(cur[t] # t /\ Live(cur[t])) => Alone(t)'
    <3>1. cur[t] = NT /\ ~(cur[t] # t /\ Live(cur[t])) => ~Company(t)
      BY <2>1, ThreadsConstants DEF Ahead, Company, Up, Slots, ThreadsInv, TypeOK
    <3> QED BY <1>2, <3>1, CalmSelf, InCompany DEF Alone
  <2>4. cur[t] # t /\ Live(cur[t]) => Company(t)'
    BY <1>2, CalmSelf, InCompany
  <2> QED BY <2>1, <2>2, <2>3, <2>4 DEF Leaving, ThreadsInv, TypeOK
<1>6. Reaping(t)'
  BY <1>1, <1>2, CalmSelf, InCompany, ThreadsConstants DEF Local, Leaving, Reaping, Place, Ahead, Slots, Reap, ThreadsInv, TypeOK
<1>7. Joining(t)'
  BY <1>1, <1>2, CalmSelf, ThreadsConstants DEF Local, Joining, Missed, Slots, ThreadsInv, TypeOK
<1>8. Last(t)'
  BY <1>1, <1>2, CalmSelf, InUse DEF Local, Last, Reaping, Calm, ThreadsInv, TypeOK
<1>9. Ending(t) => Live(t)' \/ Ending(t)'
  BY <1>1 DEF Local, Place, Reaping, Company, Alone, Ending, Up, Reap, ThreadsInv, TypeOK
<1> QED BY <1>2, <1>3, <1>4, <1>5, <1>6, <1>7, <1>8, <1>9 DEF Local

(* wakes everybody once it is dead, and leaves the CPU. *)
LEMMA ThreadExitWakeCalm ==
  ASSUME ThreadsInv, Sound, NEW t \in Slots, ThreadExitWake(t), ~broken'
  PROVE  Calm(t) /\ Local(t)' /\ (Ending(t) => Live(t)' \/ Ending(t)')
<1> USE DEF ThreadExitWake, Goto, At, FreeThreads, locals, procVars, locks, Live, Doomed
<1>1. Local(t) /\ 0 \notin Slots
  BY ThreadsConstants DEF Sound, Slots
<1>2. Calm(t)
  BY <1>1 DEF Calm, Frees, Local, Place, Held, Up, Reap, ThreadsInv, TypeOK
<1>3. Place(t)' /\ Held(t)' /\ Scanning(t)'
  BY <1>1, ThreadsConstants DEF Local, Place, Held, Scanning, Slots, Reap, ThreadsInv, TypeOK
<1>4. Leaving(t)' /\ Reaping(t)'
  <2>1. Leaving(t)'
    <3>1. pc'[t] \in {"reapLock", "texitSwtch"}
      BY DEF ThreadsInv, TypeOK
    <3> QED BY <3>1 DEF Leaving
  <2>2. Reaping(t)'
    <3>1. pc'[t] \in {"reapLock", "texitSwtch"} /\ st'[t] # "SLEEPING"
          /\ (pc'[t] = "reapLock" => allDead[t] /\ task'[t] = "exit")
      BY DEF ThreadsInv, TypeOK, Slots
    <3>2. allDead[t] => Alone(t)'
      BY <1>1, <1>2, CalmSelf DEF Local, Leaving
    <3> QED BY <3>1, <3>2 DEF Reaping, Reap
  <2> QED BY <2>1, <2>2
<1>5. Joining(t)' /\ Last(t)'
  BY <1>1, <1>2, CalmSelf DEF Local, Joining, Last, Scanning, Slots, ThreadsInv, TypeOK
<1>6. Ending(t) => Live(t)' \/ Ending(t)'
  BY <1>1 DEF Local, Place, Ending, Reap, ThreadsInv, TypeOK
<1> QED BY <1>2, <1>3, <1>4, <1>5, <1>6 DEF Local

(* A thread whose wakeup is over gives up its CPU; its slot is dead        *)
(* already.                                                                *)
LEMMA ThreadExitSwtchCalm ==
  ASSUME ThreadsInv, Sound, NEW t \in Slots, ThreadExitSwtch(t), ~broken'
  PROVE  Calm(t) /\ Local(t)' /\ (Ending(t) => Live(t)' \/ Ending(t)')
<1> USE DEF ThreadExitSwtch, Goto, At, FreeThreads, locals, procVars, locks, Live, Doomed
<1>1. Local(t) /\ 0 \notin Slots
  BY ThreadsConstants DEF Sound, Slots
<1>2. Calm(t)
  BY <1>1 DEF Calm, Frees, Local, Place, Held, Up, Reap, ThreadsInv, TypeOK
<1>3. Place(t)' /\ Held(t)' /\ Scanning(t)'
  BY <1>1, ThreadsConstants DEF Local, Place, Held, Scanning, Slots, Reap, ThreadsInv, TypeOK
<1>4. Leaving(t)' /\ Reaping(t)'
  <2>1. pc'[t] = "gone"
    BY DEF ThreadsInv, TypeOK
  <2> QED BY <2>1, Elsewhere
<1>5. Joining(t)' /\ Last(t)'
  BY <1>1, <1>2, CalmSelf DEF Local, Joining, Last, Scanning, Slots, ThreadsInv, TypeOK
<1>6. Ending(t) => Live(t)' \/ Ending(t)'
  BY <1>1 DEF Local, Place, Ending, Reap, ThreadsInv, TypeOK
<1> QED BY <1>2, <1>3, <1>4, <1>5, <1>6 DEF Local

(* kthread_join takes wait_lock, *)
LEMMA JoinLockCalm ==
  ASSUME ThreadsInv, Sound, NEW t \in Slots, JoinLock(t), ~broken'
  PROVE  Calm(t) /\ Local(t)' /\ (Ending(t) => Live(t)' \/ Ending(t)')
<1> USE DEF JoinLock, Goto, At, FreeThreads, locals, procVars, locks, Live, Doomed
<1>1. Local(t) /\ 0 \notin Slots
  BY ThreadsConstants DEF Sound, Slots
<1>2. Calm(t)
  BY <1>1 DEF Calm, Frees, Local, Place, Held, Up, Reap, ThreadsInv, TypeOK
<1>3. Place(t)' /\ Held(t)' /\ Scanning(t)'
  BY <1>1, ThreadsConstants DEF Local, Place, Held, Scanning, Slots, Reap, ThreadsInv, TypeOK
<1>4. Leaving(t)' /\ Reaping(t)'
  <2>1. pc'[t] = "joinScan"
    BY DEF ThreadsInv, TypeOK
  <2> QED BY <2>1, Elsewhere
<1>5. Joining(t)' /\ Last(t)'
  BY <1>1, <1>2, CalmSelf DEF Local, Joining, Last, Scanning, Slots, ThreadsInv, TypeOK
<1>6. Ending(t) => Live(t)' \/ Ending(t)'
  BY <1>1 DEF Local, Place, Ending, Reap, ThreadsInv, TypeOK
<1> QED BY <1>2, <1>3, <1>4, <1>5, <1>6 DEF Local

(* looks at one slot, *)
LEMMA JoinScanCalm ==
  ASSUME ThreadsInv, Sound, NEW t \in Slots, JoinScan(t), ~broken'
  PROVE  Calm(t) /\ Local(t)' /\ (Ending(t) => Live(t)' \/ Ending(t)')
<1> USE DEF JoinScan, Goto, At, FreeThreads, locals, procVars, locks, Live, Doomed
<1>1. Local(t) /\ 0 \notin Slots
  BY ThreadsConstants DEF Sound, Slots
<1>2. Calm(t)
  BY <1>1 DEF Calm, Frees, Local, Place, Held, Reaping, Company, Alone, Up, Reap, ThreadsInv, TypeOK
<1>3. Place(t)' /\ Held(t)'
  BY <1>1 DEF Local, Place, Held, Reaping, Company, Alone, Up, Reap, ThreadsInv, TypeOK
<1>4. Scanning(t)'
  BY <1>1, ThreadsConstants DEF Local, Scanning, Slots, ThreadsInv, TypeOK
<1>5. Leaving(t)'
  BY <1>1, <1>2, CalmSelf, InCompany, ThreadsConstants DEF Local, Leaving, Ahead, Company, Alone, Slots, Up, ThreadsInv, TypeOK
<1>6. Reaping(t)'
  BY <1>1, <1>2, CalmSelf, InCompany, ThreadsConstants DEF Local, Leaving, Reaping, Place, Ahead, Slots, Reap, ThreadsInv, TypeOK
<1>7. Joining(t)'
  BY <1>1, <1>2, CalmSelf, ThreadsConstants DEF Local, Joining, Missed, Slots, ThreadsInv, TypeOK
<1>8. Last(t)'
  BY <1>1, <1>2, CalmSelf, InUse DEF Local, Last, Reaping, Calm, ThreadsInv, TypeOK
<1>9. Ending(t) => Live(t)' \/ Ending(t)'
  BY <1>1 DEF Local, Place, Reaping, Company, Alone, Ending, Up, Reap, ThreadsInv, TypeOK
<1> QED BY <1>2, <1>3, <1>4, <1>5, <1>6, <1>7, <1>8, <1>9 DEF Local

(* gives up, *)
LEMMA JoinFailCalm ==
  ASSUME ThreadsInv, Sound, NEW t \in Slots, JoinFail(t), ~broken'
  PROVE  Calm(t) /\ Local(t)' /\ (Ending(t) => Live(t)' \/ Ending(t)')
<1> USE DEF JoinFail, Goto, At, FreeThreads, locals, procVars, locks, Live, Doomed
<1>1. Local(t) /\ 0 \notin Slots
  BY ThreadsConstants DEF Sound, Slots
<1>2. Calm(t)
  BY <1>1 DEF Calm, Frees, Local, Place, Held, Up, Reap, ThreadsInv, TypeOK
<1>3. Place(t)' /\ Held(t)' /\ Scanning(t)'
  BY <1>1, ThreadsConstants DEF Local, Place, Held, Scanning, Slots, Reap, ThreadsInv, TypeOK
<1>4. Leaving(t)' /\ Reaping(t)'
  <2>1. pc'[t] = "user"
    BY DEF ThreadsInv, TypeOK
  <2> QED BY <2>1, Elsewhere
<1>5. Joining(t)' /\ Last(t)'
  BY <1>1, <1>2, CalmSelf DEF Local, Joining, Last, Scanning, Slots, ThreadsInv, TypeOK
<1>6. Ending(t) => Live(t)' \/ Ending(t)'
  BY <1>1 DEF Local, Place, Ending, Reap, ThreadsInv, TypeOK
<1> QED BY <1>2, <1>3, <1>4, <1>5, <1>6 DEF Local

(* or goes to sleep. *)
LEMMA JoinEndCalm ==
  ASSUME ThreadsInv, Sound, NEW t \in Slots, JoinEnd(t), ~broken'
  PROVE  Calm(t) /\ Local(t)' /\ (Ending(t) => Live(t)' \/ Ending(t)')
<1> USE DEF JoinEnd, Goto, At, FreeThreads, locals, procVars, locks, Live, Doomed
<1>1. Local(t) /\ 0 \notin Slots
  BY ThreadsConstants DEF Sound, Slots
<1>2. Calm(t)
  BY <1>1 DEF Calm, Frees, Local, Place, Held, Up, Reap, ThreadsInv, TypeOK
<1>3. Place(t)' /\ Held(t)' /\ Scanning(t)'
  BY <1>1, ThreadsConstants DEF Local, Place, Held, Scanning, Slots, Reap, ThreadsInv, TypeOK
<1>4. Leaving(t)' /\ Reaping(t)'
  <2>1. pc'[t] \in {"user", "joinLock"}
    BY DEF ThreadsInv, TypeOK
  <2> QED BY <2>1, Elsewhere
<1>5. Joining(t)' /\ Last(t)'
  BY <1>1, <1>2, CalmSelf DEF Local, Joining, Last, Scanning, Slots, ThreadsInv, TypeOK
<1>6. Ending(t) => Live(t)' \/ Ending(t)'
  BY <1>1 DEF Local, Place, Ending, Reap, ThreadsInv, TypeOK
<1> QED BY <1>2, <1>3, <1>4, <1>5, <1>6 DEF Local

(* kill_all_threads marks the others. *)
LEMMA KillScanCalm ==
  ASSUME ThreadsInv, Sound, NEW t \in Slots, KillScan(t), ~broken'
  PROVE  Calm(t) /\ Local(t)' /\ (Ending(t) => Live(t)' \/ Ending(t)')
<1> USE DEF KillScan, Goto, At, FreeThreads, locals, procVars, locks, Live, Doomed
<1>1. Local(t) /\ 0 \notin Slots
  BY ThreadsConstants DEF Sound, Slots
<1>2. Calm(t)
  BY <1>1 DEF Calm, Frees, Local, Place, Held, Reaping, Company, Alone, Up, Reap, ThreadsInv, TypeOK
<1>3. Place(t)' /\ Held(t)'
  BY <1>1 DEF Local, Place, Held, Reaping, Company, Alone, Up, Reap, ThreadsInv, TypeOK
<1>4. Scanning(t)'
  BY <1>1, ThreadsConstants DEF Local, Scanning, Slots, ThreadsInv, TypeOK
<1>5. Leaving(t)'
  BY <1>1, <1>2, CalmSelf, InCompany, ThreadsConstants DEF Local, Leaving, Ahead, Company, Alone, Slots, Up, ThreadsInv, TypeOK
<1>6. Reaping(t)'
  BY <1>1, <1>2, CalmSelf, InCompany, ThreadsConstants DEF Local, Leaving, Reaping, Place, Ahead, Slots, Reap, ThreadsInv, TypeOK
<1>7. Joining(t)'
  BY <1>1, <1>2, CalmSelf, ThreadsConstants DEF Local, Joining, Missed, Slots, ThreadsInv, TypeOK
<1>8. Last(t)'
  BY <1>1, <1>2, CalmSelf, InUse DEF Local, Last, Reaping, Calm, ThreadsInv, TypeOK
<1>9. Ending(t) => Live(t)' \/ Ending(t)'
  BY <1>1 DEF Local, Place, Reaping, Company, Alone, Ending, Up, Reap, ThreadsInv, TypeOK
<1> QED BY <1>2, <1>3, <1>4, <1>5, <1>6, <1>7, <1>8, <1>9 DEF Local

(* The loop of exit and kill_all_threads. *)
LEMMA ReapLockCalm ==
  ASSUME ThreadsInv, Sound, NEW t \in Slots, ReapLock(t), ~broken'
  PROVE  Calm(t) /\ Local(t)' /\ (Ending(t) => Live(t)' \/ Ending(t)')
<1> USE DEF ReapLock, Goto, At, FreeThreads, locals, procVars, locks, Live, Doomed
<1>1. Local(t) /\ 0 \notin Slots
  BY ThreadsConstants DEF Sound, Slots
<1>2. Calm(t)
  BY <1>1 DEF Calm, Frees, Local, Place, Held, Up, Reap, ThreadsInv, TypeOK
<1>3. Place(t)' /\ Held(t)' /\ Scanning(t)'
  BY <1>1, ThreadsConstants DEF Local, Place, Held, Scanning, Slots, Reap, ThreadsInv, TypeOK
<1>4. Leaving(t)' /\ Reaping(t)'
  <2>1. Leaving(t)'
    BY <1>1, <1>2, CalmSelf DEF Local, Leaving, Scanning, Place, Ahead, Reap, ThreadsInv, TypeOK
  <2>2. Reaping(t)'
    BY <1>1, <1>2, CalmSelf DEF Local, Reaping, Scanning, Place, Ahead, Slots, Reap, ThreadsInv, TypeOK
  <2> QED BY <2>1, <2>2
<1>5. Joining(t)' /\ Last(t)'
  BY <1>1, <1>2, CalmSelf DEF Local, Joining, Last, Scanning, Slots, ThreadsInv, TypeOK
<1>6. Ending(t) => Live(t)' \/ Ending(t)'
  BY <1>1 DEF Local, Place, Ending, Reap, ThreadsInv, TypeOK
<1> QED BY <1>2, <1>3, <1>4, <1>5, <1>6 DEF Local

(* all_dead_lock is taken and the scan begins: none of the others has been *)
(* passed yet, so all_dead may be set.                                     *)
LEMMA ReapDeadCalm ==
  ASSUME ThreadsInv, Sound, NEW t \in Slots, ReapDead(t), ~broken'
  PROVE  Calm(t) /\ Local(t)' /\ (Ending(t) => Live(t)' \/ Ending(t)')
<1> USE DEF ReapDead, Goto, At, FreeThreads, locals, procVars, locks, Live, Doomed
<1>1. Local(t) /\ 0 \notin Slots
  BY ThreadsConstants DEF Sound, Slots
<1>2. Calm(t)
  BY <1>1 DEF Calm, Frees, Local, Place, Held, Up, Reap, ThreadsInv, TypeOK
<1>3. Place(t)' /\ Held(t)' /\ Scanning(t)'
  BY <1>1, ThreadsConstants DEF Local, Place, Held, Scanning, Slots, Reap, ThreadsInv, TypeOK
<1>4. Leaving(t)' /\ Reaping(t)'
  <2>1. Leaving(t)'
    BY <1>1, <1>2, CalmSelf DEF Local, Leaving, Scanning, Place, Ahead, Reap, ThreadsInv, TypeOK
  <2>2. Reaping(t)'
    BY <1>1, <1>2, CalmSelf DEF Local, Reaping, Scanning, Place, Ahead, Slots, Reap, ThreadsInv, TypeOK
  <2> QED BY <2>1, <2>2
<1>5. Joining(t)' /\ Last(t)'
  BY <1>1, <1>2, CalmSelf DEF Local, Joining, Last, Scanning, Slots, ThreadsInv, TypeOK
<1>6. Ending(t) => Live(t)' \/ Ending(t)'
  BY <1>1 DEF Local, Place, Ending, Reap, ThreadsInv, TypeOK
<1> QED BY <1>2, <1>3, <1>4, <1>5, <1>6 DEF Local

(* One turn of the scan frees a dead sibling's slot or wakes a sleeper,    *)
(* and all_dead still says that those it has passed are dead.              *)
LEMMA ReapScanCalm ==
  ASSUME ThreadsInv, Sound, NEW t \in Slots, ReapScan(t), ~broken'
  PROVE  Calm(t) /\ Local(t)' /\ (Ending(t) => Live(t)' \/ Ending(t)')
<1> USE DEF ReapScan, Goto, At, FreeThreads, locals, procVars, locks, Live, Doomed
<1>1. Local(t) /\ 0 \notin Slots
  BY ThreadsConstants DEF Sound, Slots
<1>2. Calm(t)
  BY <1>1 DEF Calm, Frees, Local, Place, Held, Reaping, Company, Alone, Up, Reap, ThreadsInv, TypeOK
<1>3. Place(t)' /\ Held(t)'
  BY <1>1 DEF Local, Place, Held, Reaping, Company, Alone, Up, Reap, ThreadsInv, TypeOK
<1>4. Scanning(t)'
  BY <1>1, ThreadsConstants DEF Local, Scanning, Slots, ThreadsInv, TypeOK
<1>5. Leaving(t)'
  BY <1>1, <1>2, CalmSelf, InCompany, ThreadsConstants DEF Local, Leaving, Ahead, Company, Alone, Slots, Up, ThreadsInv, TypeOK
<1>6. Reaping(t)'
  <2>1. /\ IF allDead[t] THEN Ahead(t) ELSE Company(t)
        /\ \A k \in Slots \ {t} : k < cur[t] => st[k] # "ZOMBIE"
    BY <1>1 DEF Local, Reaping
  <2>2. st'[t] = "ZOMBIE" /\ pc'[t] \in Reap => Alone(t)' /\ task'[t] = "exit"
    BY <1>1, <1>2, CalmSelf DEF Local, Reaping, Reap, ThreadsInv, TypeOK
  <2>3. cur[t] # t /\ Live(cur[t]) => Company(t)'
    BY <1>2, CalmSelf, InCompany
  <2>4. allDead'[t] /\ cur[t] # NT => Ahead(t)'
    BY <1>2, <2>1, CalmUp, CalmSelf, ThreadsConstants DEF Ahead, Up, Slots, ThreadsInv, TypeOK
  <2>5. cur[t] # NT => \A k \in Slots \ {t} : k < cur'[t] => st'[k] # "ZOMBIE"
    BY <1>2, <2>1, CalmUp, ThreadsConstants DEF Slots, ThreadsInv, TypeOK
  <2>6. allDead'[t] /\ cur[t] = NT => LastOne(t)'
    <3>1. \A k \in Slots \ {t} : cur[t] = NT => st'[k] # "ZOMBIE"
      BY <1>2, <2>1, CalmUp, ThreadsConstants DEF Slots, ThreadsInv, TypeOK
    <3>2. allDead'[t] /\ cur[t] = NT => ~Company(t)
      BY <2>1, ThreadsConstants DEF Ahead, Company, Up, Slots, ThreadsInv, TypeOK
    <3>3. allDead'[t] /\ cur[t] = NT => \A k \in Slots \ {t} : ~Live(k)
      BY <3>2, InCompany
    <3> QED BY <1>2, <3>1, <3>3, CalmUp DEF LastOne, Calm, Frees, ThreadsInv, TypeOK
  <2>7. ~allDead'[t] => Company(t)'
    BY <1>2, <2>1, <2>3, CalmSelf DEF ThreadsInv, TypeOK
  <2> QED BY <2>2, <2>4, <2>5, <2>6, <2>7 DEF Reaping, ThreadsInv, TypeOK
<1>7. Joining(t)'
  BY <1>1, <1>2, CalmSelf, ThreadsConstants DEF Local, Joining, Missed, Slots, ThreadsInv, TypeOK
<1>8. Last(t)'
  BY <1>1, <1>2, CalmSelf, InUse DEF Local, Last, Reaping, Calm, ThreadsInv, TypeOK
<1>9. Ending(t) => Live(t)' \/ Ending(t)'
  BY <1>1 DEF Local, Place, Reaping, Company, Alone, Ending, Up, Reap, ThreadsInv, TypeOK
<1> QED BY <1>2, <1>3, <1>4, <1>5, <1>6, <1>7, <1>8, <1>9 DEF Local

(* The end of a scan: sleep, or go on alone.                               *)
LEMMA ReapEndCalm ==
  ASSUME ThreadsInv, Sound, NEW t \in Slots, ReapEnd(t), ~broken'
  PROVE  Calm(t) /\ Local(t)' /\ (Ending(t) => Live(t)' \/ Ending(t)')
<1> USE DEF ReapEnd, Goto, At, FreeThreads, locals, procVars, locks, Live, Doomed
<1>1. Local(t) /\ 0 \notin Slots
  BY ThreadsConstants DEF Sound, Slots
<1>2. Calm(t)
  BY <1>1 DEF Calm, Frees, Local, Place, Held, Reaping, Company, Alone, Up, Reap, ThreadsInv, TypeOK
<1>3. Place(t)' /\ Held(t)'
  BY <1>1 DEF Local, Place, Held, Reaping, Company, Alone, Up, Reap, ThreadsInv, TypeOK
<1>4. Scanning(t)'
  BY <1>1, ThreadsConstants DEF Local, Scanning, Slots, ThreadsInv, TypeOK
<1>5. Leaving(t)'
  BY <1>1, <1>2, CalmSelf, InCompany, ThreadsConstants DEF Local, Leaving, Ahead, Company, Alone, Slots, Up, ThreadsInv, TypeOK
<1>6. Reaping(t)'
  <2>1. pc'[t] \in {"exitMark", "user", "reapLock"} /\ (pc'[t] = "reapLock" => ~allDead[t] /\ st'[t] = "SLEEPING")
    BY DEF ThreadsInv, TypeOK
  <2>2. ~allDead[t] => Company(t)'
    BY <1>1, <1>2, CalmSelf DEF Local, Reaping
  <2> QED BY <2>1, <2>2 DEF Reaping, Reap
<1>7. Joining(t)'
  BY <1>1, <1>2, CalmSelf, ThreadsConstants DEF Local, Joining, Missed, Slots, ThreadsInv, TypeOK
<1>8. Last(t)'
  <2>1. pc'[t] # "exitSwtch" /\ (pc'[t] = "exitMark" => allDead[t])
    BY DEF ThreadsInv, TypeOK
  <2>2. allDead[t] => LastOne(t)'
    BY <1>1, <1>2, CalmSelf DEF Local, Reaping
  <2> QED BY <2>1, <2>2 DEF Last
<1>9. Ending(t) => Live(t)' \/ Ending(t)'
  BY <1>1 DEF Local, Place, Reaping, Company, Alone, Ending, Up, Reap, ThreadsInv, TypeOK
<1> QED BY <1>2, <1>3, <1>4, <1>5, <1>6, <1>7, <1>8, <1>9 DEF Local
-----------------------------------------------------------------------------
(* kthread_create has found a slot: it is up itself, so nobody is alone.   *)
LEMMA CreateSetSound ==
  ASSUME ThreadsInv, Sound, NEW t \in Slots, NEW x \in Tids, CreateSet(t, x), ~broken'
  PROVE  Sound'
<1> DEFINE k == cur[t]
<1> USE DEF CreateSet, Goto, At, locals, procVars, locks
<1>1. /\ k \in Slots /\ k # t /\ st[k] = "UNUSED" /\ pc[k] = "none" /\ st[t] = "ACTIVE"
      /\ \A s \in Slots : Local(s)
  BY DEF Sound, Local, Scanning, Place, Reap, ThreadsInv, TypeOK
<1>2. \A s \in Slots \ {t} : ~Alone(s) /\ ~LastOne(s)
  BY <1>1 DEF Alone, LastOne, Live
<1>3. /\ \A s \in Slots : st'[s] \in Up <=> st[s] \in Up
      /\ \A s \in Slots : (Company(s)' <=> Company(s)) /\ (Ahead(s)' <=> Ahead(s))
      /\ \A s, j \in Slots : Missed(s, j)' => Missed(s, j)
  BY <1>1 DEF Company, Ahead, Up, Missed, ThreadsInv, TypeOK
<1>4. \A s \in Slots : pc'[s] = IF s = t THEN "createRun" ELSE pc[s]
  BY DEF ThreadsInv, TypeOK
<1>5. \A s \in Slots : st'[s] = IF s = k THEN "USED" ELSE st[s]
  BY DEF ThreadsInv, TypeOK
<1>6. ASSUME NEW s \in Slots
      PROVE  Local(s)'
  <2>1. Place(s)' /\ Held(s)' /\ Scanning(s)'
    BY <1>1, <1>4, <1>5 DEF Local, Place, Held, Scanning, Reap
  <2>2. Leaving(s)' /\ Reaping(s)'
    BY <1>1, <1>2, <1>3, <1>4, <1>5 DEF Local, Leaving, Reaping, Reap
  <2>3. Joining(s)' /\ Last(s)'
    BY <1>1, <1>2, <1>3, <1>4, <1>5 DEF Local, Joining, Last
  <2> QED BY <2>1, <2>2, <2>3 DEF Local
<1>7. Creators'
  BY <1>1, <1>4, <1>5 DEF Sound, Creators, Local, Scanning
<1>8. Process'
  BY <1>1, <1>4, <1>5, InUse DEF Process, Live
<1> QED BY <1>6, <1>7, <1>8 DEF Sound

(* The new thread can run, or its slot is given back.                      *)
LEMMA CreateRunSound ==
  ASSUME ThreadsInv, Sound, NEW t \in Slots, CreateRun(t), ~broken'
  PROVE  Sound'
<1> DEFINE k == cur[t]
<1> USE DEF CreateRun, At, locals, procVars, locks
<1>1. /\ k \in Slots /\ k # t /\ st[k] = "USED" /\ pc[k] = "none" /\ st[t] = "ACTIVE"
      /\ \A s \in Slots : Local(s)
  BY DEF Sound, Creators, Local, Scanning, Place, Reap, ThreadsInv, TypeOK
<1>2. \A s \in Slots \ {t} : ~Alone(s) /\ ~LastOne(s)
  BY <1>1 DEF Alone, LastOne, Live
<1>3. /\ \A s \in Slots : st[s] \in Up => st'[s] \in Up
      /\ \A s \in Slots : Company(s) => Company(s)'
      /\ \A s, j \in Slots : Missed(s, j)' => s \in {t, k} \/ Missed(s, j)
  BY <1>1 DEF Company, Up, Missed, ThreadsInv, TypeOK
<1>4. \A s \in Slots : pc'[s] = IF s = t THEN "user" ELSE IF s = k THEN pc'[k] ELSE pc[s]
  BY DEF ThreadsInv, TypeOK
<1>5. \A s \in Slots : st'[s] = IF s = k THEN st'[k] ELSE st[s]
  BY DEF ThreadsInv, TypeOK
<1>6. \A s \in Slots : cur'[s] = IF s = t THEN 1 ELSE cur[s]
  BY DEF ThreadsInv, TypeOK
<1>7. \/ st'[k] = "ACTIVE" /\ pc'[k] = "user"
      \/ st'[k] = "UNUSED" /\ pc'[k] = "none"
  BY <1>1 DEF ThreadsInv, TypeOK
<1>8. ASSUME NEW s \in Slots
      PROVE  Local(s)'
  <2>1. Place(s)' /\ Held(s)' /\ Scanning(s)'
    BY <1>1, <1>4, <1>5, <1>6, <1>7, ThreadsConstants DEF Local, Place, Held, Scanning, Reap, Slots
  <2>2. s \notin {t, k} /\ Ahead(s) /\ Company(s) => Ahead(s)'
    BY <1>3, <1>6 DEF Ahead
  <2>3. s \notin {t, k} => Company(s)
    BY <1>1 DEF Company, Up
  <2>4. Leaving(s)' /\ Reaping(s)'
    BY <1>1, <1>2, <1>3, <1>4, <1>5, <1>6, <1>7, <2>2, <2>3 DEF Local, Leaving, Reaping, Reap
  <2>5. Joining(s)' /\ Last(s)'
    BY <1>1, <1>2, <1>3, <1>4, <1>5, <1>6, <1>7 DEF Local, Joining, Last
  <2> QED BY <2>1, <2>4, <2>5 DEF Local
<1>9. Creators'
  BY <1>1, <1>4, <1>5, <1>6, <1>7 DEF Sound, Creators, Local, Scanning
<1>10. Process'
  BY <1>1, <1>5, InUse DEF Process, Live
<1> QED BY <1>8, <1>9, <1>10 DEF Sound

(* A thread dies: whoever counts on it holds all_dead_lock, or sleeps and  *)
(* has its wakeup before it.                                               *)
LEMMA ThreadExitMarkSound ==
  ASSUME ThreadsInv, Sound, NEW t \in Slots, ThreadExitMark(t), ~broken'
  PROVE  Sound'
<1> USE DEF ThreadExitMark, Goto, At, locals, procVars, locks
<1>0. 0 \notin Slots
  BY ThreadsConstants DEF Slots
<1>1. /\ st[t] = "ACTIVE" /\ deadLock = t
      /\ \A s \in Slots : Local(s)
  BY DEF Sound, Local, Place, Held, Reap, ThreadsInv, TypeOK
<1>2. \A s \in Slots : pc'[s] = IF s = t THEN "texitWake" ELSE pc[s]
  BY DEF ThreadsInv, TypeOK
<1>3. \A s \in Slots : st'[s] = IF s = t THEN "ZOMBIE" ELSE st[s]
  BY DEF ThreadsInv, TypeOK
<1>4. \A s \in Slots \ {t} : pc[s] \notin {"texitScan", "texitMark", "reapScan", "reapEnd"}
  BY <1>1 DEF Local, Held
<1>5. /\ \A s \in Slots : (Alone(s) => Alone(s)')
      /\ \A s \in Slots \ {t} : LastOne(s) => FALSE
      /\ LastOne(t) => LastOne(t)'
      /\ Company(t) => Company(t)'
      /\ \A s, j \in Slots : Missed(s, j)' => Missed(s, j)
  BY <1>1, <1>2, <1>3 DEF Alone, LastOne, Company, Live, Up, Missed
<1>6. ASSUME NEW s \in Slots
      PROVE  Local(s)'
  <2>1. Place(s)' /\ Held(s)' /\ Scanning(s)'
    BY <1>0, <1>1, <1>2, <1>3, <1>4 DEF Local, Place, Held, Scanning, Reap
  <2>2. Leaving(s)' /\ Reaping(s)'
    BY <1>1, <1>2, <1>3, <1>4, <1>5 DEF Local, Leaving, Reaping, Reap
  <2>3. Joining(s)' /\ Last(s)'
    BY <1>1, <1>2, <1>3, <1>5 DEF Local, Joining, Last
  <2> QED BY <2>1, <2>2, <2>3 DEF Local
<1>7. Creators'
  BY <1>1, <1>2, <1>3 DEF Sound, Creators, Local, Scanning
<1>8. Process'
  <2>1. pstate = "USED"
    BY InUse
  <2>2. allDead[t] \/ Company(t)'
    BY <1>1, <1>5 DEF Local, Leaving
  <2> QED BY <1>2, <2>1, <2>2 DEF Process, Ending, Company, Up, Live
<1> QED BY <1>6, <1>7, <1>8 DEF Sound

(* The process dies with its last thread.                                  *)
LEMMA ExitMarkSound ==
  ASSUME ThreadsInv, Sound, NEW t \in Slots, ExitMark(t), ~broken'
  PROVE  Sound'
<1> USE DEF ExitMark, Goto, At, locals, procVars, locks
<1>1. \A s \in Slots : Local(s)
  BY DEF Sound
<1>2. \A s \in Slots \ {t} : st[s] = "UNUSED" /\ pc[s] = "none"
  BY <1>1 DEF Local, Last, LastOne, Place
<1>3. \A s \in Slots : pc'[s] = IF s = t THEN "exitSwtch" ELSE "none"
  BY <1>2 DEF ThreadsInv, TypeOK
<1>4. \A s \in Slots : st'[s] = IF s = t THEN "ZOMBIE" ELSE "UNUSED"
  BY <1>2 DEF ThreadsInv, TypeOK
<1>5. \A s \in Slots : Place(s)' /\ Held(s)' /\ Scanning(s)'
  BY <1>1, <1>2, <1>3, <1>4 DEF Local, Place, Held, Scanning, Reap
<1>6. \A s \in Slots : Leaving(s)' /\ Reaping(s)' /\ Joining(s)' /\ Last(s)'
  BY <1>3, <1>4 DEF Leaving, Reaping, Joining, Last, LastOne, Reap
<1>7. Creators' /\ Process'
  BY <1>3, <1>4 DEF Creators, Process, Live
<1> QED BY <1>5, <1>6, <1>7 DEF Sound, Local

(* It leaves the CPU for good.                                             *)
LEMMA ExitSwtchSound ==
  ASSUME ThreadsInv, Sound, NEW t \in Slots, ExitSwtch(t), ~broken'
  PROVE  Sound'
<1> USE DEF ExitSwtch, Goto, At, locals, procVars, locks
<1>1. pstate = "ZOMBIE" /\ \A s \in Slots : Local(s)
  BY DEF Sound, Local, Last
<1>2. \A s \in Slots : pc[s] \in {"none", "exitSwtch", "gone"} /\ ~Live(s)
  BY <1>1 DEF Sound, Process
<1>3. \A s \in Slots : pc'[s] = IF s = t THEN "gone" ELSE pc[s]
  BY DEF ThreadsInv, TypeOK
<1>4. \A s \in Slots : Place(s)' /\ Held(s)' /\ Scanning(s)'
  BY <1>1, <1>2, <1>3 DEF Local, Place, Held, Scanning, Reap, Live, ThreadsInv, TypeOK
<1>5. \A s \in Slots : Leaving(s)' /\ Reaping(s)' /\ Joining(s)' /\ Last(s)'
  BY <1>1, <1>2, <1>3 DEF Local, Leaving, Reaping, Joining, Last, LastOne, Reap
<1>6. Creators' /\ Process'
  BY <1>1, <1>2, <1>3 DEF Sound, Creators, Process, Live
<1> QED BY <1>4, <1>5, <1>6 DEF Sound, Local

(* The parent frees a dead process: nobody of it is left.                  *)
LEMMA WaitReapSound ==
  ASSUME ThreadsInv, Sound, WaitReap, ~broken'
  PROVE  Sound'
<1> USE DEF WaitReap, locals, locks
<1>1. \A s \in Slots : Local(s) /\ pc[s] \in {"none", "exitSwtch", "gone"}
  BY DEF Sound, Process
<1>2. \A s \in Slots : pc'[s] = "none" /\ st'[s] = "UNUSED"
  OBVIOUS
<1>3. \A s \in Slots : Place(s)' /\ Held(s)' /\ Scanning(s)'
  BY <1>1, <1>2 DEF Local, Place, Held, Scanning, Reap
<1>4. \A s \in Slots : Leaving(s)' /\ Reaping(s)' /\ Joining(s)' /\ Last(s)'
  BY <1>2 DEF Leaving, Reaping, Joining, Last, Reap
<1>5. Creators' /\ Process'
  BY <1>2 DEF Creators, Process
<1> QED BY <1>3, <1>4, <1>5 DEF Sound, Local

(* The slot gets a new process with one thread.                            *)
LEMMA ForkSound ==
  ASSUME ThreadsInv, Sound, NEW x \in Tids, Fork(x), ~broken'
  PROVE  Sound'
<1> USE DEF Fork, locals, locks
<1>1. 1 \in Slots
  BY ThreadsConstants DEF Slots
<1>2. \A s \in Slots : Local(s) /\ st[s] = "UNUSED" /\ pc[s] = "none"
  BY DEF Sound, Process, Local, Place
<1>3. \A s \in Slots : pc'[s] = IF s = 1 THEN "user" ELSE "none"
  BY <1>2 DEF ThreadsInv, TypeOK
<1>4. \A s \in Slots : st'[s] = IF s = 1 THEN "ACTIVE" ELSE "UNUSED"
  BY <1>2 DEF ThreadsInv, TypeOK
<1>5. \A s \in Slots : Place(s)' /\ Held(s)' /\ Scanning(s)'
  BY <1>2, <1>3, <1>4 DEF Local, Place, Held, Scanning, Reap
<1>6. \A s \in Slots : Leaving(s)' /\ Reaping(s)' /\ Joining(s)' /\ Last(s)'
  BY <1>3, <1>4 DEF Leaving, Reaping, Joining, Last, Reap
<1>7. Creators' /\ Process'
  BY <1>1, <1>3, <1>4 DEF Creators, Process, Live
<1> QED BY <1>5, <1>6, <1>7 DEF Sound, Local
-----------------------------------------------------------------------------
(* Every step keeps the types.                                             *)
LEMMA TypeStep ==
  ASSUME ThreadsInv, [Next]_vars
  PROVE  TypeOK'
<1> USE ThreadsConstants DEF TypeOK, PCs, Slots, NoTid
<1>1. TypeOK
  BY DEF ThreadsInv
<1>2. \A t \in Slots : ~broken /\ pc[t] # "createScan" => cur[t] \in Slots
  BY DEF ThreadsInv, Sound, Local, Scanning
<1> USE DEF Goto, At, FreeThreads, Live, locals, procVars, locks
<1>3. ASSUME NEW t \in Slots, NEW x \in Tids, CreateSet(t, x)
      PROVE  TypeOK'
  BY <1>1, <1>2, <1>3 DEF CreateSet, Fresh
<1>4. ASSUME NEW t \in Slots, CreateScan(t)
      PROVE  TypeOK'
  <2>1. pc' \in [1..NT -> PCs]
    BY <1>1, <1>2, <1>4 DEF CreateScan
  <2>2. cur' \in [1..NT -> 1..(NT + 1)]
    BY <1>1, <1>2, <1>4 DEF CreateScan
  <2> QED BY <1>1, <1>4, <2>1, <2>2 DEF CreateScan
<1>5. ASSUME NEW t \in Slots, CreateRun(t)
      PROVE  TypeOK'
  <2>1. st' \in [1..NT -> {"UNUSED", "USED", "ACTIVE", "SLEEPING", "ZOMBIE"}]
    BY <1>1, <1>2, <1>5 DEF CreateRun
  <2>2. pc' \in [1..NT -> PCs]
    BY <1>1, <1>2, <1>5 DEF CreateRun
  <2>3. tid' \in [1..NT -> Tids \cup {0}]
    BY <1>1, <1>2, <1>5 DEF CreateRun
  <2>4. tkilled' \in [1..NT -> BOOLEAN]
    BY <1>1, <1>2, <1>5 DEF CreateRun
  <2>5. cur' \in [1..NT -> 1..(NT + 1)]
    BY <1>1, <1>2, <1>5 DEF CreateRun
  <2> QED BY <1>1, <1>5, <2>1, <2>2, <2>3, <2>4, <2>5 DEF CreateRun
<1>6. ASSUME NEW t \in Slots, ThreadExitLock(t)
      PROVE  TypeOK'
  BY <1>1, <1>2, <1>6 DEF ThreadExitLock
<1>7. ASSUME NEW t \in Slots, ThreadExitScan(t)
      PROVE  TypeOK'
  <2>1. pc' \in [1..NT -> PCs]
    BY <1>1, <1>2, <1>7 DEF ThreadExitScan
  <2>2. cur' \in [1..NT -> 1..(NT + 1)]
    BY <1>1, <1>2, <1>7 DEF ThreadExitScan
  <2>3. allDead' \in [1..NT -> BOOLEAN]
    BY <1>1, <1>2, <1>7 DEF ThreadExitScan
  <2> QED BY <1>1, <1>7, <2>1, <2>2, <2>3 DEF ThreadExitScan
<1>8. ASSUME NEW t \in Slots, ThreadExitMark(t)
      PROVE  TypeOK'
  BY <1>1, <1>2, <1>8 DEF ThreadExitMark
<1>9. ASSUME NEW t \in Slots, ThreadExitWake(t)
      PROVE  TypeOK'
  BY <1>1, <1>2, <1>9 DEF ThreadExitWake
<1>10. ASSUME NEW t \in Slots, ThreadExitSwtch(t)
      PROVE  TypeOK'
  BY <1>1, <1>2, <1>10 DEF ThreadExitSwtch
<1>11. ASSUME NEW t \in Slots, JoinLock(t)
      PROVE  TypeOK'
  BY <1>1, <1>2, <1>11 DEF JoinLock
<1>12. ASSUME NEW t \in Slots, JoinScan(t)
      PROVE  TypeOK'
  BY <1>1, <1>2, <1>12 DEF JoinScan
<1>13. ASSUME NEW t \in Slots, JoinFail(t)
      PROVE  TypeOK'
  BY <1>1, <1>2, <1>13 DEF JoinFail
<1>14. ASSUME NEW t \in Slots, JoinEnd(t)
      PROVE  TypeOK'
  <2>1. st' \in [1..NT -> {"UNUSED", "USED", "ACTIVE", "SLEEPING", "ZOMBIE"}]
    BY <1>1, <1>2, <1>14 DEF JoinEnd
  <2>2. pc' \in [1..NT -> PCs]
    BY <1>1, <1>2, <1>14 DEF JoinEnd
  <2>3. target' \in [1..NT -> Tids \cup {NoTid}]
    BY <1>1, <1>2, <1>14 DEF JoinEnd
  <2> QED BY <1>1, <1>14, <2>1, <2>2, <2>3 DEF JoinEnd
<1>15. ASSUME NEW t \in Slots, KillScan(t)
      PROVE  TypeOK'
  <2>1. st' \in [1..NT -> {"UNUSED", "USED", "ACTIVE", "SLEEPING", "ZOMBIE"}]
    BY <1>1, <1>2, <1>15 DEF KillScan
  <2>2. pc' \in [1..NT -> PCs]
    BY <1>1, <1>2, <1>15 DEF KillScan
  <2>3. tid' \in [1..NT -> Tids \cup {0}]
    BY <1>1, <1>2, <1>15 DEF KillScan
  <2>4. tkilled' \in [1..NT -> BOOLEAN]
    BY <1>1, <1>2, <1>15 DEF KillScan
  <2>5. cur' \in [1..NT -> 1..(NT + 1)]
    BY <1>1, <1>2, <1>15 DEF KillScan
  <2> QED BY <1>1, <1>15, <2>1, <2>2, <2>3, <2>4, <2>5 DEF KillScan
<1>16. ASSUME NEW t \in Slots, ReapLock(t)
      PROVE  TypeOK'
  BY <1>1, <1>2, <1>16 DEF ReapLock
<1>17. ASSUME NEW t \in Slots, ReapDead(t)
      PROVE  TypeOK'
  BY <1>1, <1>2, <1>17 DEF ReapDead
<1>18. ASSUME NEW t \in Slots, ReapScan(t)
      PROVE  TypeOK'
  BY <1>1, <1>2, <1>18 DEF ReapScan
<1>19. ASSUME NEW t \in Slots, ReapEnd(t)
      PROVE  TypeOK'
  <2>1. st' \in [1..NT -> {"UNUSED", "USED", "ACTIVE", "SLEEPING", "ZOMBIE"}]
    BY <1>1, <1>2, <1>19 DEF ReapEnd
  <2>2. pc' \in [1..NT -> PCs]
    BY <1>1, <1>2, <1>19 DEF ReapEnd
  <2>3. task' \in [1..NT -> {"none", "exit", "exec"}]
    BY <1>1, <1>2, <1>19 DEF ReapEnd
  <2>4. allDead' \in [1..NT -> BOOLEAN]
    BY <1>1, <1>2, <1>19 DEF ReapEnd
  <2> QED BY <1>1, <1>19, <2>1, <2>2, <2>3, <2>4 DEF ReapEnd
<1>20. ASSUME NEW t \in Slots, ExitMark(t)
      PROVE  TypeOK'
  BY <1>1, <1>2, <1>20 DEF ExitMark
<1>21. ASSUME NEW t \in Slots, ExitSwtch(t)
      PROVE  TypeOK'
  BY <1>1, <1>2, <1>21 DEF ExitSwtch
<1>22. ASSUME NEW t \in Slots, CallCreate(t)
      PROVE  TypeOK'
  BY <1>1, <1>2, <1>22 DEF CallCreate
<1>23. ASSUME NEW t \in Slots, CallThreadExit(t)
      PROVE  TypeOK'
  BY <1>1, <1>2, <1>23 DEF CallThreadExit
<1>24. ASSUME NEW t \in Slots, Fault(t)
      PROVE  TypeOK'
  BY <1>1, <1>2, <1>24 DEF Fault
<1>25. ASSUME NEW t \in Slots, CallExit(t)
      PROVE  TypeOK'
  BY <1>1, <1>2, <1>25 DEF CallExit
<1>26. ASSUME NEW t \in Slots, CallExec(t)
      PROVE  TypeOK'
  BY <1>1, <1>2, <1>26 DEF CallExec
<1>27. ASSUME NEW t \in Slots, NEW x \in Tids, CallJoin(t, x)
      PROVE  TypeOK'
  BY <1>1, <1>27 DEF CallJoin
<1>28. CASE WaitSleep
  BY <1>1, <1>28 DEF WaitSleep
<1>29. CASE WaitReap
  BY <1>1, <1>29 DEF WaitReap
<1>30. ASSUME NEW x \in Tids, Fork(x)
      PROVE  TypeOK'
  BY <1>1, <1>30 DEF Fork
<1>31. CASE UNCHANGED vars
  BY <1>1, <1>31 DEF vars
<1> QED
  BY <1>3, <1>4, <1>5, <1>6, <1>7, <1>8, <1>9, <1>10, <1>11, <1>12, <1>13, <1>14, <1>15, <1>16, <1>17, <1>18, <1>19, <1>20, <1>21, <1>22, <1>23, <1>24, <1>25, <1>26, <1>27, <1>28, <1>29, <1>30, <1>31
  DEF Next, Kernel, User, Parent
-----------------------------------------------------------------------------
(* At the start there is one thread, in user mode.                         *)
LEMMA InitSound == Init => ThreadsInv
<1> SUFFICES ASSUME Init PROVE ThreadsInv
  OBVIOUS
<1> USE ThreadsConstants DEF Init, Slots, NoTid
<1>1. TypeOK
  <2>1. st \in [1..NT -> {"UNUSED", "USED", "ACTIVE", "SLEEPING", "ZOMBIE"}] /\ pc \in [1..NT -> PCs]
    BY DEF PCs
  <2>2. tid \in [1..NT -> Tids \cup {0}] /\ target \in [1..NT -> Tids \cup {0}]
    OBVIOUS
  <2>3. cur \in [1..NT -> 1..(NT + 1)]
    OBVIOUS
  <2> QED BY <2>1, <2>2, <2>3 DEF TypeOK
<1>2. ASSUME NEW t \in Slots
      PROVE  Local(t)
  BY DEF Local, Place, Held, Scanning, Leaving, Reaping, Joining, Last, Reap
<1>3. Creators /\ Process
  BY DEF Creators, Process, Live
<1> QED BY <1>1, <1>2, <1>3 DEF ThreadsInv, Sound

(* As long as the program is defined, every step keeps the invariant.      *)
LEMMA SoundStep ==
  ASSUME ThreadsInv, Sound, [Next]_vars, ~broken'
  PROVE  Sound'
<1> USE DEF Goto, At
<1>1. ASSUME NEW t \in Slots, CreateScan(t)
      PROVE  Sound'
  BY <1>1, CreateScanCalm, InUse, CalmStep DEF CreateScan
<1>2. ASSUME NEW t \in Slots, ThreadExitLock(t)
      PROVE  Sound'
  BY <1>2, ThreadExitLockCalm, InUse, CalmStep DEF ThreadExitLock
<1>3. ASSUME NEW t \in Slots, ThreadExitScan(t)
      PROVE  Sound'
  BY <1>3, ThreadExitScanCalm, InUse, CalmStep DEF ThreadExitScan
<1>4. ASSUME NEW t \in Slots, ThreadExitWake(t)
      PROVE  Sound'
  BY <1>4, ThreadExitWakeCalm, InUse, CalmStep DEF ThreadExitWake
<1>5. ASSUME NEW t \in Slots, ThreadExitSwtch(t)
      PROVE  Sound'
  BY <1>5, ThreadExitSwtchCalm, InUse, CalmStep DEF ThreadExitSwtch
<1>6. ASSUME NEW t \in Slots, JoinLock(t)
      PROVE  Sound'
  BY <1>6, JoinLockCalm, InUse, CalmStep DEF JoinLock
<1>7. ASSUME NEW t \in Slots, JoinScan(t)
      PROVE  Sound'
  BY <1>7, JoinScanCalm, InUse, CalmStep DEF JoinScan
<1>8. ASSUME NEW t \in Slots, JoinFail(t)
      PROVE  Sound'
  BY <1>8, JoinFailCalm, InUse, CalmStep DEF JoinFail
<1>9. ASSUME NEW t \in Slots, JoinEnd(t)
      PROVE  Sound'
  BY <1>9, JoinEndCalm, InUse, CalmStep DEF JoinEnd
<1>10. ASSUME NEW t \in Slots, KillScan(t)
      PROVE  Sound'
  BY <1>10, KillScanCalm, InUse, CalmStep DEF KillScan
<1>11. ASSUME NEW t \in Slots, ReapLock(t)
      PROVE  Sound'
  BY <1>11, ReapLockCalm, InUse, CalmStep DEF ReapLock
<1>12. ASSUME NEW t \in Slots, ReapDead(t)
      PROVE  Sound'
  BY <1>12, ReapDeadCalm, InUse, CalmStep DEF ReapDead
<1>13. ASSUME NEW t \in Slots, ReapScan(t)
      PROVE  Sound'
  BY <1>13, ReapScanCalm, InUse, CalmStep DEF ReapScan
<1>14. ASSUME NEW t \in Slots, ReapEnd(t)
      PROVE  Sound'
  BY <1>14, ReapEndCalm, InUse, CalmStep DEF ReapEnd
<1>15. ASSUME NEW t \in Slots, CallCreate(t)
      PROVE  Sound'
  BY <1>15, CallCreateCalm, InUse, CalmStep DEF CallCreate
<1>16. ASSUME NEW t \in Slots, CallThreadExit(t)
      PROVE  Sound'
  BY <1>16, CallThreadExitCalm, InUse, CalmStep DEF CallThreadExit
<1>17. ASSUME NEW t \in Slots, Fault(t)
      PROVE  Sound'
  BY <1>17, FaultCalm, InUse, CalmStep DEF Fault
<1>18. ASSUME NEW t \in Slots, CallExit(t)
      PROVE  Sound'
  BY <1>18, CallExitCalm, InUse, CalmStep DEF CallExit
<1>19. ASSUME NEW t \in Slots, CallExec(t)
      PROVE  Sound'
  BY <1>19, CallExecCalm, InUse, CalmStep DEF CallExec
<1>20. ASSUME NEW t \in Slots, NEW x \in Tids, CallJoin(t, x)
      PROVE  Sound'
  BY <1>20, CallJoinCalm, InUse, CalmStep DEF CallJoin
<1>21. CASE WaitSleep \/ UNCHANGED vars
  <2>1. UNCHANGED <<st, tid, pc, cur, allDead, target, task, pstate, waitLock, deadLock>>
    BY <1>21 DEF WaitSleep, vars, locals, locks
  <2> QED BY <2>1 DEF Sound, Local, Place, Held, Scanning, Leaving, Reaping, Joining, Last, Creators,
                      Process, Alone, LastOne, Company, Ahead, Missed, Live, Ending
<1> QED
  BY <1>1, <1>2, <1>3, <1>4, <1>5, <1>6, <1>7, <1>8, <1>9, <1>10, <1>11, <1>12, <1>13, <1>14, <1>15, <1>16, <1>17, <1>18, <1>19, <1>20, <1>21,
     CreateSetSound, CreateRunSound, ThreadExitMarkSound, ExitMarkSound, ExitSwtchSound, WaitReapSound,
     ForkSound
  DEF Next, Kernel, User, Parent

(* Nothing moves once the program is undefined.                            *)
LEMMA BrokenStops ==
  ASSUME broken, [Next]_vars
  PROVE  UNCHANGED vars
BY DEF Next, Kernel, User, Parent, CreateScan, CreateSet, CreateRun, ThreadExitLock, ThreadExitScan,
       ThreadExitMark, ThreadExitWake, ThreadExitSwtch, JoinLock, JoinScan, JoinFail, JoinEnd, KillScan,
       ReapLock, ReapDead, ReapScan, ReapEnd, ExitMark, ExitSwtch, CallCreate, CallThreadExit, Fault,
       CallExit, CallExec, CallJoin, WaitSleep, WaitReap, Fork, Goto, At

(* Every step keeps the invariant.                                         *)
LEMMA InvStep == ThreadsInv /\ [Next]_vars => ThreadsInv'
<1> SUFFICES ASSUME ThreadsInv, [Next]_vars PROVE ThreadsInv'
  OBVIOUS
<1>1. TypeOK'
  BY TypeStep
<1>2. CASE ~broken
  BY <1>1, <1>2, SoundStep DEF ThreadsInv
<1>3. CASE broken
  <2>1. UNCHANGED vars
    BY <1>3, BrokenStops
  <2> QED BY <1>1, <1>3, <2>1 DEF vars, ThreadsInv
<1> QED BY <1>2, <1>3

(* The invariant holds in every state.                                     *)
THEOREM ThreadsInvariant == Spec => []ThreadsInv
BY InitSound, InvStep, PTL DEF Spec

(* No wake-up is lost.  A thread asleep in kthread_join has the wakeup of  *)
(* a dead target still before it, and one asleep in exit or in             *)
(* kill_all_threads has a living thread to wait for.                       *)
THEOREM WakeupsKept == Spec => []NoLostWakeup
<1>1. ThreadsInv => NoLostWakeup
  <2> SUFFICES ASSUME ThreadsInv, NEW t \in Slots, st[t] = "SLEEPING", ~broken
               PROVE  \/ /\ pc[t] = "joinLock"
                         /\ \A k \in Slots : tid[k] = target[t] /\ st[k] = "ZOMBIE" => pc[k] = "texitWake"
                      \/ /\ pc[t] = "reapLock"
                         /\ \E k \in Slots \ {t} : Live(k) \/ pc[k] = "texitWake"
    BY DEF NoLostWakeup, ThreadsInv
  <2>1. Local(t)
    BY DEF ThreadsInv, Sound
  <2>2. CASE pc[t] = "joinLock"
    BY <2>1, <2>2 DEF Local, Joining, Missed
  <2>3. CASE pc[t] = "reapLock"
    BY <2>1, <2>3 DEF Local, Reaping, Company, Up, Live
  <2> QED BY <2>1, <2>2, <2>3 DEF Local, Place
<1> QED BY <1>1, ThreadsInvariant, PTL

(* A process that is in use has a thread that lives or is about to end it. *)
THEOREM NeverDeserted == Spec => []SomebodyEnds
<1>1. ThreadsInv => SomebodyEnds
  BY DEF ThreadsInv, Sound, Process, SomebodyEnds
<1> QED BY <1>1, ThreadsInvariant, PTL

(* Only its own step takes a thread out of the loop of exit and            *)
(* kill_all_threads.                                                       *)
LEMMA OutOfReap ==
  ASSUME ThreadsInv, Sound, [Next]_vars, ~broken', NEW t \in Slots, pc[t] = "reapEnd", pc'[t] = "user"
  PROVE  ReapEnd(t)
<1> USE DEF Goto, At
<1>1. ASSUME NEW s \in Slots, Calm(s)
      PROVE  s = t
  BY <1>1 DEF Calm, Frees
<1>2. ASSUME NEW s \in Slots, NEW x \in Tids, CreateSet(s, x) \/ CallJoin(s, x)
      PROVE  FALSE
  BY <1>2 DEF CreateSet, CallJoin, ThreadsInv, TypeOK
<1>3. ASSUME NEW s \in Slots, CreateRun(s)
      PROVE  FALSE
  BY <1>3 DEF CreateRun, Sound, Creators, Local, Place, ThreadsInv, TypeOK
<1>4. ASSUME NEW s \in Slots, ThreadExitMark(s) \/ ExitMark(s) \/ ExitSwtch(s)
      PROVE  FALSE
  BY <1>4 DEF ThreadExitMark, ExitMark, ExitSwtch, ThreadsInv, TypeOK
<1>5. ASSUME NEW x \in Tids, WaitSleep \/ WaitReap \/ Fork(x) \/ UNCHANGED vars
      PROVE  FALSE
  BY <1>5 DEF WaitSleep, WaitReap, Fork, vars, Sound, Process, Local, Place, ThreadsInv, TypeOK
<1>6. ASSUME NEW s \in Slots, CreateScan(s)
      PROVE  FALSE
  BY <1>1, <1>6, CreateScanCalm DEF CreateScan
<1>7. ASSUME NEW s \in Slots, ThreadExitLock(s)
      PROVE  FALSE
  BY <1>1, <1>7, ThreadExitLockCalm DEF ThreadExitLock
<1>8. ASSUME NEW s \in Slots, ThreadExitScan(s)
      PROVE  FALSE
  BY <1>1, <1>8, ThreadExitScanCalm DEF ThreadExitScan
<1>9. ASSUME NEW s \in Slots, ThreadExitWake(s)
      PROVE  FALSE
  BY <1>1, <1>9, ThreadExitWakeCalm DEF ThreadExitWake
<1>10. ASSUME NEW s \in Slots, ThreadExitSwtch(s)
      PROVE  FALSE
  BY <1>1, <1>10, ThreadExitSwtchCalm DEF ThreadExitSwtch
<1>11. ASSUME NEW s \in Slots, JoinLock(s)
      PROVE  FALSE
  BY <1>1, <1>11, JoinLockCalm DEF JoinLock
<1>12. ASSUME NEW s \in Slots, JoinScan(s)
      PROVE  FALSE
  BY <1>1, <1>12, JoinScanCalm DEF JoinScan
<1>13. ASSUME NEW s \in Slots, JoinFail(s)
      PROVE  FALSE
  BY <1>1, <1>13, JoinFailCalm DEF JoinFail
<1>14. ASSUME NEW s \in Slots, JoinEnd(s)
      PROVE  FALSE
  BY <1>1, <1>14, JoinEndCalm DEF JoinEnd
<1>15. ASSUME NEW s \in Slots, KillScan(s)
      PROVE  FALSE
  BY <1>1, <1>15, KillScanCalm DEF KillScan
<1>16. ASSUME NEW s \in Slots, ReapLock(s)
      PROVE  FALSE
  BY <1>1, <1>16, ReapLockCalm DEF ReapLock
<1>17. ASSUME NEW s \in Slots, ReapDead(s)
      PROVE  FALSE
  BY <1>1, <1>17, ReapDeadCalm DEF ReapDead
<1>18. ASSUME NEW s \in Slots, ReapScan(s)
      PROVE  FALSE
  BY <1>1, <1>18, ReapScanCalm DEF ReapScan
<1>19. ASSUME NEW s \in Slots, CallCreate(s)
      PROVE  FALSE
  BY <1>1, <1>19, CallCreateCalm DEF CallCreate
<1>20. ASSUME NEW s \in Slots, CallThreadExit(s)
      PROVE  FALSE
  BY <1>1, <1>20, CallThreadExitCalm DEF CallThreadExit
<1>21. ASSUME NEW s \in Slots, Fault(s)
      PROVE  FALSE
  BY <1>1, <1>21, FaultCalm DEF Fault
<1>22. ASSUME NEW s \in Slots, CallExit(s)
      PROVE  FALSE
  BY <1>1, <1>22, CallExitCalm DEF CallExit
<1>23. ASSUME NEW s \in Slots, CallExec(s)
      PROVE  FALSE
  BY <1>1, <1>23, CallExecCalm DEF CallExec
<1>24. ASSUME NEW s \in Slots, ReapEnd(s)
      PROVE  s = t
  BY <1>1, <1>24, ReapEndCalm
<1> QED
  BY <1>2, <1>3, <1>4, <1>5, <1>6, <1>7, <1>8, <1>9, <1>10, <1>11, <1>12, <1>13, <1>14, <1>15, <1>16, <1>17, <1>18, <1>19, <1>20, <1>21, <1>22, <1>23, <1>24, ThreadsConstants
  DEF Next, Kernel, User, Parent

(* Whoever ends the process, and exec when it goes on, is the only thread  *)
(* left, and a dead process has no living one.                             *)
THEOREM LastOneEnds == Spec => EndsAlone
<1>1. ASSUME ThreadsInv, ThreadsInv', [Next]_vars, ~broken'
      PROVE  /\ \A t \in Slots : pc'[t] \in {"exitMark", "exitSwtch"}
                                 \/ (pc[t] = "reapEnd" /\ pc'[t] = "user") =>
                  \A k \in Slots \ {t} : st'[k] = "UNUSED"
             /\ pstate' = "ZOMBIE" => \A k \in Slots : ~Live(k)'
  <2>1. Sound'
    BY <1>1 DEF ThreadsInv
  <2>2. ASSUME NEW t \in Slots, pc'[t] \in {"exitMark", "exitSwtch"}
        PROVE  \A k \in Slots \ {t} : st'[k] = "UNUSED"
    BY <2>1, <2>2 DEF Sound, Local, Last, LastOne
  <2>3. ASSUME NEW t \in Slots, pc[t] = "reapEnd", pc'[t] = "user"
        PROVE  \A k \in Slots \ {t} : st'[k] = "UNUSED"
    <3>1. ~broken /\ ReapEnd(t)
      BY <1>1, <2>3, OutOfReap, BrokenStops DEF ThreadsInv, vars
    <3>2. st' = st /\ LastOne(t)
      BY <1>1, <2>3, <3>1 DEF ReapEnd, Goto, ThreadsInv, TypeOK, Sound, Local, Reaping
    <3> QED BY <3>2 DEF LastOne
  <2>4. pstate' = "ZOMBIE" => \A k \in Slots : ~Live(k)'
    BY <2>1 DEF Sound, Process
  <2> QED BY <2>2, <2>3, <2>4
<1> QED BY <1>1, ThreadsInvariant, PTL DEF Spec, EndsAlone
=============================================================================
