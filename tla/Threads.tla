------------------------------- MODULE Threads -------------------------------
(***************************************************************************)
(* The life of the threads of one process in ass2 (kernel/proc.c):         *)
(* kthread_create, kthread_exit, kthread_join, exit, the kill_all_threads  *)
(* that exec starts with, and the parent's fork and wait.                  *)
(*                                                                         *)
(* wait_lock and all_dead_lock are modelled; a step is what the code does  *)
(* between two acquires or releases.  Work on one thread's record under    *)
(* that thread's t->lock is part of one step; sleep and wakeup are steps   *)
(* too (module Bsem has their insides): every sleep here gives up          *)
(* wait_lock and every wakeup is called with wait_lock held.  A thread     *)
(* that is neither asleep nor dead is ACTIVE, dispatched or not: the       *)
(* kernel of ass2 is never preempted (kerneltrap yields only for           *)
(* p->state = RUNNING, which no process is ever in), and what a thread     *)
(* waits for a CPU is part of the time between two of its steps.           *)
(*                                                                         *)
(* Freeing the kernel stack of a thread that still runs on it, and setting *)
(* up a slot that is no longer unused, leave the program undefined: broken *)
(* records it and nothing is said about what follows.                      *)
(***************************************************************************)
EXTENDS Naturals, FiniteSets

CONSTANTS NT,   (* NTHREAD, the slots of the thread table          *)
          Tids  (* thread ids: one is used again only when nothing *)
                (* refers to it any more                           *)

ASSUME ThreadsConstants == NT \in Nat \ {0} /\ 1 \in Tids /\ Tids \subseteq Nat \ {0}

Slots == 1..NT
NoTid == 0

VARIABLES
  st,        \* t->state, with ACTIVE for RUNNABLE and RUNNING
  tid,       \* t->tid
  tkilled,   \* t->killed
  pc,        \* where the thread is; gone: swtch has saved its context
  cur,       \* the loop variable of the scan the thread is in, else 1
  allDead,   \* the local variable of that name
  target,    \* whom kthread_join waits for
  task,      \* why the thread gets rid of the others: exit or exec
  pstate,    \* p->state
  pkilled,   \* p->killed
  parent,    \* the parent: wait (it has not scanned yet) or asleep
  waitLock,  \* who holds wait_lock, 0 if nobody
  deadLock,  \* who holds all_dead_lock, 0 if nobody
  broken     \* the program is undefined from here

locals   == <<cur, allDead, target, task>>
procVars == <<pstate, pkilled, parent>>
locks    == <<waitLock, deadLock>>
vars == <<st, tid, tkilled, pc, cur, allDead, target, task, pstate, pkilled,
          parent, waitLock, deadLock, broken>>

PCs == {"none", "user", "createScan", "createSet", "createRun",
        "texitLock", "texitScan", "texitMark", "texitWake", "texitSwtch", "gone",
        "joinLock", "joinScan", "joinEnd",
        "killScan", "reapLock", "reapDead", "reapScan", "reapEnd",
        "exitMark", "exitSwtch"}

Live(k) == st[k] \notin {"UNUSED", "ZOMBIE"}
Doomed(t) == tkilled[t] \/ pkilled

(* t is at label "at" and not asleep, and the program is still defined. *)
At(t, at) == pc[t] = at /\ st[t] # "SLEEPING" /\ ~broken
Goto(t, from, to) == At(t, from) /\ pc' = [pc EXCEPT ![t] = to]

(* A process as allocproc and fork leave it: one thread, in the first slot. *)
Init ==
  /\ st = [k \in Slots |-> IF k = 1 THEN "ACTIVE" ELSE "UNUSED"]
  /\ tid = [k \in Slots |-> IF k = 1 THEN 1 ELSE NoTid]
  /\ tkilled = [k \in Slots |-> FALSE]
  /\ pc = [k \in Slots |-> IF k = 1 THEN "user" ELSE "none"]
  /\ cur = [k \in Slots |-> 1]
  /\ allDead = [k \in Slots |-> FALSE]
  /\ target = [k \in Slots |-> NoTid]
  /\ task = [k \in Slots |-> "none"]
  /\ pstate = "USED"
  /\ pkilled = FALSE
  /\ parent = "wait"
  /\ waitLock = 0
  /\ deadLock = 0
  /\ broken = FALSE

(* alloctid counts up.  Nobody can tell an id that nothing refers to any   *)
(* more from one that was never handed out: the least of them is the next. *)
Unknown(x) == \A k \in Slots : tid[k] # x /\ target[k] # x
Fresh(x) == /\ x \in Tids /\ Unknown(x)
            /\ \A y \in Tids : Unknown(y) => x <= y

(* freethread on the threads of S.  One that has not reached swtch still   *)
(* runs on the stack that is freed.                                        *)
FreeThreads(S) ==
  /\ tid' = [k \in Slots |-> IF k \in S THEN NoTid ELSE tid[k]]
  /\ broken' = (\E k \in S : pc[k] # "gone")
-----------------------------------------------------------------------------
(* kthread_create and allocthread: no lock is held. *)
CallCreate(t) ==
  /\ Goto(t, "user", "createScan")
  /\ ~Doomed(t)
  /\ UNCHANGED <<st, tid, tkilled, locals, procVars, locks, broken>>

CreateScan(t) ==
  LET k == cur[t] IN
  /\ \/ /\ k \in Slots /\ st[k] = "UNUSED"
        /\ Goto(t, "createScan", "createSet")
        /\ UNCHANGED cur
     \/ /\ k \in Slots /\ st[k] # "UNUSED"
        /\ Goto(t, "createScan", "createScan")
        /\ cur' = [cur EXCEPT ![t] = k + 1]
     \/ /\ k \notin Slots
        /\ Goto(t, "createScan", "user")
        /\ cur' = [cur EXCEPT ![t] = 1]
  /\ UNCHANGED <<st, tid, tkilled, allDead, target, task, procVars, locks, broken>>

(* The state is not looked at again: another creator may have the slot. *)
CreateSet(t, x) ==
  LET k == cur[t] IN
  /\ Goto(t, "createSet", "createRun")
  /\ Fresh(x)
  /\ tid' = [tid EXCEPT ![k] = x]
  /\ st' = [st EXCEPT ![k] = "USED"]
  /\ broken' = (st[k] # "UNUSED")
  /\ UNCHANGED <<tkilled, locals, procVars, locks>>

(* The new thread can be dispatched, or there was no memory for its stack. *)
CreateRun(t) ==
  LET k == cur[t] IN
  /\ At(t, "createRun")
  /\ \/ /\ st' = [st EXCEPT ![k] = "ACTIVE"]
        /\ pc' = [pc EXCEPT ![t] = "user", ![k] = "user"]
        /\ UNCHANGED <<tid, tkilled>>
     \/ /\ st' = [st EXCEPT ![k] = "UNUSED"]
        /\ pc' = [pc EXCEPT ![t] = "user"]
        /\ tid' = [tid EXCEPT ![k] = NoTid]
        /\ tkilled' = [tkilled EXCEPT ![k] = FALSE]
  /\ cur' = [cur EXCEPT ![t] = 1]
  /\ UNCHANGED <<allDead, target, task, procVars, locks, broken>>
-----------------------------------------------------------------------------
(* kthread_exit: by the thread itself, or by usertrap for a doomed one. *)
CallThreadExit(t) ==
  /\ Goto(t, "user", "texitLock")
  /\ UNCHANGED <<st, tid, tkilled, locals, procVars, locks, broken>>

(* A fatal signal or a fault in user mode kills the process, thread by     *)
(* thread: each finds out when it next enters the kernel.                  *)
Fault(t) ==
  /\ Goto(t, "user", "texitLock")
  /\ pkilled' = TRUE
  /\ UNCHANGED <<st, tid, tkilled, locals, pstate, parent, locks, broken>>

ThreadExitLock(t) ==
  /\ Goto(t, "texitLock", "texitScan")
  /\ deadLock = 0
  /\ deadLock' = t
  /\ allDead' = [allDead EXCEPT ![t] = TRUE]
  /\ UNCHANGED <<st, tid, tkilled, cur, target, task, procVars, waitLock, broken>>

ThreadExitScan(t) ==
  LET k == cur[t] IN
  /\ k \in Slots
  /\ IF k # t /\ Live(k)
     THEN /\ Goto(t, "texitScan", "texitMark")
          /\ allDead' = [allDead EXCEPT ![t] = FALSE]
          /\ cur' = [cur EXCEPT ![t] = 1]
     ELSE /\ Goto(t, "texitScan", IF k = NT THEN "texitMark" ELSE "texitScan")
          /\ cur' = [cur EXCEPT ![t] = IF k = NT THEN 1 ELSE k + 1]
          /\ UNCHANGED allDead
  /\ UNCHANGED <<st, tid, tkilled, target, task, procVars, locks, broken>>

\* Variant: all_dead_lock is released before the thread is dead.
ThreadExitMarkLate(t) ==
  /\ Goto(t, "texitMark", IF deadLock = t THEN "texitMark" ELSE "texitWake")
  /\ st' = [st EXCEPT ![t] = IF deadLock = t THEN @ ELSE "ZOMBIE"]
  /\ deadLock' = IF deadLock = t THEN 0 ELSE deadLock
  /\ UNCHANGED <<tid, tkilled, locals, procVars, waitLock, broken>>

(* Dead, under its own lock, and all_dead_lock released. *)
ThreadExitMark(t) ==
  /\ Goto(t, "texitMark", "texitWake")
  /\ st' = [st EXCEPT ![t] = "ZOMBIE"]
  /\ deadLock' = 0
  /\ UNCHANGED <<tid, tkilled, locals, procVars, waitLock, broken>>

\* Variant: without wakeup(p).
ThreadExitWakeOne(t) ==
  /\ Goto(t, "texitWake", IF allDead[t] THEN "reapLock" ELSE "texitSwtch")
  /\ waitLock = 0
  /\ st' = [k \in Slots |-> IF st[k] = "SLEEPING" /\ pc[k] = "reapLock" THEN "ACTIVE" ELSE st[k]]
  /\ pkilled' = (pkilled \/ allDead[t])
  /\ task' = [task EXCEPT ![t] = IF allDead[t] THEN "exit" ELSE "none"]
  /\ allDead' = [allDead EXCEPT ![t] = FALSE]
  /\ UNCHANGED <<tid, tkilled, cur, target, pstate, parent, locks, broken>>

(* wakeup(p) and wakeup(&all_dead_lock), under wait_lock; the last thread  *)
(* goes on to exit, which sets p->killed before it takes a lock.           *)
ThreadExitWake(t) ==
  /\ Goto(t, "texitWake", IF allDead[t] THEN "reapLock" ELSE "texitSwtch")
  /\ waitLock = 0
  /\ st' = [k \in Slots |-> IF st[k] = "SLEEPING" THEN "ACTIVE" ELSE st[k]]
  /\ pkilled' = (pkilled \/ allDead[t])
  /\ task' = [task EXCEPT ![t] = IF allDead[t] THEN "exit" ELSE "none"]
  /\ allDead' = [allDead EXCEPT ![t] = FALSE]
  /\ UNCHANGED <<tid, tkilled, cur, target, pstate, parent, locks, broken>>

(* Takes its own lock and leaves the CPU for good. *)
ThreadExitSwtch(t) ==
  /\ Goto(t, "texitSwtch", "gone")
  /\ UNCHANGED <<st, tid, tkilled, locals, procVars, locks, broken>>
-----------------------------------------------------------------------------
(* kthread_join on the id of a thread that exists, or existed a moment ago. *)
CallJoin(t, x) ==
  /\ Goto(t, "user", "joinLock")
  /\ ~Doomed(t)
  /\ x # tid[t] /\ \E k \in Slots : tid[k] = x
  /\ target' = [target EXCEPT ![t] = x]
  /\ UNCHANGED <<st, tid, tkilled, cur, allDead, task, procVars, locks, broken>>

JoinLock(t) ==
  /\ Goto(t, "joinLock", "joinScan")
  /\ waitLock = 0
  /\ waitLock' = t
  /\ UNCHANGED <<st, tid, tkilled, locals, procVars, deadLock, broken>>

(* The slot has the id: if the thread is dead it is freed, and join returns. *)
JoinScan(t) ==
  LET k == cur[t]
      found == tid[k] = target[t] /\ st[k] = "ZOMBIE" IN
  /\ At(t, "joinScan")
  /\ k \in Slots
  /\ FreeThreads(IF found THEN {k} ELSE {})
  /\ st' = IF found THEN [st EXCEPT ![k] = "UNUSED"] ELSE st
  /\ tkilled' = IF found THEN [tkilled EXCEPT ![k] = FALSE] ELSE tkilled
  /\ pc' = IF found THEN [pc EXCEPT ![t] = "user", ![k] = "none"]
           ELSE [pc EXCEPT ![t] = IF k = NT THEN "joinEnd" ELSE @]
  /\ cur' = [cur EXCEPT ![t] = IF found \/ k = NT THEN 1 ELSE k + 1]
  /\ waitLock' = IF found THEN 0 ELSE waitLock
  /\ target' = IF found THEN [target EXCEPT ![t] = NoTid] ELSE target
  /\ UNCHANGED <<allDead, task, procVars, deadLock>>

(* It is dead, but its status cannot be copied out: join fails. *)
JoinFail(t) ==
  LET k == cur[t] IN
  /\ Goto(t, "joinScan", "user")
  /\ k \in Slots /\ tid[k] = target[t] /\ st[k] = "ZOMBIE"
  /\ cur' = [cur EXCEPT ![t] = 1]
  /\ waitLock' = 0
  /\ target' = [target EXCEPT ![t] = NoTid]
  /\ UNCHANGED <<st, tid, tkilled, allDead, task, procVars, deadLock, broken>>

\* Variant: lets go of wait_lock before it goes to sleep.
JoinEndDrops(t) ==
  /\ UNCHANGED <<tid, tkilled, cur, allDead, target, task, procVars, deadLock, broken>>
  /\ IF waitLock = t
     THEN waitLock' = 0 /\ Goto(t, "joinEnd", "joinEnd") /\ UNCHANGED st
     ELSE /\ Goto(t, "joinEnd", "joinLock")
          /\ st' = [st EXCEPT ![t] = "SLEEPING"]
          /\ UNCHANGED waitLock

(* Not dead yet: give up if killed, else sleep(p, &wait_lock). *)
JoinEnd(t) ==
  /\ IF Doomed(t)
     THEN /\ Goto(t, "joinEnd", "user")
          /\ target' = [target EXCEPT ![t] = NoTid]
          /\ UNCHANGED st
     ELSE /\ Goto(t, "joinEnd", "joinLock")
          /\ st' = [st EXCEPT ![t] = "SLEEPING"]
          /\ UNCHANGED target
  /\ waitLock' = 0
  /\ UNCHANGED <<tid, tkilled, cur, allDead, task, procVars, deadLock, broken>>
-----------------------------------------------------------------------------
(* exit, and kill_all_threads, with which exec starts. *)
CallExit(t) ==
  /\ Goto(t, "user", "reapLock")
  /\ ~Doomed(t)
  /\ pkilled' = TRUE
  /\ task' = [task EXCEPT ![t] = "exit"]
  /\ UNCHANGED <<st, tid, tkilled, cur, allDead, target, pstate, parent, locks, broken>>

CallExec(t) ==
  /\ Goto(t, "user", "killScan")
  /\ ~Doomed(t)
  /\ task' = [task EXCEPT ![t] = "exec"]
  /\ UNCHANGED <<st, tid, tkilled, cur, allDead, target, procVars, locks, broken>>

(* kill_all_threads' first loop, without wait_lock. *)
KillScan(t) ==
  LET k == cur[t]
      frees == IF k # t /\ st[k] = "ZOMBIE" THEN {k} ELSE {} IN
  /\ At(t, "killScan")
  /\ k \in Slots
  /\ FreeThreads(frees)
  /\ tkilled' = [tkilled EXCEPT ![k] = IF k = t THEN @ ELSE Live(k)]
  /\ st' = [st EXCEPT ![k] = IF k \in frees THEN "UNUSED"
                             ELSE IF @ = "SLEEPING" THEN "ACTIVE" ELSE @]
  /\ pc' = [pc EXCEPT ![t] = IF k = NT THEN "reapLock" ELSE @,
                      ![k] = IF k \in frees THEN "none"
                             ELSE IF k = t /\ k = NT THEN "reapLock" ELSE @]
  /\ cur' = [cur EXCEPT ![t] = IF k = NT THEN 1 ELSE k + 1]
  /\ UNCHANGED <<allDead, target, task, procVars, locks>>

(* The loop both end in: wait_lock, all_dead_lock, one turn per thread ... *)
ReapLock(t) ==
  /\ Goto(t, "reapLock", "reapDead")
  /\ waitLock = 0
  /\ waitLock' = t
  /\ UNCHANGED <<st, tid, tkilled, locals, procVars, deadLock, broken>>

ReapDead(t) ==
  /\ Goto(t, "reapDead", "reapScan")
  /\ deadLock = 0
  /\ deadLock' = t
  /\ allDead' = [allDead EXCEPT ![t] = TRUE]
  /\ UNCHANGED <<st, tid, tkilled, cur, target, task, procVars, waitLock, broken>>

\* Variant: takes a sleeping thread for a dead one.
ReapScanSleepers(t) ==
  LET k == cur[t]
      frees == IF k # t /\ st[k] = "ZOMBIE" THEN {k} ELSE {}
      wakes == k # t /\ st[k] = "SLEEPING" /\ task[t] = "exec" IN
  /\ At(t, "reapScan")
  /\ k \in Slots
  /\ FreeThreads(frees)
  /\ tkilled' = [tkilled EXCEPT ![k] = @ /\ k \notin frees]
  /\ st' = [st EXCEPT ![k] = IF k \in frees THEN "UNUSED"
                             ELSE IF wakes THEN "ACTIVE" ELSE @]
  /\ pc' = [i \in Slots |-> IF i \in frees THEN "none"
                            ELSE IF i = t /\ k = NT THEN "reapEnd" ELSE pc[i]]
  /\ allDead' = [allDead EXCEPT ![t] = @ /\ (k = t \/ ~Live(k) \/ st[k] = "SLEEPING")]
  /\ cur' = [cur EXCEPT ![t] = IF k = NT THEN 1 ELSE k + 1]
  /\ UNCHANGED <<target, task, procVars, locks>>

(* ... that frees the dead; kill_all_threads also wakes the sleepers ... *)
ReapScan(t) ==
  LET k == cur[t]
      frees == IF k # t /\ st[k] = "ZOMBIE" THEN {k} ELSE {}
      wakes == k # t /\ st[k] = "SLEEPING" /\ task[t] = "exec" IN
  /\ At(t, "reapScan")
  /\ k \in Slots
  /\ FreeThreads(frees)
  /\ tkilled' = [tkilled EXCEPT ![k] = @ /\ k \notin frees]
  /\ st' = [st EXCEPT ![k] = IF k \in frees THEN "UNUSED"
                             ELSE IF wakes THEN "ACTIVE" ELSE @]
  /\ pc' = [i \in Slots |-> IF i \in frees THEN "none"
                            ELSE IF i = t /\ k = NT THEN "reapEnd" ELSE pc[i]]
  /\ allDead' = [allDead EXCEPT ![t] = @ /\ (k = t \/ ~Live(k))]
  /\ cur' = [cur EXCEPT ![t] = IF k = NT THEN 1 ELSE k + 1]
  /\ UNCHANGED <<target, task, procVars, locks>>

(* ... and sleeps until a thread dies unless all are dead. *)
ReapEnd(t) ==
  /\ IF allDead[t]
     THEN /\ Goto(t, "reapEnd", IF task[t] = "exit" THEN "exitMark" ELSE "user")
          /\ task' = [task EXCEPT ![t] = "none"]
          /\ UNCHANGED st
     ELSE /\ Goto(t, "reapEnd", "reapLock")
          /\ st' = [st EXCEPT ![t] = "SLEEPING"]
          /\ UNCHANGED task
  /\ allDead' = [allDead EXCEPT ![t] = FALSE]
  /\ deadLock' = 0
  /\ waitLock' = 0
  /\ UNCHANGED <<tid, tkilled, cur, target, procVars, broken>>

\* Variant: the parent is not woken.
ExitMarkSilent(t) ==
  /\ Goto(t, "exitMark", "exitSwtch")
  /\ waitLock = 0
  /\ st' = [st EXCEPT ![t] = "ZOMBIE"]
  /\ pstate' = "ZOMBIE"
  /\ UNCHANGED <<tid, tkilled, locals, pkilled, parent, locks, broken>>

(* exit closes the files and gives up the directory; then thread and       *)
(* process are dead and the parent is woken, under wait_lock.              *)
ExitMark(t) ==
  /\ Goto(t, "exitMark", "exitSwtch")
  /\ waitLock = 0
  /\ st' = [st EXCEPT ![t] = "ZOMBIE"]
  /\ pstate' = "ZOMBIE"
  /\ parent' = IF parent = "asleep" THEN "wait" ELSE parent
  /\ UNCHANGED <<tid, tkilled, locals, pkilled, locks, broken>>

ExitSwtch(t) ==
  /\ Goto(t, "exitSwtch", "gone")
  /\ UNCHANGED <<st, tid, tkilled, locals, procVars, locks, broken>>
-----------------------------------------------------------------------------
(* The parent: wait, with its scan under wait_lock and the child's p->lock *)
(* (not the lock of the child's thread), and fork when the child is gone.  *)
WaitSleep ==
  /\ ~broken
  /\ parent = "wait"
  /\ waitLock = 0
  /\ pstate = "USED"
  /\ parent' = "asleep"
  /\ UNCHANGED <<st, tid, tkilled, pc, locals, pstate, pkilled, locks, broken>>

(* freeproc: every thread with it. *)
WaitReap ==
  /\ ~broken
  /\ parent = "wait"
  /\ waitLock = 0
  /\ pstate = "ZOMBIE"
  /\ pstate' = "UNUSED"
  /\ pkilled' = FALSE
  /\ FreeThreads({k \in Slots : st[k] # "UNUSED"})
  /\ st' = [k \in Slots |-> "UNUSED"]
  /\ tkilled' = [k \in Slots |-> FALSE]
  /\ pc' = [k \in Slots |-> "none"]
  /\ UNCHANGED <<locals, parent, locks>>

Fork(x) ==
  /\ ~broken
  /\ parent = "wait"
  /\ pstate = "UNUSED"
  /\ Fresh(x)
  /\ pstate' = "USED"
  /\ st' = [st EXCEPT ![1] = "ACTIVE"]
  /\ tid' = [tid EXCEPT ![1] = x]
  /\ pc' = [pc EXCEPT ![1] = "user"]
  /\ UNCHANGED <<tkilled, locals, pkilled, parent, locks, broken>>
-----------------------------------------------------------------------------
Kernel(t) ==
  \/ CreateScan(t) \/ (\E x \in Tids : CreateSet(t, x)) \/ CreateRun(t)
  \/ ThreadExitLock(t) \/ ThreadExitScan(t) \/ ThreadExitMark(t)
  \/ ThreadExitWake(t) \/ ThreadExitSwtch(t)
  \/ JoinLock(t) \/ JoinScan(t) \/ JoinFail(t) \/ JoinEnd(t)
  \/ KillScan(t) \/ ReapLock(t) \/ ReapDead(t) \/ ReapScan(t) \/ ReapEnd(t)
  \/ ExitMark(t) \/ ExitSwtch(t)

User(t) ==
  \/ CallCreate(t) \/ CallThreadExit(t) \/ Fault(t) \/ CallExit(t) \/ CallExec(t)
  \/ \E x \in Tids : CallJoin(t, x)

Parent == WaitSleep \/ WaitReap \/ \E x \in Tids : Fork(x)

Next == (\E t \in Slots : Kernel(t) \/ User(t)) \/ Parent

Spec == Init /\ [][Next]_vars
-----------------------------------------------------------------------------
TypeOK ==
  /\ st \in [Slots -> {"UNUSED", "USED", "ACTIVE", "SLEEPING", "ZOMBIE"}]
  /\ tid \in [Slots -> Tids \cup {NoTid}]
  /\ tkilled \in [Slots -> BOOLEAN]
  /\ pc \in [Slots -> PCs]
  /\ cur \in [Slots -> 1..(NT + 1)]
  /\ allDead \in [Slots -> BOOLEAN]
  /\ target \in [Slots -> Tids \cup {NoTid}]
  /\ task \in [Slots -> {"none", "exit", "exec"}]
  /\ pstate \in {"UNUSED", "USED", "ZOMBIE"}
  /\ pkilled \in BOOLEAN
  /\ parent \in {"wait", "asleep"}
  /\ waitLock \in Slots \cup {0}
  /\ deadLock \in Slots \cup {0}
  /\ broken \in BOOLEAN

(* No wake-up is lost: a thread asleep in kthread_join still has the       *)
(* wakeup of a dead target before it, and one asleep in exit or            *)
(* kill_all_threads a living thread or the wakeup of one that just died.   *)
NoLostWakeup ==
  TypeOK /\ \A t \in Slots : st[t] = "SLEEPING" /\ ~broken =>
    \/ /\ pc[t] = "joinLock"
       /\ \A k \in Slots : tid[k] = target[t] /\ st[k] = "ZOMBIE" => pc[k] = "texitWake"
    \/ /\ pc[t] = "reapLock"
       /\ \E k \in Slots \ {t} : Live(k) \/ pc[k] = "texitWake"

(* A process is never left with dead threads only: as long as it is not a  *)
(* zombie itself, some thread lives or is the one that ends the process.   *)
(* Two threads in kthread_exit at once must not each see the other alive.  *)
Ending(k) == \/ pc[k] = "texitWake" /\ allDead[k]
             \/ pc[k] \in {"reapLock", "reapDead", "reapScan", "reapEnd"} /\ task[k] = "exit"
             \/ pc[k] = "exitMark"
SomebodyEnds ==
  pstate = "USED" /\ ~broken => \E k \in Slots : Live(k) \/ Ending(k)

(* Whoever closes the files and ends the process is the only thread left:  *)
(* nobody runs with the file table gone.  A zombie process has no living   *)
(* thread.  And exec goes on to replace the program's memory only when the *)
(* thread that called it is the only one left.                             *)
EndsAlone ==
  [][~broken' =>
       /\ \A t \in Slots : pc'[t] \in {"exitMark", "exitSwtch"}
                          \/ (pc[t] = "reapEnd" /\ pc'[t] = "user") =>
            \A k \in Slots \ {t} : st'[k] = "UNUSED"
       /\ pstate' = "ZOMBIE" => \A k \in Slots : ~Live(k)']_vars

(* The comments in wait and kthread_join: "make sure the child isn't still *)
(* in exit() or swtch()" when its stack is freed.                          *)
NotFreedWhileRunning == ~broken

(* A thread in the kernel goes on; strong fairness where it waits for      *)
(* wait_lock or all_dead_lock, spinlocks that are free again and again.  A *)
(* doomed thread in user mode enters the kernel: the timer interrupts it.  *)
(* The parent is in wait.  No thread is made to call anything.             *)
Fairness ==
  /\ \A t \in Slots : SF_vars(Kernel(t))
  /\ \A t \in Slots : WF_vars(Doomed(t) /\ CallThreadExit(t))
  /\ SF_vars(WaitSleep \/ WaitReap)

FairSpec == Spec /\ Fairness

(* kthread_join returns once the thread it waits for is dead. *)
JoinDue(t, k) == target[t] # NoTid /\ target[t] = tid[k] /\ st[k] = "ZOMBIE"
JoinReturns == \A t, k \in Slots : JoinDue(t, k) ~> ~JoinDue(t, k) \/ broken

(* When the last thread is dead, the process ends and its parent, if it    *)
(* waits, gets it.                                                         *)
ProcessEnds ==
  pstate = "USED" /\ (\A k \in Slots : ~Live(k)) ~> pstate = "UNUSED" \/ broken

(* exit "Should kill the process and all of its threads" (the assignment,  *)
(* section 3.1), and so should exec's "kill all thread and wait for them   *)
(* to die": a thread that is the only one in exit or exec gets through it. *)
OthersDie ==
  \A t \in Slots :
    task[t] # "none" ~> \/ task[t] = "none"
                       \/ broken
                       \/ \E k \in Slots \ {t} : task[k] # "none"
=============================================================================
