------------------------------- MODULE Signals -------------------------------
(***************************************************************************)
(* Signals in ass2: kill, sigprocmask, sigaction, sigret, what exec does   *)
(* to handlers, and handle_signal as usertrapret (kernel/trap.c) calls it, *)
(* for one process.                                                        *)
(*                                                                         *)
(* Only kill takes p->lock; everything else reads and writes the words of  *)
(* struct proc without one.  A step is therefore one access to such a      *)
(* word, or what a thread does between two of them.  The kernel of ass2 is *)
(* not preempted: a thread that is in the kernel keeps its CPU until it    *)
(* returns to user mode, yields or sleeps, so that what interleaves        *)
(* depends on the number of CPUs.  The Makefile starts one unless it is    *)
(* told otherwise; the kernel is written for eight.                        *)
(*                                                                         *)
(* A process that is killed ends its threads here; how it ends as a whole  *)
(* is module Threads.                                                      *)
(***************************************************************************)
EXTENDS Naturals, FiniteSets

CONSTANTS Threads,   (* threads of the process                            *)
          Killers,   (* whoever calls kill with the process's pid         *)
          Sigs,      (* the signals that are sent                         *)
          Masks,     (* arguments of sigprocmask and masks of handlers    *)
          Actions,   (* sa_handler as sigaction gets it                   *)
          NCPU       (* CPUs                                              *)

SIGKILL == 9
SIGSTOP == 17
SIGCONT == 19

(* Kernel actions and one user handler per signal: which code it is does   *)
(* not matter, only for which signal it runs.                              *)
AllActions == {"SIG_DFL", "SIG_IGN", "SIGKILL", "SIGSTOP", "SIGCONT", "user"}

ASSUME SignalsConstants ==
  /\ Sigs \subseteq 0..31 /\ Sigs # {}
  /\ Masks \subseteq SUBSET (0..31)
  /\ Actions \subseteq AllActions
  /\ NCPU \in Nat \ {0}
  /\ IsFiniteSet(Threads) /\ IsFiniteSet(Killers)
  /\ Threads # {} /\ Threads \cap Killers = {}

Main == 32           \* user code outside every handler
End == 32            \* behind the last signal

VARIABLES
  pending,   \* p->pending_signals
  mask,      \* p->signal_mask
  handler,   \* p->signal_handlers
  hmask,     \* p->signal_handlers_mask
  frozen,    \* p->frozen
  killed,    \* p->killed
  pc,        \* where a thread or a killer is
  sig,       \* loop variable of handle_signal; argument of kill, sigaction
  seen,      \* what was read of pending_signals, or of signal_mask
  frame,     \* trapframe: what the thread goes on with in user mode
  backup     \* user_trapframe_backup

procVars == <<mask, handler, hmask, frozen, killed>>
frames   == <<frame, backup>>
vars == <<pending, mask, handler, hmask, frozen, killed, pc, sig, seen, frame, backup>>

Actors == Threads \cup Killers

OffCpu == {"user", "yielded", "stopped", "asleep", "gone"}
PCs == OffCpu \cup {"syscall", "sigaction", "leave", "tick", "ret",
                    "test", "unmasked", "clear", "write", "act", "save", "setup",
                    "restore", "end", "again"}

TypeOK ==
  /\ pending \subseteq Sigs
  /\ mask \subseteq 0..31
  /\ handler \in [Sigs -> AllActions]
  /\ hmask \in [Sigs -> Masks \cup {{}}]
  /\ frozen \in BOOLEAN
  /\ killed \in BOOLEAN
  /\ pc \in [Actors -> PCs]
  /\ sig \in [Actors -> Sigs \cup {End}]
  /\ seen \in [Actors -> SUBSET (0..31)]
  /\ frame \in [Threads -> Sigs \cup {Main}]
  /\ backup \in [Threads -> Sigs \cup {Main}]

(* allocproc and fork leave one thread; more may have been created since.  *)
Init ==
  /\ pending = {}
  /\ mask = {}
  /\ handler = [s \in Sigs |-> "SIG_DFL"]
  /\ hmask = [s \in Sigs |-> {}]
  /\ frozen = FALSE
  /\ killed = FALSE
  /\ \E A \in SUBSET Threads \ {{}} :
       pc = [a \in Actors |-> IF a \in Threads \ A THEN "gone" ELSE "user"]
  /\ sig = [a \in Actors |-> End]
  /\ seen = [a \in Actors |-> {}]
  /\ frame = [t \in Threads |-> Main]
  /\ backup = [t \in Threads |-> Main]

InKernel == {a \in Actors : pc[a] \notin OffCpu}
CpuFree == Cardinality(InKernel) < NCPU

Goto(a, from, to) == pc[a] = from /\ pc' = [pc EXCEPT ![a] = to]
Enter(a, from, to) == CpuFree /\ Goto(a, from, to)

Least(S) == CHOOSE s \in S \cup {End} : \A x \in S : s <= x
FirstSig == Least(Sigs)
NextSig(s) == Least({x \in Sigs : x > s})
-----------------------------------------------------------------------------
(* kill: reads and writes pending_signals under p->lock. *)
KillRead(k, s) ==
  /\ \A j \in Killers : pc[j] # "write"
  /\ Enter(k, "user", "write")
  /\ sig' = [sig EXCEPT ![k] = s]
  /\ seen' = [seen EXCEPT ![k] = pending]
  /\ UNCHANGED <<pending, procVars, frames>>

KillWrite(k) ==
  /\ Goto(k, "write", "user")
  /\ pending' = seen[k] \cup {sig[k]}
  /\ sig' = [sig EXCEPT ![k] = End]
  /\ seen' = [seen EXCEPT ![k] = {}]
  /\ UNCHANGED <<procVars, frames>>
-----------------------------------------------------------------------------
(* usertrap: a system call or the timer; who is killed goes no further. *)
Syscall(t) ==
  /\ Enter(t, "user", IF killed THEN "gone" ELSE "syscall")
  /\ UNCHANGED <<pending, procVars, sig, seen, frames>>

Timer(t) ==
  /\ Enter(t, "user", "tick")
  /\ UNCHANGED <<pending, procVars, sig, seen, frames>>

\* Variant: the timer does not look at p->killed.
TickAlive(t) ==
  /\ Goto(t, "tick", "yielded")
  /\ UNCHANGED <<pending, procVars, sig, seen, frames>>

Tick(t) ==
  /\ Goto(t, "tick", IF killed THEN "gone" ELSE "yielded")
  /\ UNCHANGED <<pending, procVars, sig, seen, frames>>

Yielded(t) ==
  /\ Enter(t, "yielded", "ret")
  /\ UNCHANGED <<pending, procVars, sig, seen, frames>>

Leave(t) ==
  /\ Goto(t, "leave", IF killed THEN "gone" ELSE "ret")
  /\ UNCHANGED <<pending, procVars, sig, seen, frames>>

(* A system call that sleeps.  Nothing in kill wakes a sleeper up. *)
Sleep(t) ==
  /\ Goto(t, "syscall", "asleep")
  /\ UNCHANGED <<pending, procVars, sig, seen, frames>>

Awake(t) ==
  /\ Enter(t, "asleep", "leave")
  /\ UNCHANGED <<pending, procVars, sig, seen, frames>>

Sigprocmask(t, m) ==
  /\ Goto(t, "syscall", "leave")
  /\ mask' = m \ {SIGSTOP, SIGKILL}
  /\ UNCHANGED <<pending, handler, hmask, frozen, killed, sig, seen, frames>>

(* Handler and mask are two writes. *)
SigactionHandler(t, s, h) ==
  /\ s \notin {SIGKILL, SIGSTOP}
  /\ Goto(t, "syscall", "sigaction")
  /\ handler' = [handler EXCEPT ![s] = h]
  /\ sig' = [sig EXCEPT ![t] = s]
  /\ UNCHANGED <<pending, mask, hmask, frozen, killed, seen, frames>>

SigactionMask(t, m) ==
  /\ Goto(t, "sigaction", "leave")
  /\ hmask' = [hmask EXCEPT ![sig[t]] = m]
  /\ sig' = [sig EXCEPT ![t] = End]
  /\ UNCHANGED <<pending, mask, handler, frozen, killed, seen, frames>>

(* Called by the code that handle_signal puts on the user stack: only from *)
(* within a handler.                                                       *)
Sigret(t) ==
  /\ frame[t] # Main
  /\ Goto(t, "syscall", "leave")
  /\ frame' = [frame EXCEPT ![t] = backup[t]]
  /\ UNCHANGED <<pending, procVars, sig, seen, backup>>

(* exec is past kill_all_threads: t is the only thread. *)
Exec(t) ==
  /\ \A u \in Threads \ {t} : pc[u] = "gone"
  /\ Goto(t, "syscall", "leave")
  /\ handler' = [s \in Sigs |-> IF handler[s] = "SIG_IGN" THEN "SIG_IGN" ELSE "SIG_DFL"]
  /\ frame' = [frame EXCEPT ![t] = Main]
  /\ UNCHANGED <<pending, mask, hmask, frozen, killed, sig, seen, backup>>
-----------------------------------------------------------------------------
(* usertrapret and handle_signal. *)
Return(t) ==
  /\ Goto(t, "ret", IF pending = {} THEN "user" ELSE "test")
  /\ sig' = [sig EXCEPT ![t] = IF pending = {} THEN End ELSE FirstSig]
  /\ UNCHANGED <<pending, procVars, seen, frames>>

(* The next turn of the loop over the signals, or behind it. *)
NextTurn(t, from) ==
  LET s == NextSig(sig[t]) IN
  /\ Goto(t, from, IF s = End THEN "end" ELSE "test")
  /\ sig' = [sig EXCEPT ![t] = s]

Test(t) ==
  /\ IF sig[t] \in pending THEN Goto(t, "test", "unmasked") /\ UNCHANGED sig
                           ELSE NextTurn(t, "test")
  /\ UNCHANGED <<pending, procVars, seen, frames>>

TestMask(t) ==
  /\ IF sig[t] \notin mask THEN Goto(t, "unmasked", "clear") /\ UNCHANGED sig
                           ELSE NextTurn(t, "unmasked")
  /\ UNCHANGED <<pending, procVars, seen, frames>>

ClearRead(t) ==
  /\ Goto(t, "clear", "write")
  /\ seen' = [seen EXCEPT ![t] = pending]
  /\ UNCHANGED <<pending, procVars, sig, frames>>

\* Variant: forgets every signal that is pending.
ClearWriteAll(t) ==
  /\ Goto(t, "write", "act")
  /\ pending' = {}
  /\ seen' = [seen EXCEPT ![t] = {}]
  /\ UNCHANGED <<procVars, sig, frames>>

ClearWrite(t) ==
  /\ Goto(t, "write", "act")
  /\ pending' = seen[t] \ {sig[t]}
  /\ seen' = [seen EXCEPT ![t] = {}]
  /\ UNCHANGED <<procVars, sig, frames>>

Action(s) == CASE handler[s] # "SIG_DFL" -> handler[s]
               [] s = SIGSTOP -> "SIGSTOP"
               [] s = SIGCONT -> "SIGCONT"
               [] OTHER -> "SIGKILL"

\* Variant: SIGCONT does not end the stop.
ActNoCont(t) ==
  LET a == Action(sig[t]) IN
  /\ pc[t] = "act" /\ a # "user"
  /\ NextTurn(t, "act")
  /\ frozen' = (frozen \/ a = "SIGSTOP")
  /\ killed' = (killed \/ a = "SIGKILL")
  /\ UNCHANGED <<pending, mask, handler, hmask, seen, frames>>

(* sigstop_handler, sigcont_handler, sigkill_handler; the p->state that the *)
(* last one looks at is never SLEEPING, threads sleep and not processes.    *)
Act(t) ==
  LET a == Action(sig[t]) IN
  /\ pc[t] = "act" /\ a # "user"
  /\ NextTurn(t, "act")
  /\ frozen' = (CASE a = "SIGSTOP" -> TRUE [] a = "SIGCONT" -> FALSE [] OTHER -> frozen)
  /\ killed' = (killed \/ a = "SIGKILL")
  /\ UNCHANGED <<pending, mask, handler, hmask, seen, frames>>

ActUser(t) ==
  /\ pc[t] = "act" /\ Action(sig[t]) = "user"
  /\ Goto(t, "act", "save")
  /\ UNCHANGED <<pending, procVars, sig, seen, frames>>

(* A user handler: the mask and the trap frame are saved, the handler's    *)
(* mask is set, the trap frame is changed to run the handler, and the mask *)
(* is what it was again before the handler has run.                        *)
SaveContext(t) ==
  /\ Goto(t, "save", "setup")
  /\ seen' = [seen EXCEPT ![t] = mask]
  /\ backup' = [backup EXCEPT ![t] = frame[t]]
  /\ UNCHANGED <<pending, procVars, sig, frame>>

SetupHandler(t) ==
  /\ Goto(t, "setup", "restore")
  /\ mask' = hmask[sig[t]]
  /\ frame' = [frame EXCEPT ![t] = sig[t]]
  /\ UNCHANGED <<pending, handler, hmask, frozen, killed, sig, seen, backup>>

\* Variant: the handler's mask stays.
RestoreMaskNot(t) ==
  /\ NextTurn(t, "restore")
  /\ seen' = [seen EXCEPT ![t] = {}]
  /\ UNCHANGED <<pending, procVars, frames>>

RestoreMask(t) ==
  /\ NextTurn(t, "restore")
  /\ mask' = seen[t]
  /\ seen' = [seen EXCEPT ![t] = {}]
  /\ UNCHANGED <<pending, handler, hmask, frozen, killed, frames>>

(* handle_signal ends with a yield if the process is stopped. *)
EndHandle(t) ==
  /\ Goto(t, "end", IF frozen THEN "stopped" ELSE "again")
  /\ UNCHANGED <<pending, procVars, sig, seen, frames>>

Resume(t) ==
  /\ Enter(t, "stopped", "again")
  /\ UNCHANGED <<pending, procVars, sig, seen, frames>>

\* Variant: the process is looked at once and not until it is continued.
AgainOnce(t) ==
  /\ Goto(t, "again", "user")
  /\ sig' = [sig EXCEPT ![t] = End]
  /\ UNCHANGED <<pending, procVars, seen, frames>>

(* The loop of usertrapret. *)
Again(t) ==
  /\ Goto(t, "again", IF frozen THEN "test" ELSE "user")
  /\ sig' = [sig EXCEPT ![t] = IF frozen THEN FirstSig ELSE End]
  /\ UNCHANGED <<pending, procVars, seen, frames>>
-----------------------------------------------------------------------------
Calls(t) ==
  \/ Sleep(t) \/ Sigret(t) \/ Exec(t)
  \/ \E m \in Masks : Sigprocmask(t, m)
  \/ \E s \in Sigs, h \in Actions : SigactionHandler(t, s, h)

Handling(t) ==
  \/ Return(t) \/ Test(t) \/ TestMask(t) \/ ClearRead(t) \/ ClearWrite(t)
  \/ Act(t) \/ ActUser(t) \/ SaveContext(t) \/ SetupHandler(t) \/ RestoreMask(t)
  \/ EndHandle(t) \/ Resume(t) \/ Again(t)

(* What a thread does by itself or the timer makes it do. *)
Runs(t) ==
  \/ Timer(t) \/ Tick(t) \/ Yielded(t) \/ Leave(t) \/ Calls(t) \/ Handling(t)
  \/ \E m \in Masks : SigactionMask(t, m)

ThreadStep(t) == Syscall(t) \/ Awake(t) \/ Runs(t)
KillerStep(k) == KillWrite(k) \/ \E s \in Sigs : KillRead(k, s)

Next == (\E t \in Threads : ThreadStep(t)) \/ (\E k \in Killers : KillerStep(k))

Spec == Init /\ [][Next]_vars

(* A thread that can go on does: the scheduler takes turns, and the timer  *)
(* interrupts user code.  Nobody has to call anything or to be woken.      *)
Fairness == /\ \A t \in Threads : SF_vars(Runs(t))
            /\ \A k \in Killers : WF_vars(KillWrite(k))

FairSpec == Spec /\ Fairness
-----------------------------------------------------------------------------
(* A signal becomes pending only because somebody sends it, and stops to   *)
(* be pending only because a thread handles it; neither step touches any   *)
(* other signal.  This is what kill and handle_signal do to                *)
(* pending_signals as long as they do not meet.                            *)
PendingIsExact ==
  [][\/ \E k \in Killers : pc[k] = "write" /\ pending' = pending \cup {sig[k]}
     \/ \E t \in Threads : /\ pc[t] = "write" /\ sig[t] \in pending
                           /\ pending' = pending \ {sig[t]}]_pending

(* A blocked signal stays pending: between the test of the mask and the    *)
(* write that clears the bit the mask does not change.                     *)
BlockedStaysPending == [][pending \cap mask \subseteq pending']_pending

(* SIGKILL and SIGSTOP are never blocked in user mode or while a thread    *)
(* waits, whatever masks sigprocmask and sigaction were given.             *)
KillAndStopUnblocked ==
  (\A t \in Threads : pc[t] # "restore") => mask \cap {SIGKILL, SIGSTOP} = {}

InLoop(t) == pc[t] \in {"test", "unmasked", "clear", "write", "act", "save", "setup",
                        "restore", "end", "stopped", "again"}

(* A process that is stopped has a thread in the loop of usertrapret that  *)
(* looks at its signals, so that SIGCONT is noticed even if every other    *)
(* thread sleeps.                                                          *)
StoppedIsWatched == frozen => \E t \in Threads : InLoop(t)

(* A user handler is set up over the program itself, not over another      *)
(* handler that has not returned: the assignment forbids nested handlers.  *)
HandlersDoNotNest == \A t \in Threads : pc[t] = "setup" => frame[t] = Main

(* SIGCONT, unless it is blocked or handled otherwise, resumes a process   *)
(* that is stopped.                                                        *)
ContinueResumes ==
  (frozen /\ SIGCONT \in pending)
    ~> (~frozen \/ SIGCONT \in mask \/ Action(SIGCONT) # "SIGCONT")

(* SIGKILL ends every thread, unless one of them sleeps (nothing wakes it  *)
(* up) or the process is stopped (usertrapret looks at p->killed only      *)
(* after SIGCONT).                                                         *)
KillEnds ==
  (SIGKILL \in pending)
    ~> \/ \A t \in Threads : pc[t] = "gone"
       \/ frozen \/ \E t \in Threads : pc[t] = "asleep"
=============================================================================
