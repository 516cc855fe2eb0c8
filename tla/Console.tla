------------------------------ MODULE Console ------------------------------
(***************************************************************************)
(* The console's line discipline (kernel/console.c): the interrupt handler *)
(* puts characters into a ring with three indices, processes read them.    *)
(* cons.lock is modelled, and a reader works character by character.  The  *)
(* echo goes to the UART and is left out (module Uart).                    *)
(***************************************************************************)
EXTENDS Naturals, Sequences

CONSTANTS Procs, Nobody,
          INPUT_BUF,
          UINT,     (* the indices are unsigned: modulo UINT       *)
          MaxN      (* bound: characters asked for in one read     *)

ConsoleConstants ==
  /\ Nobody \notin Procs
  /\ INPUT_BUF \in Nat \ {0} /\ UINT \in Nat /\ UINT > INPUT_BUF /\ UINT % INPUT_BUF = 0

Chars == {"x", "nl", "eof"}

VARIABLES
  cbuf, consR, consW, consE,   \* cons.buf, cons.r, cons.w, cons.e
  consLock,  \* who holds cons.lock
  rat,       \* where a reader is
  wants,     \* n: characters it still wants
  some,      \* n < target
  rkilled    \* killed readers

consVars == <<cbuf, consR, consW, consE, consLock, rat, wants, some, rkilled>>

Init ==
  /\ cbuf = [i \in 0..(INPUT_BUF - 1) |-> "x"]
  /\ consR = 0 /\ consW = 0 /\ consE = 0
  /\ consLock = Nobody
  /\ rat = [p \in Procs |-> "user"]
  /\ wants = [p \in Procs |-> 0] /\ some = [p \in Procs |-> FALSE]
  /\ rkilled = {}

Minus(a, b) == (a + UINT - b) % UINT
Between(a, b) == [i \in 1..Minus(b, a) |-> cbuf[(a + i - 1) % INPUT_BUF]]

(* wakeup(&cons.r) *)
Wake(at) == [p \in Procs |-> IF at[p] = "asleep" THEN "woken" ELSE at[p]]
-----------------------------------------------------------------------------
(* consoleintr, under cons.lock. *)
\* Variant: a full ring hands over nothing.
KeyNotWhenFull(c) ==
  /\ consLock = Nobody /\ Minus(consE, consR) < INPUT_BUF
  /\ cbuf' = [cbuf EXCEPT ![consE % INPUT_BUF] = c]
  /\ consE' = (consE + 1) % UINT
  /\ IF c \in {"nl", "eof"} THEN consW' = consE' /\ rat' = Wake(rat) ELSE UNCHANGED <<consW, rat>>
  /\ UNCHANGED <<consR, consLock, wants, some, rkilled>>

\* Variant: an end-of-file wakes nobody.
KeySilent(c) ==
  /\ consLock = Nobody /\ Minus(consE, consR) < INPUT_BUF
  /\ cbuf' = [cbuf EXCEPT ![consE % INPUT_BUF] = c]
  /\ consE' = (consE + 1) % UINT
  /\ IF c \in {"nl", "eof"} \/ consE' = (consR + INPUT_BUF) % UINT THEN consW' = consE' ELSE UNCHANGED consW
  /\ rat' = IF c = "nl" THEN Wake(rat) ELSE rat
  /\ UNCHANGED <<consR, consLock, wants, some, rkilled>>

Key(c) ==
  /\ consLock = Nobody /\ Minus(consE, consR) < INPUT_BUF
  /\ cbuf' = [cbuf EXCEPT ![consE % INPUT_BUF] = c]
  /\ consE' = (consE + 1) % UINT
  /\ IF c \in {"nl", "eof"} \/ consE' = (consR + INPUT_BUF) % UINT
     THEN consW' = consE' /\ rat' = Wake(rat)
     ELSE UNCHANGED <<consW, rat>>
  /\ UNCHANGED <<consR, consLock, wants, some, rkilled>>

Backspace ==
  /\ consLock = Nobody /\ consE # consW
  /\ consE' = Minus(consE, 1)
  /\ UNCHANGED <<cbuf, consR, consW, consLock, rat, wants, some, rkilled>>

(* Back to the last newline or to what is complete, in one turn of the     *)
(* handler: the longest tail of the edited characters without a newline.   *)
KillLine ==
  LET kept == {k \in 0..Minus(consE, consW) :
                 \A j \in (k + 1)..Minus(consE, consW) : Between(consW, consE)[j] # "nl"}
  IN /\ consLock = Nobody
     /\ \E k \in kept : /\ \A j \in kept : k <= j
                        /\ consE' = (consW + k) % UINT
     /\ UNCHANGED <<cbuf, consR, consW, consLock, rat, wants, some, rkilled>>
-----------------------------------------------------------------------------
Goto(p, at) == rat' = [rat EXCEPT ![p] = at]
Leave(p) == Goto(p, "user") /\ consLock' = Nobody /\ wants' = [wants EXCEPT ![p] = 0]
                            /\ some' = [some EXCEPT ![p] = FALSE]

Read(p) ==
  /\ rat[p] = "user" /\ p \notin rkilled /\ consLock = Nobody
  /\ consLock' = p /\ Goto(p, "loop")
  /\ \E n \in 1..MaxN : wants' = [wants EXCEPT ![p] = n]
  /\ UNCHANGED <<cbuf, consR, consW, consE, some, rkilled>>

(* Nothing complete: a killed reader gives up; between the look at killed  *)
(* and sleep only kill may come, which is then not noticed.                *)
Wait(p) ==
  /\ rat[p] = "loop" /\ consR = consW
  /\ IF p \in rkilled THEN Leave(p)
     ELSE Goto(p, "sleep") /\ UNCHANGED <<consLock, wants, some>>
  /\ UNCHANGED <<cbuf, consR, consW, consE, rkilled>>

Sleep(p) ==
  /\ rat[p] = "sleep"
  /\ Goto(p, "asleep") /\ consLock' = Nobody
  /\ UNCHANGED <<cbuf, consR, consW, consE, wants, some, rkilled>>

Resume(p) ==
  /\ rat[p] = "woken" /\ consLock = Nobody
  /\ Goto(p, "loop") /\ consLock' = p
  /\ UNCHANGED <<cbuf, consR, consW, consE, wants, some, rkilled>>

(* One character: an end-of-file is left for the next read when this one   *)
(* has got something; a newline, a failing copyout and the last character  *)
(* that was asked for end the read.                                        *)
Take(p) ==
  LET c == cbuf[consR % INPUT_BUF] IN
  /\ rat[p] = "loop" /\ consR # consW
  /\ consR' = IF c = "eof" /\ some[p] THEN consR ELSE (consR + 1) % UINT
  /\ \/ Leave(p)
     \/ /\ wants[p] > 1 /\ c = "x"
        /\ wants' = [wants EXCEPT ![p] = @ - 1] /\ some' = [some EXCEPT ![p] = TRUE]
        /\ UNCHANGED <<consLock, rat>>
  /\ UNCHANGED <<cbuf, consW, consE, rkilled>>

Kill(p) ==
  /\ p \notin rkilled /\ rkilled' = rkilled \cup {p}
  /\ IF rat[p] = "asleep" THEN Goto(p, "woken") ELSE UNCHANGED rat
  /\ UNCHANGED <<cbuf, consR, consW, consE, consLock, wants, some>>

Next ==
  \/ (\E c \in Chars : Key(c)) \/ Backspace \/ KillLine
  \/ \E p \in Procs : Read(p) \/ Wait(p) \/ Sleep(p) \/ Resume(p) \/ Take(p) \/ Kill(p)

Spec == Init /\ [][Next]_consVars
-----------------------------------------------------------------------------
(* The ring is a line editor: its wrap, the wrap of the indices and the     *)
(* end-of-file that is put back lose, repeat and reorder nothing.           *)
Lines == INSTANCE LineEditor WITH lines <- Between(consR, consW), edit <- Between(consW, consE),
                                  Capacity <- INPUT_BUF
ImplementsLineEditor == Lines!Spec

(* A reader sleeps only while no line is complete, and the ring never holds *)
(* more than fits.                                                          *)
ReaderSleeps ==
  /\ consR \in 0..(UINT - 1) /\ consW \in 0..(UINT - 1) /\ consE \in 0..(UINT - 1)
  /\ Minus(consW, consR) <= Minus(consE, consR) /\ Minus(consE, consR) <= INPUT_BUF
  /\ \A p \in Procs :
       /\ rat[p] \in {"loop", "sleep"} <=> consLock = p
       /\ rat[p] = "asleep" => consR = consW
=============================================================================
