-------------------------------- MODULE Uart --------------------------------
(***************************************************************************)
(* The transmit side of the UART (kernel/uart.c): processes put characters *)
(* into a ring, and sleep while it is full; uartstart moves them to the    *)
(* transmit register, from uartputc and from the interrupt; the console    *)
(* echoes by writing the register itself.  What is done under uart_tx_lock *)
(* is one step.  Characters are not told apart.                            *)
(***************************************************************************)
EXTENDS Naturals, FiniteSets

CONSTANTS Procs,
          UART_TX_BUF_SIZE

UartConstants == UART_TX_BUF_SIZE \in Nat \ {0}

VARIABLES
  txCount,  \* uart_tx_w - uart_tx_r
  thr,      \* the transmit register: "idle" or "busy"
  uirq,     \* the UART interrupts: it is ready for more
  put       \* where a process is in uartputc

uartVars == <<txCount, thr, uirq, put>>

UartTypeOK ==
  /\ txCount \in 0..UART_TX_BUF_SIZE
  /\ thr \in {"idle", "busy"} /\ uirq \in BOOLEAN
  /\ put \in [Procs -> {"user", "asleep", "retry"}]

Init == txCount = 0 /\ thr = "idle" /\ uirq = FALSE /\ put = [p \in Procs |-> "user"]

\* Variant: uartstart wakes nobody.
StartSilent(n, pc) ==
  IF n > 0 /\ thr = "idle"
  THEN txCount' = n - 1 /\ thr' = "busy" /\ put' = pc
  ELSE txCount' = n /\ put' = pc /\ UNCHANGED thr

(* uartstart with n characters waiting: it sends one, if it may, and wakes *)
(* who waits for room.  (If the register is idle again at once, it sends   *)
(* the next one as the next interrupt would.)                              *)
Start(n, pc) ==
  IF n > 0 /\ thr = "idle"
  THEN /\ txCount' = n - 1 /\ thr' = "busy"
       /\ put' = [p \in Procs |-> IF pc[p] = "asleep" THEN "retry" ELSE pc[p]]
  ELSE txCount' = n /\ put' = pc /\ UNCHANGED thr

(* uartputc, from the top or after its sleep. *)
Putc(p) ==
  /\ put[p] \in {"user", "retry"}
  /\ IF txCount = UART_TX_BUF_SIZE
     THEN put' = [put EXCEPT ![p] = "asleep"] /\ UNCHANGED <<txCount, thr>>
     ELSE Start(txCount + 1, [put EXCEPT ![p] = "user"])
  /\ UNCHANGED uirq

(* uartputc_sync: it spins until the register is idle. *)
PutcSync ==
  /\ thr = "idle" /\ thr' = "busy"
  /\ UNCHANGED <<txCount, uirq, put>>

(* uartintr, after the input. *)
Intr == uirq /\ uirq' = FALSE /\ Start(txCount, put)

Transmit ==
  /\ thr = "busy" /\ thr' = "idle" /\ uirq' = TRUE
  /\ UNCHANGED <<txCount, put>>

Next == (\E p \in Procs : Putc(p)) \/ PutcSync \/ Intr \/ Transmit
-----------------------------------------------------------------------------
(* The device transmits and interrupts, and sometimes the interrupt finds  *)
(* the register idle although the console echoes.                          *)
Sends == Intr /\ txCount > 0 /\ thr = "idle"

Spec == Init /\ [][Next]_uartVars

(* A process that waits for room in the ring is woken: no wake-up is lost  *)
(* between the ring, the register and the echo, which sends past both.     *)
PutcWoken == \A p \in Procs : put[p] = "asleep" ~> put[p] # "asleep"
=============================================================================
