-------------------------------- MODULE Fifo --------------------------------
(***************************************************************************)
(* What a pipe promises: bytes come out in the order they went in, each    *)
(* once, and there are never more than Capacity inside.  A byte goes in    *)
(* only while the reading end is open; an end that is closed stays closed. *)
(***************************************************************************)
EXTENDS Naturals, Sequences

CONSTANTS Bytes, Capacity

VARIABLES items, open

Put(v) == /\ "r" \in open /\ Len(items) < Capacity
          /\ items' = Append(items, v) /\ UNCHANGED open
Take == items # <<>> /\ items' = Tail(items) /\ UNCHANGED open
Close(e) == e \in open /\ open' = open \ {e} /\ UNCHANGED items

fifoVars == <<items, open>>

Init == items = <<>> /\ open = {"r", "w"}
Next == (\E v \in Bytes : Put(v)) \/ Take \/ \E e \in {"r", "w"} : Close(e)
Spec == Init /\ [][Next]_fifoVars
=============================================================================
