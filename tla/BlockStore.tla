----------------------------- MODULE BlockStore -----------------------------
(***************************************************************************)
(* What the buffer cache promises to the log and the file system: each     *)
(* block of the disk is there once, with one content, for one process at a *)
(* time.                                                                   *)
(***************************************************************************)
CONSTANTS Procs, Blocks, Values, None

VARIABLES content,  \* the content of each block
          holder    \* who has it, None if nobody

storeVars == <<content, holder>>

Init == content \in [Blocks -> Values] /\ holder = [k \in Blocks |-> None]

Take(p, k) ==
  /\ holder[k] = None
  /\ holder' = [holder EXCEPT ![k] = p]
  /\ UNCHANGED content

Change(p, k, v) ==
  /\ holder[k] = p
  /\ content' = [content EXCEPT ![k] = v]
  /\ UNCHANGED holder

Give(p, k) ==
  /\ holder[k] = p
  /\ holder' = [holder EXCEPT ![k] = None]
  /\ UNCHANGED content

Next == \E p \in Procs, k \in Blocks :
          Take(p, k) \/ Give(p, k) \/ \E v \in Values : Change(p, k, v)

Spec == Init /\ [][Next]_storeVars
=============================================================================
