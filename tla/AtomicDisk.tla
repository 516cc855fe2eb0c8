----------------------------- MODULE AtomicDisk -----------------------------
(***************************************************************************)
(* What the log promises the file system.  Operations read and write       *)
(* blocks in memory (current).  Now and then, when no operation is under   *)
(* way, all that was written becomes durable at once.  A crash loses what  *)
(* is not durable, so that an operation survives it with all of its writes *)
(* or with none.                                                           *)
(***************************************************************************)
CONSTANTS Blocks,  (* the blocks of the disk, the log's own left out *)
          Values,  (* contents of a block                            *)
          Procs    (* processes that make file system calls          *)

VARIABLES current,  (* contents as the running system sees them *)
          durable,  (* contents that survive a crash            *)
          active    (* processes inside an operation            *)

avars == <<current, durable, active>>

Init ==
  /\ current \in [Blocks -> Values]
  /\ durable = current
  /\ active = {}

Begin(t) == t \notin active /\ active' = active \cup {t} /\ UNCHANGED <<current, durable>>

Write(t, b, v) ==
  /\ t \in active
  /\ current' = [current EXCEPT ![b] = v]
  /\ UNCHANGED <<durable, active>>

End(t) == t \in active /\ active' = active \ {t} /\ UNCHANGED <<current, durable>>

Commit ==
  /\ active = {}
  /\ durable' = current
  /\ UNCHANGED <<current, active>>

Crash ==
  /\ current' = durable
  /\ active' = {}
  /\ UNCHANGED durable

Next ==
  \/ \E t \in Procs : Begin(t) \/ End(t) \/ \E b \in Blocks, v \in Values : Write(t, b, v)
  \/ Commit
  \/ Crash

Spec == Init /\ [][Next]_avars
=============================================================================
