------------------------------ MODULE MCVirtio ------------------------------
(***************************************************************************)
(* The driver and the device with any callers: a process calls             *)
(* virtio_disk_rw with a buffer it has locked, so a buffer is in one call  *)
(* at a time.                                                              *)
(***************************************************************************)
EXTENDS Virtio

CONSTANT Values   (* contents of a block *)

Call(p) ==
  /\ io[p] = NoIO
  /\ \E b \in Bufs, k \in Blocks, w \in BOOLEAN :
       /\ \A q \in Procs : io[q] # NoIO => io[q].buf # b
       /\ io' = [io EXCEPT ![p] = [buf |-> b, block |-> k, write |-> w]]
  /\ UNCHANGED <<data, disk, driverVars>>

Init == /\ io = [p \in Procs |-> NoIO]
        /\ data \in [Bufs -> Values] /\ disk \in [Blocks -> Values]
        /\ DriverInit

Next == VirtioNext \/ \E p \in Procs : Call(p)

(* Interrupts are taken, the device answers, and the scheduler lets a      *)
(* process go on that is awake often enough.                               *)
Fairness == /\ WF_virtioVars(Intr)
            /\ \A d \in Desc : WF_virtioVars(DeviceDone(d))
            /\ \A p \in Procs : SF_virtioVars(Return(p))

Spec == Init /\ [][Next]_virtioVars /\ Fairness
=============================================================================
