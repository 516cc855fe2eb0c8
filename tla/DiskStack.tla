------------------------------ MODULE DiskStack ------------------------------
(***************************************************************************)
(* The buffer cache over the disk driver over the disk.  The two layers    *)
(* meet in io (calls of virtio_disk_rw and their returns) and in the data  *)
(* of buffers, which the device reads and writes by itself.                *)
(***************************************************************************)
EXTENDS BufferCache, TLC

CONSTANT NUM   (* descriptors of the driver *)

VARIABLES free, next, addr, ops, info, busy, avail, used, irq, handling, st, head

INSTANCE Virtio

ASSUME StackConstants == VirtioConstants /\ IsFiniteSet(Procs) /\ IsFiniteSet(Bufs)

driver == <<free, next, addr, ops, info, busy, avail, used, irq, handling, st, head>>
vars == <<io, data, disk, cacheVars, driver>>

(* A buffer starts out with anything: it is read before it is used. *)
Init == /\ io = [p \in Procs |-> NoIO]
        /\ data \in [Bufs -> Values]
        /\ disk \in [Blocks -> Values]
        /\ CacheInit /\ DriverInit

Calls(p) == CacheStep(p) /\ UNCHANGED driver
Served == VirtioNext /\ UNCHANGED cacheVars

Next == (\E p \in Procs : Calls(p)) \/ Served

Spec == Init /\ [][Next]_vars

(* Nothing distinguishes one process, buffer, block or content from another. *)
Symmetry == Permutations(Procs) \cup Permutations(Bufs)
              \cup Permutations(Blocks) \cup Permutations(Values)

Store == INSTANCE BlockStore WITH
           content <- [k \in Blocks |-> Content(k)],
           holder  <- [k \in Blocks |-> Holder(k)]

(* The cache implements a store of blocks: a caller always gets the block  *)
(* it asked for, with what was last put there, and alone.                  *)
ImplementsBlockStore == Store!Spec
=============================================================================
