---------------------------- MODULE CountingSem ----------------------------
(***************************************************************************)
(* What the semaphores of ass2 promise their callers, without locks, sleep *)
(* queues or a scheduler.  A descriptor is handed out with a number of     *)
(* units; a thread that has come back from bsem_down or csem_down holds    *)
(* one of them until its bsem_up or csem_up; never more threads hold a     *)
(* unit than the descriptor was created with (one, for a binary            *)
(* semaphore).  A descriptor that was handed out twice is void: bsem_alloc *)
(* and ccsem_alloc make no promise about it any more.                      *)
(***************************************************************************)
EXTENDS Naturals, FiniteSets

CONSTANTS Threads,  (* the threads of all processes *)
          Sems      (* the semaphore descriptors    *)

VARIABLES units,    (* how many units each descriptor was created with  *)
          holders,  (* the threads that hold a unit of each descriptor  *)
          void      (* the descriptors that were handed out twice       *)

avars == <<units, holders, void>>

Init ==
  /\ units = [d \in Sems |-> 0]
  /\ holders = [d \in Sems |-> {}]
  /\ void = {}

(* A descriptor nobody holds is given a new number of units. *)
Allocate(d) ==
  /\ holders[d] = {}
  /\ units'[d] \in Nat
  /\ \A e \in Sems \ {d} : units'[e] = units[e]
  /\ UNCHANGED <<holders, void>>

(* A unit is granted only while one is left. *)
Acquire(t, d) ==
  /\ Cardinality(holders[d]) < units[d]
  /\ holders' = [holders EXCEPT ![d] = @ \cup {t}]
  /\ UNCHANGED <<units, void>>

Release(t, d) ==
  /\ t \in holders[d]
  /\ holders' = [holders EXCEPT ![d] = @ \ {t}]
  /\ UNCHANGED <<units, void>>

(* Handed out twice: anything may happen to this descriptor, now and later. *)
Spoil(d) ==
  /\ void' = void \cup {d}
  /\ \A e \in Sems \ {d} : units'[e] = units[e] /\ holders'[e] = holders[e]

Next ==
  \E d \in Sems :
    \/ Allocate(d)
    \/ \E t \in Threads : Acquire(t, d) \/ Release(t, d)
    \/ Spoil(d)

Spec == Init /\ [][Next]_avars
============================================================================
