------------------------------ MODULE MCSched ------------------------------
(***************************************************************************)
(* All four policies.  CFSD, whose counters multiply the states, is        *)
(* checked on one CPU; the race between two scans is the same in SRT.      *)
(***************************************************************************)
EXTENDS Sched

CountedTicks == [f \in Policies |-> IF f = "CFSD" THEN 2 ELSE 0]
SchedCPUs == [f \in Policies |-> IF f = "CFSD" THEN 1 ELSE NCPU]

Spec == SchedInit /\ [][SchedNext]_schedVars
=============================================================================
