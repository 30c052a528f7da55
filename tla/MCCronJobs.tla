---------------------------- MODULE MCCronJobs ----------------------------
(***************************************************************************)
(* Two instances that share one job with a runOnStart run, two plugins.    *)
(***************************************************************************)
EXTENDS CronJobs

CONSTANTS i1, i2

SlotsOf == [i \in {i1, i2} |-> IF i = i1 THEN {1, 2} ELSE {1}]

\* i2 is never closed, only killed.
CallersOf == [i \in {i1, i2} |-> IF i = i1 THEN {"signal", "user"} ELSE {}]
=============================================================================
