------------------------------- MODULE MCSignal -------------------------------
(* Two programs for TLC.  For liveness only one of them handles signals; for  *)
(* safety both do, the first also its own faults.                             *)
EXTENDS Signal

CONSTANTS p, q

MCHandled     == [r \in Procs |-> IF r = p THEN {INTERRUPT, ALARM} ELSE {}]
MCHandledBoth == [r \in Procs |-> IF r = p THEN {SEGFAULT, INTERRUPT} ELSE {INTERRUPT, ALARM}]
=============================================================================
