-------------------------------- MODULE Powers --------------------------------
(***************************************************************************)
(* Powers of two, by doubling, as the kernel's loops compute them.         *)
(***************************************************************************)
EXTENDS Integers

Pow2[n \in Nat] == IF n = 0 THEN 1 ELSE 2 * Pow2[n - 1]
=============================================================================
