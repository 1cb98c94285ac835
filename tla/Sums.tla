-------------------------------- MODULE Sums --------------------------------
(***************************************************************************)
(* Sums of the numbers in a list (bc_base/BalanceUnit, addSelf in a loop). *)
(***************************************************************************)
EXTENDS Integers, Sequences

Total(s) == LET sum[i \in 0..Len(s)] == IF i = 0 THEN 0 ELSE sum[i - 1] + s[i] IN sum[Len(s)]
=============================================================================
