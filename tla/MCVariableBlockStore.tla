------------------------ MODULE MCVariableBlockStore ------------------------
(***************************************************************************)
(* Instances of VariableBlockStore.  With units of 16 bytes a block of n   *)
(* units has room for 16n - 10 bytes; the sizes fill one unit, part of two *)
(* and of three, so that objects grow, shrink in place and by moving, and  *)
(* span several free ranges.                                               *)
(***************************************************************************)
EXTENDS VariableBlockStore

CONSTANTS zero, v1

MCValues == {zero, v1}
MCSizes == {6, 12, 30}

(* Where MaxUsed is 20, one of 22 bytes overflows the used field.          *)
MCSizesLarge == {6, 12, 22}
=============================================================================
