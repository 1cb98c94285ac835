----------------------------- MODULE LongRanges -----------------------------
(***************************************************************************)
(* Ranges of numbers, both bounds included (filestore/LongRange), as the   *)
(* list of free ranges and the variable block store use them.              *)
(***************************************************************************)
EXTENDS Integers

LongRange(min, max) == [min |-> min, max |-> max]
Width(r) == r.max - r.min + 1

(* LongRange.compare: where range r lies as seen from value.               *)
Compare(r, value) ==
  IF r.min <= value /\ value <= r.max THEN 0 ELSE IF r.min > value THEN 1 ELSE -1
=============================================================================
