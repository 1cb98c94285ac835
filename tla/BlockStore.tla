----------------------------- MODULE BlockStore -----------------------------
(***************************************************************************)
(* What a block file store promises its clients (filestore_block,          *)
(* IBlockFileStore and IBlockHandle): objects of any length, each found at *)
(* the position the store gave it, until it is removed.  Units, fragments, *)
(* free lists and the moves of a growing object are not visible here.      *)
(***************************************************************************)
EXTENDS Integers

CONSTANTS Positions, \* where an object may be
          Sizes,     \* lengths of objects
          Values,    \* what an object is filled with
          Zero       \* what a new object is filled with

VARIABLE objects     \* position -> [size, val], for the objects that exist

Init == objects = [u \in {} |-> 0]

Keeps(S) == \A u \in S : objects'[u] = objects[u]

Alloc(u) ==
  /\ u \notin DOMAIN objects
  /\ DOMAIN objects' = DOMAIN objects \cup {u}
  /\ objects'[u] \in [size : Sizes, val : {Zero}]
  /\ Keeps(DOMAIN objects)

Write(u) ==
  /\ u \in DOMAIN objects
  /\ DOMAIN objects' = DOMAIN objects
  /\ objects'[u] \in [size : Sizes, val : Values]
  /\ Keeps(DOMAIN objects \ {u})

Remove(u) ==
  /\ u \in DOMAIN objects
  /\ DOMAIN objects' = DOMAIN objects \ {u}
  /\ Keeps(DOMAIN objects \ {u})

Next == \E u \in Positions : Alloc(u) \/ Write(u) \/ Remove(u)

Spec == Init /\ [][Next]_objects
=============================================================================
