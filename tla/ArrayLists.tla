----------------------------- MODULE ArrayLists -----------------------------
(***************************************************************************)
(* ArrayList.sort (db/base/ArrayList.ts): a heap sort whose first loop     *)
(* starts at half the length without rounding.  For an odd length it runs  *)
(* over the fractional indexes length/2, length/2 - 1, ..., 1/2, none of   *)
(* which holds an element: length/2 - 1 has the last element as its left   *)
(* child, so that from length 3 on the last element is compared with       *)
(* undefined.                                                              *)
(***************************************************************************)
EXTENDS Integers, Sequences

CONSTANT Compare(_, _)   \* compareTo() of the elements

\* The comparison with undefined throws in every compareTo that does not test for it.
SortThrows(s) == Len(s) % 2 = 1 /\ Len(s) >= 3

\* An order of the positions of a list, counted from 1: the children of i are 2i and 2i + 1.
Orders(s) == [DOMAIN s -> DOMAIN s]
Swap(order, i, j) == [order EXCEPT ![i] = order[j], ![j] = order[i]]

\* A turn of downheap(): the larger child changes places with its parent, an equal one too.
HeapTurn(s, leaf) == [h \in [order : Orders(s), root : DOMAIN s] |->
  LET below(i, j) == Compare(s[h.order[i]], s[h.order[j]]) < 0
      left  == 2 * h.root
      child == IF left < leaf /\ below(left, left + 1) THEN left + 1 ELSE left
  IN  IF left > leaf \/ below(child, h.root) THEN h
      ELSE [order |-> Swap(h.order, h.root, child), root |-> child]]

Downheap(s, root, leaf) == [order \in Orders(s) |->
  LET D[i \in 0..leaf] == IF i = 0 THEN [order |-> order, root |-> root] ELSE HeapTurn(s, leaf)[D[i - 1]]
  IN  D[leaf].order]

\* The first position changes places with the one after leaf, and the others become a heap again.
Drain(s, leaf) == [order \in Orders(s) |-> Downheap(s, 1, leaf)[Swap(order, 1, leaf + 1)]]

\* The order sort() gives to the positions of a list for which it does not throw.
SortedOrder(s) ==
  LET n == Len(s)
      Heap[i \in 0..n \div 2] ==
        IF i = 0 THEN [k \in 1..n |-> k] ELSE Downheap(s, n \div 2 + 1 - i, n)[Heap[i - 1]]
      Drained[i \in 0..n - 1] == IF i = 0 THEN Heap[n \div 2] ELSE Drain(s, n - i)[Drained[i - 1]]
  IN  Drained[n - 1]

Sorted(s) == IF Len(s) < 2 THEN s ELSE LET order == SortedOrder(s) IN [k \in DOMAIN s |-> s[order[k]]]
=============================================================================
