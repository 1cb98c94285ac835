----------------------------- MODULE OrderedMap -----------------------------
(***************************************************************************)
(* What a B-tree promises its clients (the tests of db/btree): a map from  *)
(* keys to values, kept when the tree is closed and opened again, and      *)
(* scanners that visit its entries in the order of the keys, up or down,   *)
(* from the first one or from where begin(key) says.                       *)
(***************************************************************************)
EXTENDS Integers, FiniteSets

CONSTANTS MaxKey, Values

Keys == 1 .. MaxKey
NoEntry == [key |-> 0]
Entry(key, val) == [key |-> key, val |-> val]

(* Where a scan begins: 0 and MaxKey + 1 are "without a key".              *)
Starts == 0 .. MaxKey + 1
NoScan == [dir |-> "none"]

VARIABLES map, scan

vars == <<map, scan>>

(* The entries still ahead of scan s, and the one it gives next.           *)
Ahead(s) ==
  {k \in DOMAIN map : IF s.dir = "up"
                      THEN IF s.at = NoEntry THEN k >= s.from ELSE k > s.at.key
                      ELSE IF s.at = NoEntry THEN k <= s.from ELSE k < s.at.key}
Nearest(S, dir) ==
  CHOOSE k \in S : \A j \in S : IF dir = "up" THEN k <= j ELSE k >= j

Init == map = <<>> /\ scan = NoScan

Put(k, v) ==
  /\ map' = [j \in DOMAIN map \cup {k} |-> IF j = k THEN v ELSE map[j]]
  /\ UNCHANGED scan

Remove(k) ==
  /\ map' = [j \in DOMAIN map \ {k} |-> map[j]]
  /\ UNCHANGED scan

Begin(dir, from) ==
  /\ scan' = [dir |-> dir, from |-> from, at |-> NoEntry]
  /\ UNCHANGED map

HasNext ==
  /\ scan # NoScan
  /\ scan' = IF Ahead(scan) = {} THEN NoScan
             ELSE LET k == Nearest(Ahead(scan), scan.dir)
                  IN  [scan EXCEPT !.at = Entry(k, map[k])]
  /\ UNCHANGED map

Next ==
  \/ \E k \in Keys : Remove(k) \/ \E v \in Values : Put(k, v)
  \/ \E dir \in {"up", "down"}, from \in Starts : Begin(dir, from)
  \/ HasNext

Spec == Init /\ [][Next]_vars
=============================================================================
