--------------------------- MODULE MCNetworkWallet ---------------------------
(***************************************************************************)
(* An instance of NetworkWallet: two branches, a1 - a2 and b1 - b2 - b3,   *)
(* so that a finalization on one branch can drop a header another walks    *)
(* over, and a third first block c1, with which the heads cannot be sorted;*)
(* t1 pays the wallet, t2 spends that and pays it, t3 spends that.         *)
(* The pool is read in another order than the chain.                       *)
(***************************************************************************)
EXTENDS NetworkWallet

CONSTANTS a1, a2, b1, b2, b3, c1, t1, t2, t3

Branches == {a1, a2, b1, b2, b3}
MCHeaders == Branches \cup {c1}
MCTrxs == {t1, t2, t3}
MCParent == [h \in MCHeaders |-> CASE h = a2 -> a1 [] h = b2 -> b1 [] h = b3 -> b2 [] OTHER -> NoHeader]
MCHeight == [h \in MCHeaders |-> CASE h \in {a1, b1, c1} -> 1 [] h \in {a2, b2} -> 2 [] OTHER -> 3]
MCBody == [h \in MCHeaders |-> CASE h = a1 -> <<t1>> [] h = b1 -> <<t1, t2>> [] OTHER -> <<>>]
MCOwned == {t1, t2}
MCSpends == [t \in MCTrxs |-> CASE t = t1 -> <<>> [] t = t2 -> <<t1>> [] OTHER -> <<t2>>]
MCTimestamp == [t \in MCTrxs |-> IF t = t1 THEN 2 ELSE 1]

AllWork == [headers |-> TRUE, groups |-> TRUE, wallet |-> TRUE]
NoneWorks == [p \in DOMAIN AllWork |-> FALSE]
AtFault(f, T) == [t \in MCTrxs |-> IF t \in T THEN f ELSE "none"]

With(w, b, s) == [works |-> w, broken |-> b, settled |-> s]
NoFault == AtFault("none", {})
Faults1 == {NoFault, AtFault("id", {t1}), AtFault("copy", {t1}), AtFault("address", {t2})}

(* Everything works, one part or one transaction is at fault, or the code as it stands. *)
Faulty ==
  {With(AllWork, b, <<>>) : b \in Faults1}
    \cup {With(AllWork, b, <<t1>>) : b \in {NoFault, AtFault("copy", {t1})}}
    \cup {With([AllWork EXCEPT ![p] = FALSE], NoFault, <<>>) : p \in DOMAIN AllWork}
    \cup {With(NoneWorks, AtFault("address", MCTrxs), <<>>)}

Arriving(c, h, s, t) == c @@ [headers |-> h, sent |-> s, trxs |-> t]

(* Both branches arrive in any order and no transaction, or first blocks, some of them with *)
(* every transaction. *)
MCScenarios ==
  {Arriving(With(w, NoFault, <<>>), Branches, {b1, b2}, {}) : w \in {AllWork, NoneWorks}}
    \cup {Arriving(With(AllWork, NoFault, <<>>), {a1, b1, c1}, {}, {})}
    \cup {Arriving(c, {a1, b1}, {a1, b1}, MCTrxs) : c \in Faulty}
=============================================================================
