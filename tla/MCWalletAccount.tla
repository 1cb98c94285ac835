--------------------------- MODULE MCWalletAccount ---------------------------
(***************************************************************************)
(* An instance of WalletAccount: two addresses in the group; t1 and t3 pay *)
(* to the first one, t2 spends what t1 paid and pays to the second, t3     *)
(* spends what t2 and t1 paid; t2 is a transfer, so that it cannot be      *)
(* imported before t1.                                                     *)
(***************************************************************************)
EXTENDS WalletAccount

CONSTANTS t1, t2, t3

MCTrxs == {t1, t2, t3}
MCPays == [t \in MCTrxs |-> IF t = t2 THEN 1 ELSE 0]
MCSpends == [t \in MCTrxs |-> CASE t = t2 -> <<t1>> [] t = t3 -> <<t2, t1>> [] OTHER -> <<>>]
MCStrict == {t2}
=============================================================================
