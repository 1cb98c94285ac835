---------------------------- MODULE WalletAccount ----------------------------
(***************************************************************************)
(* An account of the wallet (bc_wallet/WalletAccount): its change          *)
(* addresses on disk and the coins that were paid to them.  hasAddress     *)
(* decides what an import keeps, so that an address that is lost is money  *)
(* that is lost.                                                           *)
(*                                                                         *)
(* The process may die as long as the trees were not written: what a crash *)
(* leaves of a written tree is the files' matter (RandomAccessFile).       *)
(***************************************************************************)
EXTENDS UtxoRepository

vars == <<scenario, failures, addressVars, repositoryVars>>

Init ==
  /\ scenario \in [shorts : BOOLEAN, binaries : BOOLEAN, utxos : BOOLEAN, imports : BOOLEAN]
  /\ AddressInit /\ RepositoryInit

\* importTransaction makes the handler for the transaction and returns: nothing changes.  Only if it called the
\* handler's importTransaction as well (scenario.imports) would an import begin.
ImportTransaction(t) == scenario.imports /\ BeginImport(t)

Next ==
  \/ ~Importing /\ AddressNext /\ UNCHANGED <<scenario, repositoryVars>>
  \/ Untouched /\ Crash /\ UNCHANGED <<scenario, repositoryVars>>
  \/ (RepositoryNext \/ \E t \in Trxs : ImportTransaction(t)) /\ UNCHANGED <<scenario, addressVars>>

Spec == Init /\ [][Next]_vars

TypeOK == AddressTypes /\ RepositoryTypes

\* The account's two trees of coins agree, through imports that fail half way and are tried again.
AccountConsistent == TypeOK /\ TreesAgree

\* A handler's import that returns has stored what pays to an address that was handed out, also by an
\* earlier process, unless that address could not be saved.  (As the code stands no import reaches a
\* handler, and an account finds no payment: see ImportTransaction.)
PaymentsFound ==
  [][\A t \in completed' \ completed :
       Pays[t] \in handed \ unsaved => t \in trxs' /\ Listed(t)' /\ byId'[t] = Pays[t]]_vars
=============================================================================
