--------------------------- MODULE UtxoRepository ---------------------------
(***************************************************************************)
(* What an account keeps of the chain: its coins in two B-trees            *)
(* (bc_wallet_trx_repo/WalletAccountUtxoRepository), by address and by id, *)
(* and its transactions (WalletAccountTrxRepository); and the import of a  *)
(* transaction into them (bc_wallet_trx, importTransaction of the          *)
(* handlers), which runs where a caller calls it: as the code stands none  *)
(* does (see scenario.imports and WalletAccount).                          *)
(*                                                                         *)
(* A B-tree is the map it implements; each write of one may                *)
(* fail and then leaves it as it was, except that putData of a key that is *)
(* there has freed the old data already.                                   *)
(*                                                                         *)
(* A transaction has one output, a coin that bears its name.               *)
(***************************************************************************)
EXTENDS ChangeAddresses

CONSTANTS
  Trxs,    \* model values
  Pays,    \* [Trxs -> Nat]: the serial of the address of its output
  Spends,  \* [Trxs -> Seq(Trxs)]: the coins it refers to
  Strict   \* transfers, tickets and pools, whose handlers call getBalanceUtxo

\* the name of a transaction is the hash of what it holds, its references too: none spends itself
ASSUME RepositoryAssumption ==
  /\ Pays \in [Trxs -> 0..Group - 1] /\ Spends \in [Trxs -> Seq(Trxs)] /\ Strict \subseteq Trxs
  /\ \A t \in Trxs : t \notin Range(Spends[t])

VARIABLES
  byAddress,  \* btree: the coins at each address
  byId,       \* utxoIdBtree: the address of each coin, None or Freed
  trxs,       \* the transactions stored
  job,        \* the import that runs
  damaged,    \* history: coins of which one tree was changed and the other was not
  completed,  \* history: transactions whose handler's import returned
  late        \* history: coins whose import began when a transaction that spends them was in

repositoryVars == <<byAddress, byId, trxs, job, damaged, completed, late>>

None == -1
Freed == -2
NoJob == [trx |-> None, at |-> 0, half |-> FALSE, imported |-> FALSE]
Importing == job # NoJob

RepositoryInit ==
  /\ byAddress = [a \in 0..Group - 1 |-> <<>>] /\ byId = [u \in Trxs |-> None] /\ trxs = {}
  /\ job = NoJob /\ damaged = {} /\ completed = {} /\ late = {}

Untouched == job = NoJob /\ completed = {} /\ trxs = {} /\ byId = [u \in Trxs |-> None] /\ \A a \in DOMAIN byAddress : byAddress[a] = <<>>

-----------------------------------------------------------------------------
(* getUtxo and getBalanceUtxo of the repository: the address by the id,    *)
(* then the coin in the list of the address.  Where there is no list the   *)
(* one throws and the other finds nothing; freed data may still be read.   *)
Listed(u) == u \in Range(byAddress[Pays[u]])

AtAddress(u, strict) ==
  IF Listed(u) THEN "found" ELSE IF byAddress[Pays[u]] = <<>> /\ ~strict THEN "throws" ELSE "missing"

Lookups(u, strict) ==
  IF byId[u] = None THEN {"missing"}
  ELSE {AtAddress(u, strict)} \cup IF byId[u] = Freed THEN {"throws"} ELSE {}

\* a handler's importTransaction is called
BeginImport(t) ==
  /\ call = Idle /\ ~Importing /\ Pays[t] \in handed
  /\ job' = [trx |-> t, at |-> 1, half |-> FALSE, imported |-> FALSE]
  /\ late' = IF \E s \in completed : t \in Range(Spends[s]) THEN late \cup {t} ELSE late
  /\ UNCHANGED <<byAddress, byId, trxs, damaged, completed, failures>>

Refs == Spends[job.trx]
NextItem(imported) == job' = [job EXCEPT !.at = @ + 1, !.half = FALSE, !.imported = @ \/ imported]
HalfDone == job' = [job EXCEPT !.half = TRUE]
JobThrows == job' = NoJob /\ UNCHANGED <<trxs, completed, late>>
WriteFailed == failures < MaxFailures /\ failures' = failures + 1

\* A slip the checks must notice: the key carries no coin, and nothing is taken from the list.
Kept(u) == byAddress

\* AddressDescriptorUtxoDataFactory.beforeRemove: the coin goes, and the key with the last one
Without(u) == [byAddress EXCEPT ![Pays[u]] = RemoveFirst(@, u)]

\* A slip the checks must notice: a coin that is there is added again.
Appended(u) == [byAddress EXCEPT ![Pays[u]] = Append(@, u)]

\* AddressDescriptorUtxoData.join
With(u) == [byAddress EXCEPT ![Pays[u]] = IF Listed(u) THEN @ ELSE Append(@, u)]

\* a coin that is referred to: removed from the tree by address ...
SpendCoin ==
  LET u == Refs[job.at]
      strict == job.trx \in Strict
  IN /\ Importing /\ job.at <= Len(Refs) /\ ~job.half
     /\ UNCHANGED <<byId, damaged>>
     /\ \/ /\ "throws" \in Lookups(u, strict) \/ (strict /\ "missing" \in Lookups(u, strict))
           /\ JobThrows /\ UNCHANGED <<byAddress, failures>>
        \/ /\ ~strict /\ "missing" \in Lookups(u, strict)
           /\ NextItem(FALSE) /\ UNCHANGED <<byAddress, trxs, completed, late, failures>>
        \/ "found" \in Lookups(u, strict) /\ WriteFailed /\ JobThrows /\ UNCHANGED byAddress
        \/ /\ "found" \in Lookups(u, strict)
           /\ byAddress' = Without(u) /\ HalfDone /\ UNCHANGED <<trxs, completed, late, failures>>

\* ... and from the tree by id
ForgetCoin ==
  LET u == Refs[job.at] IN
  /\ Importing /\ job.at <= Len(Refs) /\ job.half /\ UNCHANGED byAddress
  /\ \/ WriteFailed /\ damaged' = damaged \cup {u} /\ JobThrows /\ UNCHANGED byId
     \/ byId' = [byId EXCEPT ![u] = None] /\ NextItem(TRUE) /\ UNCHANGED <<damaged, trxs, completed, late, failures>>

\* the output: nothing where the account has not the address; else put by address ...
AddCoin ==
  LET u == job.trx IN
  /\ Importing /\ job.at = Len(Refs) + 1 /\ ~job.half /\ UNCHANGED <<byId, damaged>>
  /\ \/ ~scenario.utxos /\ JobThrows /\ UNCHANGED <<byAddress, failures>>
     \/ /\ scenario.utxos /\ Pays[u] \notin Range(store.list)
        /\ NextItem(FALSE) /\ UNCHANGED <<byAddress, trxs, completed, late, failures>>
     \/ scenario.utxos /\ Pays[u] \in Range(store.list) /\ WriteFailed /\ JobThrows /\ UNCHANGED byAddress
     \/ /\ scenario.utxos /\ Pays[u] \in Range(store.list)
        /\ byAddress' = With(u) /\ HalfDone /\ UNCHANGED <<trxs, completed, late, failures>>

\* ... and by id
IndexCoin ==
  LET u == job.trx IN
  /\ Importing /\ job.at = Len(Refs) + 1 /\ job.half /\ UNCHANGED byAddress
  /\ \/ /\ WriteFailed /\ damaged' = damaged \cup {u} /\ JobThrows
        /\ byId' = [byId EXCEPT ![u] = IF @ = None THEN None ELSE Freed]
     \/ /\ byId' = [byId EXCEPT ![u] = Pays[u]] /\ damaged' = damaged \ {u}
        /\ NextItem(TRUE) /\ UNCHANGED <<trxs, completed, late, failures>>

\* the transaction, if it concerned the account
StoreTransaction ==
  /\ Importing /\ job.at = Len(Refs) + 2 /\ UNCHANGED <<byAddress, byId, damaged>>
  /\ \/ job.imported /\ WriteFailed /\ JobThrows
     \/ /\ trxs' = (IF job.imported THEN trxs \cup {job.trx} ELSE trxs)
        /\ completed' = completed \cup {job.trx} /\ job' = NoJob /\ UNCHANGED <<late, failures>>

\* WalletAccount.removeTransaction, which throws after it removed it; its coin stays
RemoveTransaction(t) ==
  /\ call = Idle /\ ~Importing /\ t \in trxs /\ trxs' = trxs \ {t}
  /\ UNCHANGED <<byAddress, byId, job, damaged, completed, late, failures>>

RepositoryNext ==
  \/ \E t \in Trxs : RemoveTransaction(t)
  \/ SpendCoin \/ ForgetCoin \/ AddCoin \/ IndexCoin \/ StoreTransaction

-----------------------------------------------------------------------------
RepositoryTypes ==
  /\ \A a \in DOMAIN byAddress : \A i \in DOMAIN byAddress[a] : Pays[byAddress[a][i]] = a
  /\ \A u \in Trxs : byId[u] \in {None, Freed, Pays[u]}
  /\ trxs \subseteq Trxs /\ damaged \subseteq Trxs /\ completed \subseteq Trxs /\ late \subseteq Trxs
  /\ Importing => job.trx \in Trxs /\ job.at \in 1..Len(Refs) + 2

\* A coin is in both trees or in none, and once, unless a failure came between the two writes:
\* of a coin that is in the one by address only the total counts it and nothing removes it, one
\* that is in the one by id only makes every import that spends it throw.  An import that is
\* tried again and returns puts it right.
InHand(u) == job.half /\ u = IF job.at <= Len(Refs) THEN Refs[job.at] ELSE job.trx
TreesAgree ==
  \A u \in Trxs :
    /\ IsInjective(byAddress[Pays[u]])
    /\ u \notin damaged /\ ~InHand(u) => (Listed(u) <=> byId[u] = Pays[u])

\* A coin that a stored transaction spends is not among the account's coins, unless its own
\* import began after that: importTransaction does not ask whether it knows the transaction, so
\* that one imported again brings its coin back.
SpentStaysSpent == \A s \in completed : \A u \in Range(Spends[s]) : Listed(u) => u \in late \cup damaged
=============================================================================
