---------------------------- MODULE NetworkWallet ----------------------------
(***************************************************************************)
(* The wallet's view of the chain (bc_wallet_net_data/NetworkWalletData,   *)
(* with the header store of bc_blockstore_header, the transaction groups   *)
(* of the headers, the memory pool and bc_wallet_net_data_management).     *)
(*                                                                         *)
(* Headers arrive with the transactions a filter let through, transactions *)
(* arrive for the pool; the head of the chain is chosen, blocks deep       *)
(* enough are finalized, and three accounts say which coins the wallet     *)
(* has: the finalized one, the one with the blocks of the head on top, and *)
(* the one with the pool on top of that.                                   *)
(*                                                                         *)
(* One thread runs it: a method is one step, and fails or returns.  Only   *)
(* the walk of __doFinalize takes a step for each header, as it may not    *)
(* end.  Methods of other classes that throw wherever they are called (see *)
(* the README) may do so or not, as the scenario says.                     *)
(* The files behave as the B-tree and the block store promise; a failing   *)
(* write leaves a B-tree as it was.                                        *)
(***************************************************************************)
EXTENDS Integers, Sequences, FiniteSets, FiniteSetsExt, SequencesExt

CONSTANTS
  Headers, Trxs,  \* model values
  NoHeader,       \* null
  Parent,         \* lastid: [Headers -> Headers \cup {NoHeader}]
  Height,         \* [Headers -> Nat]
  Body,           \* [Headers -> Seq(Trxs)]
  Owned,          \* transactions with an output of the wallet, which bears the transaction's name
  Spends,         \* [Trxs -> Seq(Owned)]: the outputs of the wallet it refers to
  Timestamp,      \* [Trxs -> Nat]
  BeforeHeight,   \* voteBeforeNBlocks + voteBlockIncludeAfterNBlocks
  Scenarios,      \* bound of the model: what works and what arrives in each behaviour
  MaxList         \* bound of the model: records in the finalized account

Parts == [headers : BOOLEAN, groups : BOOLEAN, wallet : BOOLEAN]
Faults == {"none", "address", "id", "copy"}
Heights == {Height[h] : h \in Headers}

ASSUME WalletAssumption ==
  /\ NoHeader \notin Headers /\ Parent \in [Headers -> Headers \cup {NoHeader}]
  /\ Height \in [Headers -> Nat]
  /\ \A h \in Headers : Height[h] = IF Parent[h] = NoHeader THEN 1 ELSE Height[Parent[h]] + 1
  /\ Body \in [Headers -> Seq(Trxs)] /\ Owned \subseteq Trxs
  /\ Spends \in [Trxs -> Seq(Owned)] /\ \A t \in Trxs : t \notin Range(Spends[t])
  /\ Timestamp \in [Trxs -> Nat] /\ BeforeHeight \in Nat /\ MaxList \in Nat
  /\ Scenarios \subseteq [works : Parts, broken : [Trxs -> Faults], settled : Seq(Trxs),
                          headers : SUBSET Headers, sent : SUBSET Headers, trxs : SUBSET Trxs]

VARIABLES
  scenario,   \* a member of Scenarios
  sections,   \* the heights whose header store and index exist
  index,      \* BlockHeaderHeightIndex: the headers at each height, in the order of their arrival
  dropped,    \* history: headers that finalize() took out of the index
  missed,     \* history: headers that were not there when one after them was stored, and have not come since
  groups,     \* TransactionGroupDataStore: the transactions of each header, NoGroup where none
  stored,     \* WalletMemoryPool.trxStore
  order,      \* WalletMemoryPool.trxOrderIndex: ids by timestamp, then by arrival
  failed,     \* history: transactions whose putTransaction threw
  account,    \* the three ManagementAccounts
  head,       \* detector.selectedHead, a head of one block
  finalizedHeight,
  walk,       \* __updateFinalizedData: NotWalking, or the header looked for and the one finalized
  last        \* the last method, "build", "mempool" or "other", and whether it returned

works == scenario.works      \* headers can be loaded, groups stored, the wallet opened
broken == scenario.broken    \* which call on each transaction throws
settled == scenario.settled  \* waccount.getTransactions()

headerStore == <<sections, index, dropped, missed>>
pool == <<stored, order, failed>>
vars == <<scenario, headerStore, groups, pool, account, head, finalizedHeight, walk, last>>

NoGroup == <<NoHeader>>
NotWalking == [id |-> NoHeader, height |-> 0, target |-> NoHeader]
Walking == walk # NotWalking
Layers == {"finalized", "unfinalized", "mempool"}
Blank == [history |-> <<>>, list |-> <<>>, map |-> {}]

Ended(ok) == last' = [method |-> "other", ok |-> ok]

-----------------------------------------------------------------------------
(* The header store.  A section is looked up by height / limit, which is   *)
(* not rounded: every height has a section of its own.                     *)

\* getBlocksAtHeight(n) does not throw
CanRead(n) == n \in sections /\ (index[n] # <<>> => works.headers)

\* getHeader(h, height) finds h, in a section that can be read
Listed(h) == h \in Headers /\ h \in Range(index[Height[h]])

WithHeader(h) == [index EXCEPT ![Height[h]] = Append(@, h)]
MissedWith(h) == (missed \ {h}) \cup {p \in {Parent[h]} : p # NoHeader /\ ~Listed(p)}

\* getNBlocksBefore from a list of headers: none to read throws, none to find is null
Before(h, n) ==
  LET Back[at \in (Headers \cup {NoHeader}) \X (0..n)] ==
        IF at[1] = NoHeader THEN [ok |-> TRUE, header |-> NoHeader]
        ELSE IF ~CanRead(Height[at[1]]) THEN [ok |-> FALSE, header |-> NoHeader]
        ELSE IF ~Listed(at[1]) THEN [ok |-> TRUE, header |-> NoHeader]
        ELSE IF at[2] = 0 THEN [ok |-> TRUE, header |-> at[1]] ELSE Back[<<Parent[at[1]], at[2] - 1>>]
  IN Back[<<h, n>>]

\* A slip the checks must notice: the finalized header is not passed over.
FirstHeader(h) == DOMAIN index[Height[h]]

\* what is left of a list without some of its elements
Without(list, S) ==
  LET left[n \in 0..Len(list)] ==
        IF n = 0 THEN <<>>
        ELSE IF list[n] \in S THEN left[n - 1] ELSE Append(left[n - 1], list[n])
  IN left[Len(list)]

\* BlockHeaderStoreCacheElement.finalize: the first header that is not the finalized one
\* goes, and removeIndex throws after it removed it
FirstSibling(h) == {k \in DOMAIN index[Height[h]] : index[Height[h]][k] # h}
Dropped(h) == IF FirstSibling(h) = {} THEN {} ELSE {index[Height[h]][Min(FirstSibling(h))]}

-----------------------------------------------------------------------------
(* The accounts.  A result is an account and whether nothing was thrown.   *)

Fine(a) == [acc |-> a, ok |-> TRUE]
Thrown(a) == [acc |-> a, ok |-> FALSE]
Then(r, Op(_)) == IF r.ok THEN Op(r.acc) ELSE r

\* a loop over transactions, left by the first that throws
Loop(Op(_, _), a, list) ==
  LET run[n \in 0..Len(list)] ==
        IF n = 0 THEN Fine(a)
        ELSE IF run[n - 1].ok THEN Op(run[n - 1].acc, list[n]) ELSE run[n - 1]
  IN run[Len(list)]

\* ManagedUtxoCache.addUtxo: the record is in the list when getUtxoId throws
WithCoin(a, t) ==
  LET listed == [a EXCEPT !.list = Append(@, t)]
  IN IF broken[t] = "id" THEN Thrown(listed) ELSE Fine([listed EXCEPT !.map = @ \cup {t}])

\* A slip the checks must notice: the record stays in the list.
WithoutKey(a, t) == Fine([a EXCEPT !.map = @ \ {t}])

\* ManagedUtxoCache.removeUtxo: the first record of the coin goes
WithoutCoin(a, t) ==
  IF t \notin a.map THEN Fine(a)
  ELSE Fine([a EXCEPT !.map = @ \ {t}, !.list = RemoveFirst(@, t)])

\* ManagementTransactionsHistory.addTransaction
WithHistory(a, t) == IF broken[t] = "copy" THEN Thrown(a) ELSE Fine([a EXCEPT !.history = Append(@, t)])

\* A slip the checks must notice: a known transaction is added again.
NeverKnown(a, t) == FALSE

Known(a, t) == t \in Range(a.history)

\* ManagementAccount.addTransaction
AddTransaction(a, t) ==
  LET spent == Range(Spends[t]) \cap a.map
      left == Loop(WithoutCoin, a, Spends[t]).acc
      paid == IF t \in Owned THEN WithCoin(left, t) ELSE Fine(left)
  IN IF Known(a, t) THEN Fine(a)
     ELSE IF broken[t] = "address" THEN Thrown(left)
     ELSE IF paid.ok /\ (spent # {} \/ t \in Owned) THEN WithHistory(paid.acc, t)
     ELSE paid

\* checkFilteredUxtoRef(ma) || checkFilteredAddress(waccount), then addTransaction
AddFiltered(a, t) ==
  IF Range(Spends[t]) \cap a.map # {} THEN AddTransaction(a, t)
  ELSE IF broken[t] = "address" THEN Thrown(a)
  ELSE IF t \in Owned THEN AddTransaction(a, t) ELSE Fine(a)

\* A slip the checks must notice: the history is not imported.
ImportedCoins(other) == Loop(WithCoin, Blank, other.list)

\* reset and importOtherAccount: the history, then the records
Imported(other) == Loop(WithCoin, [Blank EXCEPT !.history = other.history], other.list)

\* WalletMemoryPoolScanner over the pool, without what the account below has
PoolOn(below, ids) ==
  Then(Imported(below), LAMBDA a : Loop(AddTransaction, a, Without(ids, Range(below.history))))

\* ___buildFinalizedManagementAccount, on top of what the account has
BuiltFinalized == IF works.wallet THEN Loop(AddFiltered, account["finalized"], settled) ELSE Fine(account["finalized"])

\* __buildManagementAccount4Header: a header without a group is null, and throws
HeadOn(a) ==
  IF ~works.wallet THEN Fine(a)
  ELSE IF groups[head] = NoGroup THEN Thrown(a) ELSE Loop(AddFiltered, a, groups[head])

\* __buildUnfinalizedAccount: the only block of the head counts until one is finalized
BuiltUnfinalized(below) ==
  Then(Imported(below), LAMBDA a : IF head = NoHeader THEN Thrown(a)
                                   ELSE IF finalizedHeight = 0 THEN HeadOn(a) ELSE Fine(a))

-----------------------------------------------------------------------------
TypeOK ==
  /\ scenario \in Scenarios
  /\ sections \subseteq Heights /\ dropped \subseteq Headers /\ missed \subseteq Headers
  /\ DOMAIN index = Heights /\ \A n \in Heights : Range(index[n]) \subseteq {h \in Headers : Height[h] = n}
  /\ DOMAIN groups = Headers /\ \A h \in Headers : groups[h] = NoGroup \/ Range(groups[h]) \subseteq Trxs
  /\ stored \subseteq Trxs /\ failed \subseteq Trxs /\ IsInjective(order) /\ Range(order) \subseteq Trxs
  /\ DOMAIN account = Layers
  /\ \A l \in Layers : /\ DOMAIN account[l] = {"history", "list", "map"} /\ account[l].map \subseteq Owned
                       /\ IsInjective(account[l].history) /\ Range(account[l].history) \subseteq Trxs
                       /\ Range(account[l].list) \subseteq Owned
  /\ head \in Headers \cup {NoHeader} /\ finalizedHeight \in Nat
  /\ Walking => walk \in [id : Headers, height : Heights, target : Headers] /\ Height[walk.id] = walk.height
  /\ last \in [method : {"build", "mempool", "other"}, ok : BOOLEAN]

\* The constructor, createBlankData and, where the wallet works, openHdWallet.  As the code
\* stands none of the methods that may throw works.
Init ==
  /\ scenario \in Scenarios
  /\ sections = {} /\ index = [n \in Heights |-> <<>>] /\ dropped = {} /\ missed = {}
  /\ groups = [h \in Headers |-> NoGroup]
  /\ stored = {} /\ order = <<>> /\ failed = {}
  /\ account = [l \in Layers |-> Blank] /\ head = NoHeader /\ finalizedHeight = 0
  /\ walk = NotWalking /\ last = [method |-> "other", ok |-> TRUE]

\* BlockHeaderStoreManager.addHeader, which makes the section.  Nobody asks for the header before it.
StoreHeader(h) ==
  /\ ~Walking /\ ~Listed(h)
  /\ sections' = sections \cup {Height[h]} /\ index' = WithHeader(h)
  /\ dropped' = dropped \ {h} /\ missed' = MissedWith(h)
  /\ Ended(TRUE)
  /\ UNCHANGED <<scenario, groups, pool, account, head, finalizedHeight, walk>>

\* HeaderTransactionGroup.join of what is stored and what comes
Joined(old, new) == IF old = NoGroup THEN new ELSE old \o Without(new, Range(old))

GroupKept(list) == works.groups /\ \A t \in Range(list) : broken[t] # "copy"

\* addHeader: reading a section that does not exist throws, so does a header that cannot be loaded
AddHeader(h, list) ==
  /\ ~Walking
  /\ \/ ~CanRead(Height[h]) /\ UNCHANGED <<index, dropped, missed, groups>> /\ Ended(FALSE)
     \/ /\ CanRead(Height[h])
        /\ index' = IF Listed(h) THEN index ELSE WithHeader(h)
        /\ dropped' = dropped \ {h} /\ missed' = IF Listed(h) THEN missed ELSE MissedWith(h)
        /\ groups' = IF GroupKept(list) THEN [groups EXCEPT ![h] = Joined(@, list)] ELSE groups
        /\ Ended(GroupKept(list))
  /\ UNCHANGED <<scenario, sections, pool, account, head, finalizedHeight, walk>>

\* WalletTransactionIdListData.join under the timestamp
InOrder(ids, t) ==
  IF t \in Range(ids) THEN ids
  ELSE LET later == {u \in Trxs : Timestamp[u] > Timestamp[t]}
       IN Without(ids, later) \o <<t>> \o Without(ids, Trxs \ later)

\* putTransaction: both writes, the first only, or none
PutTransaction(t) ==
  \/ stored' = stored \cup {t} /\ order' = InOrder(order, t) /\ UNCHANGED failed
  \/ stored' = stored \cup {t} /\ order' = order /\ failed' = failed \cup {t}
  \/ UNCHANGED <<stored, order>> /\ failed' = failed \cup {t}

\* __addTransactionDataToMempool
AddTransactionDataToMempool(t) ==
  /\ ~Walking
  /\ \/ t \in stored /\ UNCHANGED <<pool, account>> /\ Ended(TRUE)
     \/ /\ t \notin stored /\ PutTransaction(t)
        /\ IF t \notin stored' \/ t \notin Range(order')
           THEN UNCHANGED account /\ Ended(FALSE)
           ELSE LET built == IF works.wallet THEN PoolOn(account["unfinalized"], order') ELSE Fine(Blank)
                IN account' = [account EXCEPT !["mempool"] = built.acc] /\ last' = [method |-> "mempool", ok |-> built.ok]
  /\ UNCHANGED <<scenario, headerStore, groups, head, finalizedHeight, walk>>

\* updateHeadDetection: a child is looked for in the section of its parent and never found, so
\* that a head is one block at the first height, whichever the detector selects.  An odd number
\* of heads, but for one, cannot be sorted (see HeadDetector): that throws with no head selected.
Unsortable(heads) == Len(heads) > 1 /\ Len(heads) % 2 = 1
UpdateHeadDetection ==
  /\ ~Walking
  /\ \/ (~CanRead(1) \/ index[1] = <<>> \/ Unsortable(index[1])) /\ head' = NoHeader /\ Ended(FALSE)
     \/ CanRead(1) /\ ~Unsortable(index[1]) /\ head' \in Range(index[1]) /\ Ended(TRUE)
  /\ UNCHANGED <<scenario, headerStore, groups, pool, account, finalizedHeight, walk>>

\* buildManagementAccount: each account is left as it was when the one below it throws
BuildManagementAccount(buildFinalized) ==
  LET f == IF buildFinalized THEN BuiltFinalized ELSE Fine(account["finalized"])
      u == IF f.ok THEN BuiltUnfinalized(f.acc) ELSE Thrown(account["unfinalized"])
      m == IF u.ok /\ works.wallet THEN PoolOn(u.acc, order) ELSE [acc |-> account["mempool"], ok |-> u.ok]
  IN /\ ~Walking /\ Len(account["finalized"].list) < MaxList
     /\ account' = [finalized |-> f.acc, unfinalized |-> u.acc, mempool |-> m.acc]
     /\ last' = [method |-> "build", ok |-> m.ok]
     /\ UNCHANGED <<scenario, headerStore, groups, pool, head, finalizedHeight, walk>>

ResetManagementAccounts ==
  /\ ~Walking /\ account' = [l \in Layers |-> Blank] /\ Ended(TRUE)
  /\ UNCHANGED <<scenario, headerStore, groups, pool, head, finalizedHeight, walk>>

\* __doFinalize up to the walk
StartFinalize(h) ==
  LET found == Before(h, BeforeHeight)
  IN IF Height[h] - BeforeHeight > finalizedHeight /\ found.header # NoHeader
     THEN /\ walk' = [id |-> found.header, height |-> Height[h] - BeforeHeight, target |-> found.header]
          /\ Ended(TRUE)
     ELSE UNCHANGED walk /\ Ended(found.ok \/ Height[h] - BeforeHeight <= finalizedHeight)

DoFinalize(h) ==
  /\ ~Walking /\ StartFinalize(h)
  /\ UNCHANGED <<scenario, headerStore, groups, pool, account, head, finalizedHeight>>

\* checkAndFinalizing: the block of the head, if its votes finalize
CheckAndFinalizing ==
  /\ ~Walking
  /\ \/ head = NoHeader /\ UNCHANGED walk /\ Ended(FALSE)
     \/ head # NoHeader /\ Height[head] > finalizedHeight /\ StartFinalize(head)
     \/ head # NoHeader /\ UNCHANGED walk /\ Ended(TRUE)
  /\ UNCHANGED <<scenario, headerStore, groups, pool, account, head, finalizedHeight>>

\* A slip the checks must notice: the walk forgets to go on to the parent.
UpHeightOnly(w) == [w EXCEPT !.height = @ - 1]

Up(w) == [w EXCEPT !.id = Parent[w.id], !.height = @ - 1]

Lowest == finalizedHeight + 1

\* one turn of the loop of __updateFinalizedData that finds the header; the list it is set into
\* stays empty, as setElement does not let it grow
WalkStep ==
  /\ Walking /\ walk.height > Lowest /\ CanRead(walk.height) /\ walk.id \in Range(index[walk.height])
  /\ walk' = Up(walk)
  /\ UNCHANGED <<scenario, headerStore, groups, pool, account, head, finalizedHeight, last>>

\* the last turn; nothing is imported into the wallet and __finalizeHeaderStore throws, whether
\* or not there was a sibling to remove, so that finalizedHeight is not set
EndWalk ==
  /\ Walking /\ walk.height <= Lowest /\ CanRead(walk.height) /\ walk.id \in Range(index[walk.height])
  /\ LET gone == Dropped(walk.target)
     IN /\ dropped' = dropped \cup gone
        /\ index' = [index EXCEPT ![Height[walk.target]] = Without(@, gone)]
  /\ walk' = NotWalking /\ Ended(FALSE)
  /\ UNCHANGED <<scenario, sections, missed, groups, pool, account, head, finalizedHeight>>

\* a turn that comes to a height at which nothing was ever stored
WalkThrows ==
  /\ Walking /\ ~CanRead(walk.height) /\ walk' = NotWalking /\ Ended(FALSE)
  /\ UNCHANGED <<scenario, headerStore, groups, pool, account, head, finalizedHeight>>

\* a header that is not found is looked for again, for ever
Spins == Walking /\ CanRead(walk.height) /\ walk.id \notin Range(index[walk.height])
Spin == Spins /\ UNCHANGED vars

Next ==
  \/ \E h \in scenario.headers : StoreHeader(h) \/ DoFinalize(h)
  \/ \E h \in scenario.sent : \E list \in {<<>>, Body[h]} : AddHeader(h, list)
  \/ \E t \in scenario.trxs : AddTransactionDataToMempool(t)
  \/ UpdateHeadDetection \/ ResetManagementAccounts \/ CheckAndFinalizing
  \/ \E f \in BOOLEAN : BuildManagementAccount(f)
  \/ WalkStep \/ EndWalk \/ WalkThrows \/ Spin

Spec == Init /\ [][Next]_vars

-----------------------------------------------------------------------------
(* What must hold.                                                         *)

Occurrences(list, t) == Cardinality({k \in DOMAIN list : list[k] = t})
Place(list, t) == CHOOSE k \in DOMAIN list : list[k] = t

\* __updateFinalizedData spins only at a gap: a finalization that failed before took the header it
\* looks for out of the index, or the header was not there when the one after it was stored, as
\* after an addHeader that threw, and has not come since.  Without a gap every walk comes to the
\* last finalized height.
SpinsAtGapsOnly == Spins => walk.id \in dropped \cup missed

\* A finalization takes at most one header out of the index, at the height it finalizes and
\* never the one it finalizes; nothing else takes a header out of the index.
OnlySiblingsRemoved ==
  [][\A n \in Heights :
       LET gone == Range(index[n]) \ Range(index'[n])
       IN gone # {} => /\ Walking /\ n = Height[walk.target]
                       /\ Cardinality(gone) = 1 /\ walk.target \notin gone]_vars

\* The list of coins of an account and the map by which they are found hold the same coins, each
\* once, except where a transaction's own calls threw between the two.
CacheListIsMap ==
  \A l \in Layers : \A t \in Owned :
    /\ t \in account[l].map => Occurrences(account[l].list, t) >= 1
    /\ broken[t] \in {"none", "address"} => Occurrences(account[l].list, t) = IF t \in account[l].map THEN 1 ELSE 0

\* A coin that a transaction of the account's history spends is offered only where the spender
\* came first (the pool is read by timestamps the senders chose) or the coin's own calls threw.
SpentNotOffered ==
  \A l \in Layers : LET a == account[l]
    IN \A t \in Range(a.list) : \A s \in Range(a.history) :
         t \in Range(Spends[s]) /\ broken[t] = "none" => t \in Range(a.history) /\ Place(a.history, t) > Place(a.history, s)

\* After buildManagementAccount each account knows what the one below it knows; after a
\* transaction was added to the pool the same holds of the pool's account, which knows every
\* payment to the wallet that waits in the pool.
Layered ==
  LET known(l) == Range(account[l].history)
  IN works.wallet /\ last.ok =>
       /\ last.method = "build" => known("finalized") \subseteq known("unfinalized")
       /\ last.method \in {"build", "mempool"} =>
            known("unfinalized") \cup (Range(order) \cap Owned) \subseteq known("mempool")

\* Every id in the order index has its transaction, so that the scan of the pool never throws;
\* a transaction without a place in the order, which no scan finds and which is never put
\* again, is one whose putTransaction failed.
PoolOrdered == Range(order) \subseteq stored /\ stored \ Range(order) \subseteq failed

\* What is kept twice agrees, unless a method that may throw threw between the two writes.
StoresConsistent == TypeOK /\ CacheListIsMap /\ PoolOrdered
=============================================================================
