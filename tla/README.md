# Models and proofs of codablecash-jslib

codablecash-jslib is the TypeScript client library of the Codablecash
blockchain: a small database (paged files, a block store, a B-tree), the wallet
on top of it, block headers with votes and finalization, and the cryptography
and message records of the protocol.  It has no documentation of its own; what
follows is read from `src/src`, and the tests in `src/src/__test__` are what the
repository says of its behaviour.

## The system

| Part | Directory | State | Operations | What makes it correct |
| --- | --- | --- | --- | --- |
| Random access files | `db/random_access_file`, `db/osenv` | per file: segment index, dirty flags, eviction list, size, descriptor position; shared: LRU list and byte count of `DiskCacheManager` | open, setLength, read, write, sync, close | reads return the last write; only unsynced writes are lost |
| Free range list | `db/filestore` | ordered list of ranges | addRange, removeRange, toBinary, fromBinary | the list is the set of its numbers, in its shortest form |
| Block store | `db/filestore_variable_block` | free units and their number (header file), chains of blocks (body file) | alloc, get, write, removeBlocks, extendFile, sync, open, close | every unit has one owner; objects read back |
| B-tree | `db/btree`, `db/btreekey`, `db/btree_cache` | nodes in a block store, root position, LRU cache of nodes | insert, putData, remove, find, scan | it is an ordered map |
| Records | `blockchain/**`, `base`, `db/btreekey`, `blockchain_p2p` | fields of the message and data classes | binarySize, toBinary, fromBinary, copyData, build | what is measured is written, what is written is read back, ids survive |
| Wallet network data | `blockchain/bc_wallet_net_data*` | headers, transaction groups, mempool (two trees); finalized, unfinalized and mempool accounts with UTXO caches | addHeader, addTransactionDataToMempool, updateHeadDetection, buildManagementAccount, checkAndFinalizing | spent coins are not offered; each account knows what the one below it knows |
| Wallet accounts | `blockchain/bc_wallet*` | change addresses, status file, UTXO repository (two trees) | getNextChangeAddress, save, load, importTransaction | an address handed out can be signed for later; payments are found |
| Transaction building | `blockchain/bc_wallet_trx*` | inputs, outputs, fee, cursor of a collector | createTransaction, collectUtxoRefs, createFeeIncludedTransaction | inputs = outputs + fee; the fee is rate times size |
| Head detection | `blockchain/bc_status_cache` | branches of block headers with scores of votes | buildHeads, handleVotes, evaluate | a head for every branch, votes counted once, the longest wins |
| Header store | `blockchain/bc_blockstore_header` | sections of headers, their cache, height index | addHeader, getHeader, getNBlocksBefore, finalize | finalization removes siblings only |
| Merkle tree | `blockchain/merkletree` | layers of hashes | pack, makeCertificate, verify | certificates verify |
| MuSig and cryptography | `base` | signers' keys and nonces | sign, aggregate, verify | |
| Peer-to-peer | `blockchain_p2p` | one connection, request records | send, receive | |

The parts are stacked.  A wallet account keeps its coins in B-trees, a B-tree
keeps its nodes in a block store, a block store keeps its header and body in two
random access files, and all the files of the process share one page cache.
`NetworkWalletData` ties header store, head detection, mempool and accounts
together: a header or a transaction that arrives changes several of them in one
synchronous call.  A wallet account offers its change addresses and its coins to
the transaction builder, and what is built and mined comes back to it through
`importTransaction`.

What is hard here is not parallelism (a call runs to its end; only
`SysMutex` and the peer connection are asynchronous) but long sequences of
legal calls over layered state: evicted pages that are still dirty, freed ranges
that must merge, objects that move while they grow, nodes that split and
collapse, branches that overtake each other, layouts described three times in
three methods, and calls that change several stores one after the other and may
fail or die in between.

### Unfinished code

Much of the blockchain layer is unfinished: methods such as
`BalanceUtxo.toBinary()`, `BalanceUtxo.getAddress()`, `BinaryValue...toBinary()` or
`BalanceTransferTransaction.sign()` always throw (a null guard whose `return` is
missing), and `BlockHeaderStoreCacheElement.removeIndex` throws after its work.
Taken literally, most calls of the upper layers end in their first such method, and
nothing would be left to check of the control around them.  The modules above the
database therefore keep both: the program as it stands is always one of the checked
behaviours, and beside it the same control runs with those methods doing what they
are declared to do.  How a module says so:

* `RecordStreams`: mode `"code"` stops at the throw, mode `"whole"` passes over it;
* `TransactionBuilder`: `Throw` may end a call at every step that contains such a
  method, or not;
* `NetworkWallet`: `scenario.works` says whether headers load, groups are stored and
  the wallet opens, `scenario.broken` which method of each transaction throws; one of
  the scenarios is the code as it stands (`NoneWorks`);
* `WalletAccount`: `scenario.shorts`, `.binaries`, `.utxos` and `.imports` (whether
  `importTransaction` calls the handler it makes), all `FALSE` as the code stands.

A property therefore never holds only because the code always fails before it
matters, nor only because a failure was left out.

## Modules

| Module | Models | Composition |
| --- | --- | --- |
| `PagedFile`, `RandomAccessFile` | the file layer and its promise | |
| `LongRanges`, `LongRangeList` | `db/filestore` | `LongRanges` has what `LongRangeList` and `VariableBlockStore` say of one range |
| `BlockStore`, `VariableBlockStore` | the block store and its promise | |
| `OrderedMap`, `Btree` | the tree and its promise | |
| `RecordFields`, `Records`, `RecordStreams` | the binary forms of about eighty classes | `RecordStreams` takes the table that `MCRecordStreams` makes of `Records` |
| `ArrayLists`, `HeadDetector` | `ArrayList.sort`, `bc_status_cache` | `HeadDetector` instantiates `ArrayLists` |
| `AddressStores`, `TransactionBuilder` | change addresses in memory, `bc_wallet_trx` | `TransactionBuilder` extends `AddressStores` |
| `NetworkWallet` | `bc_wallet_net_data*`, `bc_blockstore_header` | |
| `ChangeAddresses`, `UtxoRepository`, `WalletAccount` | the status file, the two trees of coins, the account | each extends the one before; `ChangeAddresses` extends `AddressStores` |
| `Sums` | sums of amounts and sizes | extended by `VariableBlockStore` and `TransactionBuilder` |
| `MC...` | instances for TLC | each extends the module it is named after |
| `BtreeTrees` | nothing of the code: what the proofs about `Btree` speak of | extends `Btree` |
| `..._proofs`, `DataLemmas` | theorems, see "Proofs" | each extends its module (`FileStore_proofs` two of them) and, where it needs lists or loops, `DataLemmas` |

The layers are joined by their promises: what a wallet module says of a tree is
what `OrderedMap` promises (and `Btree` is shown to keep), what `Btree` says of a block
is what `BlockStore` promises, what `VariableBlockStore` says of a file is what
`PagedFile` promises.

### Random access files: `RandomAccessFile`, `PagedFile`

`PagedFile` is what the file layer promises: files as arrays of pages, reads
that return the last write, growth by zero pages, and a crash that leaves in each
page the value last synced or one written since (`pending`).  No segment or
cache is visible.

`RandomAccessFile` is the code.  `buffer`, `dirty` and `removeList` are
`MMapSegments` and its `MMapSegment`s, `lru` and `cacheSize` the
`DiskCacheManager` all files share, `disk` and `diskLen` what the operating
system has, `position` the descriptor's position.  Each iteration of the loops of
`read()` and `write()` is a step (`ReadStep`, `WriteCheck`, `WriteCopy`), so
that a crash can fall between two of them.  `GetSegment` is
`MMapSegments.getSegment` with the use its caller makes of the segment: it drops
evicted segments first, then hits or loads, and a load may evict the last segment
of any file, which stays in its owner's memory until the owner's next call.
`Resize` is `setLength` with `onResized`, including the seek of
`Os.seekFile` that never reaches the end of the file.  Pages stand for the unit
in which transfers are made; a write changes whole pages.

`ImplementsPagedFile` maps `content` to what a read would see (`View`: memory
first, then disk).  It holds under the environment assumption `GrowthAtEnd`
(files only grow while their descriptor is at their end); what happens without it
is under "Disagreements found".

### Free range list: `LongRangeList`

A pure algorithm, written as operators over sequences of ranges: binary search
(`BinarySearch`, `Nearest`), `AddRange` with its four ways to join, `RemoveRange`
with splitting and trimming, `Reloaded` for the binary form.  Its reference is the
set of numbers in the list: the module's properties compare every result with
union and difference, from every reachable list and for every argument.
`RemoveInside` is the way `VariableBlockHeader` calls `removeRange`: with a part
of one listed range.

### Block store: `VariableBlockStore`, `BlockStore`

`BlockStore` is the promise: objects found at their position until they are
removed, with the length and content last written.

`VariableBlockStore` is the code: `available` and `numBlocks` are
`VariableBlockHeader`'s, `saved` the header file, `disk` the body file by units,
`handles` the objects the clients know, `call` the allocation that is running.
The free list appears as the set it implements, which `LongRangeList` checks;
`removed` is the range that `ArrayList.get(0)` goes on returning after the last
one was removed.  `TakeFragment` is one turn of the loops of `alloc` and
`realloc`; `Begin` is the extension of the file before them; `BeginRewrite` is a
`write()` that frees its object's blocks, syncs, and allocates again at the same
position; `FinishAlloc` and `FinishRewrite` write the chain back.
`KeepFirst` keeps the object at position 0, as the root header of a B-tree is
kept; `EnoughRoom` restricts calls to what the free ranges and one
extension can give.  What happens without them is under "Disagreements found".

### B-tree: `Btree`, `OrderedMap`

`OrderedMap` is the promise: a map, and scanners that visit its keys in order
from where `begin(key)` says.  `Btree` is the code.  `nodes` are the tree nodes by
their block, `rootFpos` is `BtreeStorage`'s, `header` the root position in the
header block, `scan` the scanner a caller is using: its cursor's stack of
`NodePosition`s, each with the place of the child to go to next, and the entry it
gave last.  `PutData` is a whole `putData`: down the path, then `AddTo` for each
node from the leaf up, splitting the full ones (`Split`) and making a new root
(`NewRoot`).  `RemoveKey` is a whole `remove`: the entry goes, empty nodes are
taken off from the leaf up (`RemoveUp`), a node that becomes the last of its
siblings takes over the key of the one that went (`SetKey`, down to its leaf), and
roots with a single child are replaced by it (`Collapsed`).  Each `hasNext` of a
scan is a step.

The loops of a call are recursive functions.  `Added` and `Removed` are what is left
after each turn on the way up the path, `Collapsed` follows the only children down,
`GetNext` and `GetPrevious` are the loops of the cursors over their stacks, one
stack per turn.  `NoNode`, a node with key 0, is in the blocks that no node uses.

Left out: the data node and the data block of an entry (an entry stands for
both), and evictions from `NodeCache`.  Memory and disk differ only in the root
flag that `setRoot` leaves unsaved (`saved` is the one on disk), and only in the
root, which every call touches; `BtreeOpenConfig` gives the cache room for
hundreds of nodes, so the root is never the one evicted.  Nothing in the
library changes a tree while it scans it, and every loop over a scanner ends when
`hasNext` is false, so the model's clients do the same.  What the code reads in a
block that was freed is not modelled: such a node cannot be loaded.
There are two more environment assumptions: `SafeReopen` (the tree is not closed
while header and root flag are unwritten; `Btree_reopen` shows what happens without
it) and `KnownStart` (scans begin at a key that is in the tree, or at none).  A reverse
scan needs `KnownStart` even in a tree from which nothing was removed, for the
same reason (`gotoKeyPrevious` looks in one leaf); no test speaks of it.

### Records: `RecordFields`, `Records`, `RecordStreams`

`RecordFields` is a vocabulary: a class has the fields that `binarySize()` counts, that
`toBinary()` puts and that `fromBinary()` takes, which the code writes down in three
methods (and, for ids, in a fourth, `build()`).  A field is a number of a width,
bytes with their length, a type tag, a record, one of several records told apart by
a factory, a list with a count of a width, or an optional part.  `Records` gives
each class: one definition per class, with every way in which its methods differ from
each other (`SchnorrSignature` writes `e` twice, `BlockMerkleRoot` reads without the
length, and so on).  `RecordStreams` is the machine: a record is built
(`Build`), measured (`MeasureRecord`), written (`Write`), read (`ReadBack`) or copied
(`Copy`), and any step may throw.  A buffer is a sequence of cells, one per call of
a put method; a get of another width than the cell's loses the reader.  `Init` ranges
over every class and, for each, lists of 0 to 3 elements at each level, optional parts
there or missing, bytes below and above 127, and every class a factory knows.  The
classes whose methods contradict each other are named in the properties that leave
them out.

### Head detection: `ArrayLists`, `HeadDetector`

`parent` is the tree of headers above the finalized one, `votes` what their vote parts
hold, `stack` the `BlockStack`, `heads` the `BlockHead`s, `cache` the scores that
`HeadBlockDetectorCache` keeps of blocks several heads share, `at` the head and the
element `evaluate` has come to.  One turn of the loop of `buildHeads` is a step
(`Walk`), one element of `evaluate` is a step (`EvaluateElement`), and so are the
sort and the choice (`SelectChain`).  The MEV scores, which nothing ever sets, are
left out.  `ArrayLists` is the heap sort of `ArrayList.sort`, element by
element, with the fractional indexes its first loop runs over for odd lengths.

### Building transactions: `AddressStores`, `TransactionBuilder`

`AddressStores` is `ChangeAddressStore` in memory as operators on a record: the cursor
that rotates through the group, the serials from which key pairs are derived.  A call of
`getNextChangeAddress` may throw at three places, each with its own store left behind
(`AfterThrow`): when no key pair can be made the serial is already raised and lost
(`SerialLost`), when the save fails the address is listed, and when the cursor stands behind
a list that lacks an address the cursor moves all the same.
`TransactionBuilder` has one action per start of the four kinds of call
(`StartTransfer`, `StartIncluded`, `StartTicket`, `StartPool`) and one per turn of the loop of
`collectUtxoRefs` (`CollectTransfer`, `CollectTicket`, `CollectPool`) or of
`createFeeIncludedTransaction` (`CollectIncluded`), `EndOfLoop`, and the last build
(`Finish`, `FinishIncluded`).  `collector` is the cursor of the two collectors, of which
one moves at `next()` and the other at `hasNext()`.  The change addresses live through
several calls, also those that throw.

### Wallet network data: `NetworkWallet`

`sections` and `index` are the header store and its height index, `groups` the
`TransactionGroupDataStore`, `stored` and `order` the two trees of `WalletMemoryPool`,
`account` the three `ManagementAccount`s with history, list and map of coins, `head` the
detector's selection, `walk` the loop of `__updateFinalizedData`.  Each public method is
one action (`StoreHeader`, `AddHeader`, `AddTransactionDataToMempool`,
`UpdateHeadDetection`, `BuildManagementAccount`, `ResetManagementAccounts`, `DoFinalize`,
`CheckAndFinalizing`), with the partial effects it has when a call inside throws;
only the walk, which need not end, takes a step per header.  `putTransaction`
may fail before, between or after its two writes.  Headers come in any order: the code
asks nothing about the header before one that is stored, and an `addHeader` that throws
for a missing section leaves a gap when the next header is stored.  The history variable
`missed` has the headers that were not there when the one after them was stored and have
not come since.  The walk ends (`EndWalk`), throws at a height without a section
(`WalkThrows`), or looks for the same header for ever (`Spin`).

### The account: `ChangeAddresses`, `UtxoRepository`, `WalletAccount`

`ChangeAddresses` puts `AddressStores` on disk: `file` is the status file, `map` the
process' `StatusStore.map`, and a save or a load is one step per value, each of them
a rewrite of the file, between which the process may die (`Crash`) and each of which
may fail.  `UtxoRepository` has the coins in two trees, `byAddress` and `byId`, and the
import of a transaction as steps that write one of them: `SpendCoin` and `ForgetCoin` for a
coin it refers to, `AddCoin` and `IndexCoin` for its output, `StoreTransaction` at the end.
`WalletAccount` composes them.  Its `ImportTransaction` is what
`WalletAccount.ts:161-203` does: it makes a handler and returns, and nothing changes,
unless `scenario.imports` says that it calls the handler's import as well.  An import
keeps an output only if `hasAddress` finds its address among those the store derived
again from the file, so that a lost serial is a lost payment.

## Runs

| Run | What it asks | Bounds |
| --- | --- | --- |
| `RandomAccessFile_one` | does the file layer implement the paged file, lose only unsynced writes, and return from every call | 1 file, 4 pages in segments of 2, cache of one segment, calls of 2 pages, 2 values |
| `RandomAccessFile_shared` | do two files that evict each other's segments keep the cache and the indexes in step | 2 files, 2 pages each in segments of 1, cache of 2 pages |
| `LongRangeList` | is the list the set of its numbers | numbers 0..8: every list of up to five ranges |
| `VariableBlockStore` | does every unit have one owner, does every object read back as written | units of 16 bytes, 3 units that grow to 5, objects of 6, 12 and 30 bytes |
| `VariableBlockStore_overflow` | does a failed write share units or never end | used field that overflows above 20 bytes |
| `Btree` | is the tree an ordered map, well formed, and is every block in use part of it | 4 keys, 2 values, 2 children per node, 11 tree nodes |
| `Btree_reopen` | violation: entries survive closing after the root collapsed | 4 keys, 2 children per node, 8 tree nodes |
| `RecordStreams` | does every class measure, write, read and copy the same thing | lists of 0..3 elements, counts of up to 2 in a byte |
| `HeadDetector` | is there a head for every branch, are votes counted once, does the longest branch win, does it end | trees of up to 5 headers, up to one vote per header and distance, from height 1 and 2 |
| `TransactionBuilder` | do inputs, outputs, change and fee balance, is every coin taken in turn, does change rotate | up to 3 coins of two amounts, 0..2 destinations, two fee rates, group of 2 addresses, four calls |
| `NetworkWallet` | do the accounts offer what is unspent, do the stores agree, when does the finalization spin | 6 headers in three branches, 3 transactions, `Scenarios`, `BeforeHeight` 1, at most two coins in the finalized account |
| `WalletAccount` | does an address that was handed out survive, does a handler's import find payments, do the two trees agree | group of 2 addresses, 3 transactions, 2 crashes, 2 failing writes |

Several invariants that say that one state is consistent are checked as one
definition, of which the parts are named in the module: `CacheConsistent`,
`StoreConsistent`, `WellFormed`, `ScoresAreVotes`, `BooksBalance`, `EveryCoinInTurn`,
`StoresConsistent`, `AccountConsistent`.

What the properties say of the upper layers:

* `RecordStreams`: `SizeIsExact` (a buffer of `binarySize()` bytes is filled to the last),
  `ReadRestores`, `IdSurvives` (the id that is rebuilt after reading is the one that was
  computed), `CopyIsSame`.
* `HeadDetector`: `HeadsAreTheBranches` (one head for every leaf, none twice),
  `ScoresAreVotes`, `LongestWins`, `DetectionEnds`.
* `TransactionBuilder`: `BooksBalance` (nothing created, nothing lost but in the cases
  named below, fee equal to rate times final size), `EveryCoinInTurn` (shortage only
  with all coins used), `DestinationsPaid`, `ChangeRotates` (two change addresses in a row
  differ; once a serial was lost only the first address may follow itself), `CallsEnd`.
* `NetworkWallet`: `StoresConsistent`, `SpinsAtGapsOnly` (the walk never ends only at a
  gap: where a finalization that failed took a header away, or where a header was missing
  when the one after it was stored), `SpentNotOffered`, `Layered`, `OnlySiblingsRemoved`.
* `WalletAccount`: `AccountConsistent`, `AddressesRecovered`, `SpentStaysSpent`,
  `SettingsKept`, `PaymentsFound`.  Those that speak of imports speak of the handlers':
  they say what an account would have if `importTransaction` called them.

Why the bounds are enough.  A file of four pages in two segments has a full and
a partial last segment, transfers that span segments, and a cache that is full
after one; two files with one-page segments reach every order of loads, hits and
evictions of four segments.  Nine numbers hold five ranges, more than any
decision of the list looks at (the two ranges around a bound).  Five units allow
three fragments, chains of three blocks, and extension of the file; sizes of 6,
12 and 30 bytes fill one unit exactly, and part of the second and third, so that
`needRealloc` decides both ways.  Four keys in
nodes of two children make trees of three levels, in which inner nodes split,
empty and collapse, roots collapse twice in one removal, and a key is set down a
chain of last children; eleven tree nodes are more than these trees ever ask for,
so the run sees all of them.

A list of two or three elements is past the limit of 2 that a one-byte count
has in the run, a record of every class appears in every field that can hold it, and
nested lists get one element shorter per level, so that every loop runs no, one and
several times.  Trees of five headers have all shapes of up to five branches, with a
vote distance of two, and branches of equal and of different length; one vote per header
tells a vote that was counted from one that was not and from one counted
twice.  Three coins in two or three lists leave lists empty at the beginning, in the middle and
at the end; the amounts and rates reach exact payment, change above, at and below the
fee of its own output, and shortage.  Four calls are the shortest way to an address that
follows itself: one that is paid, one that loses the serial of the second address, one that
throws at the missing place, and one that is paid again; a group of two is the smallest that
rotates.  Two branches of two and three headers in any order of arrival, two of them also
through `addHeader`, let one branch drop a header of the other and leave gaps at every
height below the last; one more first block makes the number of heads odd; two first blocks with
a payment, its spender and the spender's spender arriving in block and pool in
different orders reach every order of spend and payment in each of the three accounts;
the larger product of both is split between the two kinds of scenario.  Two crashes and two failures
let one strike the recovery from the other; three transactions make a chain of spends
and a transaction with two inputs.

Fairness.  `FairSpec` (files and block store) makes the steps of a running call weakly
fair: JavaScript runs a synchronous call to its end unless the process dies, which
is what `EveryCallReturns` is about.  For the same reason `HeadDetector`, one
synchronous call, is fair as a whole and `TransactionBuilder` is fair in
`Continue`, the steps of a call that has begun.  No other action is fair: clients need
not call, headers need not arrive.  `NetworkWallet` and `WalletAccount` state no
fairness; that the walk of a finalization may never end is a safety property there
(`SpinsAtGapsOnly`), because the code does not terminate.

`RandomAccessFile_one` checks `ImplementsPagedFile` and `EveryCallReturns`
together because both speak of whole calls.  Deadlock is not checked where a system may
stop: the single call of `HeadDetector`, the single pass of `RecordStreams`, and the
bounded number of calls of `TransactionBuilder`.  All other runs check it.

## Disagreements found

In the database layer.  Each but the fifth was seen by a run of the module with one
environment assumption switched off, as given in brackets.

* `Os.seekFile` (`Os.ts:96`) assigns where it should compare, so `setLength` grows
  a file from the descriptor's position; `RandomAccessFile.ts:174` says "get the
  position of the last" (`RandomAccessFile_one.cfg` with `GrowthAtEnd = FALSE` and the
  property `GrowthKeepsContent`).
* `LongRangeList.needSplit` (`LongRangeList.ts:114`) takes out the first range
  when only the upper bound is held (`RemoveInside = FALSE`, `MaxNumber = 5`,
  `RemoveRangeIsDifference`).
* `getBlockList` (`VariableBlockFileStore.ts:263`) takes position 0 for the end of
  a chain (`KeepFirst = FALSE`, `ImplementsBlockStore`).
* `alloc` and `realloc` (`VariableBlockFileStore.ts:112`, `:160`) extend the file
  once, however much is missing, and then go on with the removed range that
  `ArrayList.get(0)` still returns (`EnoughRoom = FALSE`, `NothingShared`).
* `internalRemoveRoot` (`NodeCursor.ts:571`) changes the root in memory only and
  frees the block the header still names (run `Btree_reopen`).
* `gotoKey` (`NodeCursor.ts:265`) looks for the next greater key in one leaf, so that a
  scan that begins at an absent key may begin too early or too late;
  `test_btree_base.test.ts:164-183` begins one at 7 (`KnownStart = FALSE`,
  `MaxBlocks = 8`, `BeginFindsNext`).

In the records, as `Records` states them: writers that always throw
(`BalanceUtxo`, `TicketUtxo`, `TicketVotedUtxo`, the three UTXO references,
`SchnorrKeyPair`, `HeaderTransactionGroup`, `TransactionTransferData`,
`VoteBlockTransaction`, `BinaryValueConfigStoreValue`); `SchnorrSignature` writes `e` twice;
`InputUtxoCollection.ts:50` counts one byte with the comment `// sizeof(uint16_t)` and
writes two; `BlockMerkleRoot.fromBinary` reads no length; `VoteBlockTransaction.fromBinary`
puts its zone into the buffer instead of taking it out; `RegisterTicketTransaction` asks
for one UTXO more than it has; `BalanceUtxo.copyData` forgets id and nonce;
`BloomHash1024` puts bytes above 127 with a method that takes signed ones.

In the upper layers, as the modules state them (a property names each exception it
makes):

* `ArrayList.sort` throws for odd lengths from 3 on, so that three or five branches give
  no head; the cached votes of a block shared by several branches may be lower than
  those it got; `clone()` of an element takes the voted score for the voting one, and
  `compareToByVoted` compares one head's voted score with the other's voting score
  (`HeadDetector`).
* With two destinations and change the change overwrites the second destination; with
  none, a transfer with change throws; a change that the fee of its own output made
  negative is kept when the next input matches exactly; a payment that is affordable
  without change may end in `BalanceShortageException` (`TransactionBuilder`).
* `getNextChangeAddress` raises `addressSerial` before `createNewAddressAndPrivateKey`, which
  throws when there is no seed or it cannot be decoded (`ChangeAddressStore.ts:32`,
  `AbstractAddressStore.ts:89-106`).  From then on the serial is ahead of the list: calls
  whose cursor stands where an address is missing throw, with the cursor moved, and a group
  of two hands out its first address twice in a row.  `StoreOK` and `ChangeRotates` are
  stated for what is left (`HasLost`): no serial is listed twice or out of order, and no
  other address follows itself (`AddressStores`, `TransactionBuilder`, `ChangeAddresses`).
* The height of a section is divided but not rounded, so that children of a header are
  never found and a head is one block; `addHeader` of `NetworkWalletData` throws for a
  height whose section does not exist, and leaves the header out; nothing asks whether the
  header before one that is stored is there; a finalization throws after it removed a
  sibling and never sets `finalizedHeight`; a later walk over the removed header, or over
  one that never came, never ends, although the comment in the loop says
  `//assert(header != null);` (`NetworkWalletData.ts:274`); three first blocks give no
  head, as they cannot be sorted; a pool transaction whose second write failed is never seen again; rebuilding
  the finalized account does not reset it; the status store is never loaded, so that
  reopening throws (`NetworkWallet`).
* `WalletAccount.importTransaction` (`WalletAccount.ts:161-203`) makes a handler for the
  transaction and returns without calling it, so that an account's import stores nothing
  and no payment is found.  What the properties say of imports (`PaymentsFound`,
  `SpentStaysSpent`, `AccountConsistent`) holds of the handlers' `importTransaction`
  (`scenario.imports`); as the code stands nobody calls it (`WalletAccount`).
* `addShortValue` calls itself and a binary value throws when written, so that as the
  code stands no address store is ever saved; a load rewrites the file with only
  what it read so far, and a process that dies in it loses the rest; the address whose
  save failed is handed out at the next call; a transaction imported again brings
  back a coin that was spent; a transfer that spends a coin of somebody else cannot be
  imported; a removal that failed half way makes every later import that refers to the
  coin throw, or miss it; `HdWallet.close` leaves the repositories open,
  `WalletAccount.load` does not restore the zone, and `removeTransaction` throws after it
  removed the transaction (`WalletAccount`).

## Proofs

Every theorem holds for all values of the constants that the modules' assumptions
admit: any number of files, units, transactions, coins, any sizes, any number of
calls, crashes and failures.  Each invariant was first checked by TLC on the constants of
its module's run (that of the B-tree with the levels and bounds of its nodes computed from
the tree; `ScanInv` only through the properties of the run; `DetectorInv` with numbers
up to 30 for `Nat`), then proved in the usual three steps (it holds at first, every action keeps
it, it implies the property), one lemma per action.

`DataLemmas` has what several proofs need: what `RemoveAt`, `InsertAt` and
`RemoveFirst` return for any sequence, what the sums of `Sums` (`Total`) do when a
list grows or one of its numbers changes, and induction over the numbers in two forms
that speak of sets (`LeastNumber`, `NatUpwards`), since a theorem with an operator as
its parameter cannot be used here.  A recursive function, such as the binary search or
a sum, is a `CHOOSE` of a function that satisfies an equation: each proof about one
first shows that there is such a function, step by step up to the length or distance
it needs.  For loops that go on with what the last turn left,
`TurnsExist` and `TurnsKeep` do so once, and say what holds after each turn.
`LevelsDefine` does it for a recursion down the levels of a tree, and `LoopDefines` for a
loop of which nobody knows yet that it ends: some function satisfies its equation, and
what that function gives follows where the loop does end.

### Files: `RandomAccessFile_proofs`

Assuming `FileAssumption` (the constants' types) and `GrowthAtEnd`.  The code does not
ensure the second (`Os.ts:96`): with growth from elsewhere a clean segment differs from
the file, synced pages are overwritten, and the refinement fails.  The theorems say what
the file layer does for files that grow only while their descriptor is at the end:

* `FileInvariant`: `FileInv` holds in every reachable state.  `DiskIsPending` and
  `NeverHangs` are not inductive.  That a clean segment equals the disk
  (`CleanMatchesDisk`) is needed for every drop; that `fileSize` is the disk's
  length while a file is open (`LengthsAgree`), that nothing lies beyond the end
  (`BeyondEnd`), that the pages of a segment in memory are those the file has
  (`WholeSegments`) and that a running call stays within what it may touch
  (`CallFits`) are needed to show that each iteration transfers a page and that
  growth overwrites nothing.
* `CleanSegments`, `CrashesLoseUnsyncedOnly`, `LoopsAdvance`: the three invariants
  that follow.
* `FileLayerImplementsPagedFile`: each step is a step of `PagedFile` or leaves
  `content`, `size`, `pending` and `buff` alone: eviction, loading and dropping are
  invisible because `View` does not change when a segment that is dropped was
  written back or was clean.

The second half proves `CacheIsConsistent` without `GrowthAtEnd`: nothing in the
accounts of the cache depends on what the pages hold.  Its invariant `CacheInv` says that
no segment is listed twice or waits twice to be dropped (`NoDuplicates`), that the list
has exactly the segments in memory that do not wait to be dropped (`ListedInMemory`),
that `currentSize` is the number of their pages (`SizeIsPages`), and that the list is no
longer than the cache has room for (`FewSegments`): a full cache drops one segment
for each that comes, and `MaxCache = 0` still holds one.  The number of pages is
counted by comparing a list without duplicates with the set of its elements.

### Free ranges: `FileStore_proofs`, first half

`CanonicalAlways` (with `RemoveInside`, the way the block store calls `removeRange`),
`AddRangeAlwaysUnion`, `RemoveRangeAlwaysDifference` and `ReloadedAlwaysSame`.
`Canonical` is inductive; the work is in the operators, in the order of the code:

* `SearchFinds`: the search stops at the range that holds a value or next to where it
  would be; by induction over the distance of its bounds.
* `HitIs`, `PlacesAre`: what `hitStatus` then says, and what the four searches of an
  `addRange` say together: `p` is the last range that begins at or below the new one, `q`
  the first that ends at or above it (`Spot`).
* `JoinFits`, `CutIs`, `AddRangeSplices`: in each of the four ways to join, the result
  is the list up to some place, one range, and the list from some other place on
  (`Spliced`).  `SplicedIs` says what order and elements such a list has.
* `RemoveRangeSplits`, `RemoveRangeIs`: a part of one range goes to `needSplit`, and each
  of its four results consists of parts of the old ranges (`Parts`).
* `ReloadedSame`: reading back `n` ranges gives the first `n`, each of which is added
  at the end (`AddedLast`).

### Block store: `FileStore_proofs`, second half

The arithmetic comes first: `UnitsTakenAreUnitsDerived` (the units taken for a block are
those derived from the bytes it uses, for all sizes and unit sizes) and
`WholeRangeIsDerived`.  Then three invariants, each under the conditions it needs and
no more; they are the environment assumptions of the model, whose violations
are under "Disagreements found".

* `StoreInv`, with `EnoughRoom`: objects can be read back as chains of blocks that
  overlap neither each other nor the free units in memory or in the header file
  (`ObjectsApart`), and the blocks of a running call are apart from both and what is
  left is enough for the rest (`CallFits`).  It gives `UnitsAreNeverShared`,
  even where the object at 0 is removed or a used field overflows.  The lemma
  `ListNeverRunsOut` says no more than that what `EnoughRoom` assumes when a call begins
  lasts to its end; the calls that ask for more are not the theorems' subject.
  A chain is followed until a block that says 0, so that the proofs speak of chains in
  which only the first block may be at 0 (`Chain`).
* `KeptInv`, where besides the object at 0 stays and no length is beyond a used field
  (`Kept`): 0 is taken as long as there is an object (`FirstKept`), so that no chain is
  cut short, and what is not free is in a chain (`AllOwned`).  It gives
  `EveryUnitHasOneOwner`, for the header file (`HeaderIsCurrent`) as well.
* `ReadInv`, where besides no length is 0 (`Reads`): what is read at a position has a length
  that was written.  It gives `StoreImplementsBlockStore`, the refinement of
  `BlockStore`: each fragment of an allocation is a step that no client sees, and
  the last one is the abstract operation.  `BlockStore` leaves open which bytes the
  end of a write stores; `WritesAreRead` says that they are those of the call.

### Transaction building: `TransactionBuilder_proofs`

`BuilderInStep` proves `BuilderInv`, for any wallets, amounts, rates and sizes. `InTurn`
relates the two cursors of a collector to the inputs taken so far: what lies before the
cursor is what was used.  `Rotation` adds to `ChangeRotates` where the cursor of the
addresses is, before and after a serial was lost: while the list has all serials, the
cursor stands right after the address handed out last; afterwards it passes over what is
missing.  `BooksFollow` says what the running sums are in each turn of the loop
(`SumsFollow`) and that the outputs are those asked for, with or without a change of
what is left (`Plain`, `Changed`); `BuiltFacts` is what remains of this when the last
build is done.  `BooksAlwaysBalance`, `CoinsAreTakenInTurn`, `DestinationsArePaid` and
`ChangeAddressesRotate` are the four properties of the run.

### The account: `WalletAccount_proofs`

`WalletAccount_proofs`, assuming `AddressesAssumption`:

* `AddressesInStep`: `AddressInv`, the inductive invariant, holds in every reachable
  state.  `AddressesRecovered` alone speaks of processes that have loaded the account,
  and says nothing of the file they will load.  `HandedKept` adds that what was handed
  out is below the serial in the file, in the map and in what is being read, and
  `MadeKept` that what the store has made is there too, as the cursor may hand it out
  without a save.  `MapFollows` says which of the three copies is ahead: the map of a
  live process is ahead of the file, the store ahead of the map, and the map of a load
  is a part of what was read.  `NextIsNewest` says that a save runs for the last address
  made, the one that `Newest` gives up when it fails.  The order of the keys matters:
  the cursor is bounded by a serial written before it. A serial that is lost in one
  process is not lost in the next: `load` makes the key pairs of all serials anew, so
  that what a lost serial leaves is a shorter list until then.
* `AddressesAreRecovered` and `SettingsAreKept`: the invariant and the action property of
  the run `WalletAccount`.

The second half adds the coins, assuming `RepositoryAssumption` (no transaction
spends itself, whose id is a hash of what it spends):

* `ImportsInStep`: `RepositoryInv`.  That the two trees agree but for the coin a step is
  half way through (`TreesAgree`, `HalfMeans`) is not enough for `SpentStaysSpent`: what the
  import has referred to so far must be gone, but for late and damaged coins (`ReferredGone`),
  a coin that comes back must be known as late before it is put (`LateKnown`), and an import
  at its last step must have put its output into both trees (`OutputKept`).
* `AccountIsConsistent`, `SpentCoinsStaySpent`, `PaymentsAreFound`: the three properties of the
  run that speak of coins.  Their imports are those of the handlers, begun where
  `scenario.imports` holds; where it does not, as in the code, no step changes the coins but
  a removal, and `PaymentsAreFound` has nothing to speak of.

### Wallet network data: `NetworkWallet_proofs`

Assuming `WalletAssumption`: types, a header is one higher than its parent, and no
transaction spends itself, as its id is a hash of what it spends.  Nothing is assumed
of what throws: the theorems hold for every scenario.

* `HeadersAlwaysKnown`: `HeaderInv`.  `SpinsAtGapsOnly` speaks of the header a walk is
  at, and the walk goes on to its parent, so that the stored headers must be closed
  under `Parent` but for the gaps (`HeadersKnown`), and each must be listed until it is
  dropped. A gap closes when the missing header comes, and opens when a header is stored
  whose parent is not listed; nothing is assumed of the order.  `BeforeFinds` says that
  the walk begins at a listed header, `DroppedIs` what `finalize` takes out.
  `WalkSpinsAtGapsOnly` and `SiblingsRemovedOnly` follow.
* `WalletAlwaysKept`: `WalletInv`.  Of an account, `Agrees` relates its list, its map and its
  history, as the next account is made of its list and history and not of its map;
  `LateOnly` says that a coin which the history spends came after its spender
  (`After`).  There is a lemma for each operation, in the order of the code: `WithoutCoinKeeps`,
  `SpendKeeps`, `WithCoinIs`, `ImportedKeeps`, `AddTransactionKeeps`, then the loops over
  transactions and headers (`AddLoopKeeps`, `FilterLoopKeeps`), the accounts (`PoolOnKeeps`,
  `FinalizedKeeps`, `UnfinalizedKeeps`) and the public methods (`BuildKeeps`,
  `AddTransactionDataKeeps`).  `InOrderKeeps` is about the pool's index of timestamps.
* `AlwaysLayered`, `StoresAlwaysConsistent`, `SpentNeverOffered`: the three properties of the
  run that speak of accounts.

### B-tree: `BtreeTrees`, `Btree_proofs`

`BtreeTrees` has the invariants and the notions the proofs speak in, `Btree_proofs` the
proofs, assuming `BtreeAssumption` (types, at least two children per node) and
`SafeReopen`; the refinement also assumes `KnownStart`.

* `TreeStays`: `TreeInv`.  `WellFormed` is not inductive, because it speaks of what
  `Below` and `LeafDepths` find from the root, and a split or a removal changes a node
  somewhere down the tree.  `TreeInv` says the same of each node and its children.  There
  is a level for each node, one less for its children and 0 for the leaves (`Levels`),
  which makes all leaves equally deep and every recursion end.  Each node but the root is
  the child of one node, once (`Linked`), so that no block is lost or shared.  There is a
  lower bound for each node, which its children's keys are above (`Ordered`): the node's own
  key is only the upper end, and after removals the lower end is no longer the key
  of any node.  The last child has its node's key (`Ends`), so that a search never falls
  off a node.  Nothing is empty but a root that is a leaf (`Filled`), only the root
  is flagged (`Flagged`), and no node has more children than allowed (`Limited`).
* Insertion goes up the path.  Between two turns the tree waits for one more child
  (`Awaits`): had the node the child, it would be a tree with the new entry.  `TurnAdds` says
  that `addToParent` keeps this, by adding the child or by splitting the node, with the
  lemmas on a split (`SplitNodes`, `SplitKeepsLevels`, `SplitKeepsEnds` and so on); `PutKeeps`
  is the call.
* Removal goes up the path, too.  `Shrunk` says what holds after each turn: there is no
  empty node but the one last looked at.  `KeySetKeepsTree` is
  `setKeyForSelfAndDescendants`, where in between the node's last child has another key than
  the node (`AlmostTree`); `TurnCuts` is a turn; `RootGone` and `CollapsedIs` are the chain
  of roots with a single child.  `RemoveKeeps` is the call.
* `SearchIsRight`: the path of a key ends in the one leaf where its entry can be.
* Scans.  A cursor's stack goes down from the root, each frame's place lying next to the
  child that the next frame is on (`Strung`); the entries still to come are those beyond
  the place of the top frame (`ComingTo`).  `PopKeeps` and `PushKeeps` say that no turn of
  the cursor's loop changes these, and `LoopReaches` that the loop ends, at a leaf that has
  one of them or when there is none.  Both directions are one proof, with b = 0 or 1 for
  the place that a frame remembers.  `GotoKeyIs` and `GotoKeyPreviousIs` are the stacks a
  scan begins with, `GiveIs` says that the entry given is the nearest to come, and
  `ScanInv` that between two calls the stack is the one of the entry given last.
* `WellFormedStays` follows from both invariants, and `TreeImplementsMap` is the
  refinement of `OrderedMap`: `putData` and `remove` change one key of the map (`MapPut`,
  `MapRemove`), and `hasNext` gives the entry that the map would give (`MapHasNext`).  What
  a scan that begins at an absent key gives is not the map's promise; that is where
  `KnownStart` is used, and only there.

### Head detection: `HeadDetector_proofs`

Assuming `DetectorAssumption` (the constants' types), for every tree and every number of
votes.  `DetectorStays` proves `DetectorInv`; `BranchesAreFound`, `ScoresAreTheVotes` and
`LongestIsSelected` are the three invariants of the run.

* The tree.  `HeightIs`, `BeforeIs` and `PathIs` say what the recursive functions along
  `parent` give; they end because a parent has a lower number.  `SelectableIs` turns the
  set of paths to the leaves into the set of chains from a start block to a leaf.
* The walk.  What `HeadsAreTheBranches` says of the end is, in the middle, a matter of the
  stack: each element lists the children of the current block of the one below
  (`OnStack`), and the branches still to be found are those that leave the current blocks
  at some element for a later block of its list (`ToCome`).  `HeadsFound` says that there
  is a head for every other branch, and one only.  `WalkKeeps` is a turn of `buildHeads`:
  going down keeps `ToCome`, and `gotoBranch` takes out of it the one branch that became a
  head.
* The scores.  `Scored` says what elements have at any time: those evaluated hold their
  own votes for the block `DiffBlocks` below, and a block's voted score is at most what
  the one block above it in that head cast (`Cast`), and 0 while that block is not
  evaluated.  `CacheIs` is why the cache does no harm to this: whatever it holds was put
  there before any vote for the block was counted.  `EvaluateKeeps` is the turn of
  `evaluateHead`.
* The sort.  `ArrayList.sort` is proved for any list whose elements can be compared
  (`Comparable`): each turn of `downheap` leaves a heap but for the children of the place it
  has come to (`AlmostHeap`), so that it leaves a heap (`DownheapIs`); half the list
  downwards makes the whole one a heap (`HeapGrows`); the first place then holds one
  that is below no other (`TopIs`) and belongs at the end (`Settled`, `DrainIs`); `SortedIs`
  joins these.  With votes `compareTo` is no order, as it compares one head's voted score
  with the other's voting score, and nothing is claimed.  Without any
  (`SilentIs`, `CompareIs`) it compares the lengths and then the timestamps, which is an
  order (`HeadsComparable`), and the last head is a longest one (`LongestIsLast`).

`ArrayLists` and `HeadDetector` are written with recursive functions, one turn of a loop
after the other, so that the prover can take them.

### Only model-checked

The records (`RecordFields` recurses over the classes with a `RECURSIVE` operator), which
the prover does not take; and all liveness, which it does not reach:
`EveryCallReturns`, `DetectionEnds`, `CallsEnd`.

## Not modelled, and the plan

* `SynchronizedLock` and `SysMutex`: nothing in the repository waits on the first, and
  the second guards calls that are synchronous.
* `RawLinkedList` beyond its use as the page cache's list; Base58 and Base64, number
  formatting, exceptions.
* SHA-256, AES, RIPEMD, elliptic curves, Schnorr, MuSig, seeds and their encryption:
  arithmetic that a model checker cannot tell from any other function; their results are
  model values or numbered serials.
* Layers of the Merkle tree: the binary form of its certificates is checked, its
  hashes are not; difficulty and proof of work.
* Receiving addresses (made once, then read only), the MuSig signing rounds, the
  validation of transactions (not in this library), the MEV scores of heads (always zero).
* The peer connection: one socket of the host, of which the library only makes the
  records.
* A crash while the wallet's trees are being written: what it leaves is the files' and the
  block store's matter, and no test or comment says what the wallet promises then;
  `WalletAccount` lets the process die only while the trees are untouched.  A crash
  inside a call of `VariableBlockStore` is not modelled either.

Next: the Merkle tree against a reference root, and a crash inside a call of the block
store.

Left out for good: the arithmetic named above and the host's file system calls.
