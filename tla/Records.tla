------------------------------ MODULE Records -------------------------------
(***************************************************************************)
(* The binary forms of the record classes of the node, one definition per  *)
(* class (or per factory, or per id), each the sequence of fields of its   *)
(* binarySize(), toBinary() and fromBinary().  RecordStreams says what a   *)
(* form means and checks it.                                               *)
(***************************************************************************)
EXTENDS RecordFields, TLC

(***************************** ids and versions ****************************)
Abstract32BytesId == Needs(Plain(<<Blob(4, "id")>>), {"id"})
TransactionId        == Abstract32BytesId
UtxoId               == Abstract32BytesId
BlockHeaderId        == Abstract32BytesId
BlockHeaderCommandId == Abstract32BytesId
TransferedDataId     == Abstract32BytesId

\* The reader takes 32 bytes where the writer put a length and 32 bytes.
BlockMerkleRoot == [Abstract32BytesId EXCEPT !.read = <<Num(32, "id")>>]

SoftwareVersion == Plain(<<Num(1, "major"), Num(1, "minor"), Num(1, "patch")>>)
TransactionVersion == SoftwareVersion
BlockVersion == SoftwareVersion
\* A slip the checks must notice: the microseconds are not counted.
SystemTimestampShort == [Plain(<<Num(8, "sec"), Num(4, "usec")>>) EXCEPT !.size = <<Num(8, "sec")>>]
SystemTimestamp == Plain(<<Num(8, "sec"), Num(4, "usec")>>)

(******************* amounts, addresses, keys, signatures ******************)
BalanceUnit == Plain(<<Tag(1, 1), Num(8, "amount")>>)
AddressDescriptor == Plain(<<Num(2, "prefix"), Num(3, "zone"), Blob(1, "body")>>)
BalanceAddress == Needs(Tagged(1, 1, <<Num(2, "zone"), Rec("Secp256k1CompressedPoint", "pubkey")>>), {"pubkey"})
AddressFactory == [width |-> 1, types |-> 1 :> "BalanceAddress"]
Secp256k1CompressedPoint == Plain(<<Num(1, "prefix"), Num(32, "x")>>)
PoWNonce == Plain(<<Num(32, "value")>>)
NodeIdentifier == Plain(<<Blob(4, "nodeIdentifier")>>)
SchnorrKeyPair == NoReturn(Needs(Tagged(1, 1, <<Blob(2, "publicKey"), Blob(2, "secretKey")>>), {"publicKey", "secretKey"}))
KeyPairFactory == [width |-> 1, types |-> 1 :> "SchnorrKeyPair"]
NodeIdentifierSource == Plain(<<Var("KeyPairFactory", <<"SchnorrKeyPair">>, "pair")>>)
\* It measures e and y and writes e twice.
SchnorrSignature == [Plain(<<Blob(1, "e"), Blob(1, "y")>>) EXCEPT !.write = <<Blob(1, "e"), Blob(1, "e")>>]
BalanceUtxoSign == Plain(<<Rec("Secp256k1CompressedPoint", "R"), Num(32, "s")>>)
BloomFilter == Plain(<<Blob(2, "buffer")>>)
BloomFilter1024 == BloomFilter
BloomHash1024 == Plain(<<Byte("v0"), Byte("v1"), Byte("v2"), Num(2, "flag")>>)

(********************************** UTXOs **********************************)
BalanceUtxo == Hashed(Loses(NoReturn(Needs(Tagged(1, 1,
    <<Rec("UtxoId", "utxoId"), Rec("AddressDescriptor", "addressDesc"), Rec("BalanceUnit", "amount")>>),
    {"utxoId", "addressDesc"})), {"utxoId", "nonce"}),
  <<Rec("AddressDescriptor", "addressDesc"), Rec("BalanceUnit", "amount"), Num(32, "nonce")>>)

RemoteBalanceUtxo == [BalanceUtxo EXCEPT !.size[1] = Tag(1, 4), !.write[1] = Tag(1, 4)]

TicketUtxoId ==
  <<Rec("NodeIdentifier", "nodeId"), Rec("AddressDescriptor", "addressDesc"), Rec("BalanceUnit", "amount"), Num(32, "nonce")>>
TicketUtxo == Hashed(NoReturn(Needs(Tagged(1, 2,
    <<Rec("UtxoId", "utxoId"), Rec("NodeIdentifier", "nodeId"), Rec("AddressDescriptor", "addressDesc"), Rec("BalanceUnit", "amount")>>),
    {"utxoId", "nodeId", "addressDesc"})), TicketUtxoId)

\* A slip the checks must notice: the copy has no amount.
TicketVotedUtxoCopiedInPart == Hashed(Loses(NoReturn(Tagged(1, 3,
    <<Rec("AddressDescriptor", "address"), Rec("UtxoId", "utxoId"), Rec("UtxoId", "votedUtxoId"), Rec("BalanceUnit", "amount")>>)), {"amount"}),
  <<Num(32, "nonce")>>)
TicketVotedUtxo == Hashed(NoReturn(Needs(Tagged(1, 3,
    <<Rec("AddressDescriptor", "address"), Rec("UtxoId", "utxoId"), Rec("UtxoId", "votedUtxoId"), Rec("BalanceUnit", "amount")>>),
    {"utxoId", "address", "votedUtxoId"})),
  <<Rec("AddressDescriptor", "address"), Rec("UtxoId", "votedUtxoId"), Rec("BalanceUnit", "amount"), Num(32, "nonce")>>)

AbstractUtxo == [width |-> 1, types |-> (1 :> "BalanceUtxo" @@ 2 :> "TicketUtxo" @@ 3 :> "TicketVotedUtxo" @@ 4 :> "RemoteBalanceUtxo")]
Utxo(cs, name) == Var("AbstractUtxo", cs, name)
AnyUtxo == <<"BalanceUtxo", "TicketUtxo", "TicketVotedUtxo", "RemoteBalanceUtxo">>

(****************************** UTXO references ****************************)
BalanceUtxoReference == NoReturn(Needs(Tagged(1, 1,
    <<Rec("UtxoId", "utxoId"), Rec("Secp256k1CompressedPoint", "Xi"), Rec("BloomHash1024", "bloomHash")>>),
    {"utxoId", "Xi", "bloomHash"}))
TicketUtxoReference == NoReturn(Needs(Tagged(1, 2, <<Rec("UtxoId", "utxoId"), Rec("BloomHash1024", "bloomHash")>>), {"utxoId", "bloomHash"}))
TicketVotedUtxoReference == NoReturn(Needs(Tagged(1, 3, <<Rec("UtxoId", "utxoId"), Rec("BloomHash1024", "bloomHash")>>), {"utxoId", "bloomHash"}))
Coinbase == Tagged(1, 4, <<Rec("BalanceUnit", "amount")>>)
Stakebase == Tagged(1, 5, <<Rec("BalanceUnit", "amount")>>)

AbstractUtxoReference == [width |-> 1, types |->
  <<"BalanceUtxoReference", "TicketUtxoReference", "TicketVotedUtxoReference", "Coinbase", "Stakebase">>]
Reference(cs, name) == Var("AbstractUtxoReference", cs, name)

\* One byte is counted for the number of references and two are written.
InputUtxoCollection ==
  [Plain(<<Many(2, Reference(<<"BalanceUtxoReference">>, ""), "list")>>) EXCEPT !.size[1].width = 1]

(******************************* transactions ******************************)
Stamp(type) == <<Tag(1, type), Rec("TransactionVersion", "version"), Rec("SystemTimestamp", "timestamp")>>

\* AbstractControlTransaction: __toBinary() and toBinary(), which adds the signature.
ControlBody(type) == Stamp(type) \o
  <<Rec("InputUtxoCollection", "inputs"), Many(2, Utxo(<<"BalanceUtxo">>, ""), "list"), Rec("BalanceUnit", "fee")>>
ControlNonce(type) == Append(Stamp(type), Rec("InputUtxoCollection", "inputs"))
Bare(type, fs) == [Plain(fs) EXCEPT !.read = Tail(@)]
ControlUnsigned(type) == Bare(type, ControlBody(type))
AbstractControlTransaction(type) == Then(ControlUnsigned(type), <<Opt(Rec("BalanceUtxoSign", ""), "signature")>>)

TransferBody == Stamp(2) \o
  <<Rec("InputUtxoCollection", "inputs"), Many(2, Utxo(<<"BalanceUtxo">>, ""), "list"), Rec("BalanceUnit", "fee")>>
TransferNonce == Append(Stamp(2), Rec("InputUtxoCollection", "inputs"))
TransferId == TransferBody
BalanceTransferTransaction ==
  Rebuilt(Then(Bare(2, TransferBody), <<Opt(Rec("BalanceUtxoSign", ""), "signature")>>), TransferNonce, TransferId)

GenesisBody == Append(Stamp(1), Many(2, Utxo(<<"BalanceUtxo">>, ""), "list"))
GenesisTransaction == Rebuilt(Bare(1, GenesisBody), Stamp(1), GenesisBody)

\* The version is not written: it is hashed with the value every constructor gives it.
NopVersion == <<Tag(1, 1), Tag(1, 0), Tag(1, 0)>>
NopNonce == <<Tag(1, 10)>> \o NopVersion \o <<Rec("SystemTimestamp", "timestamp")>>
NopId == Append(NopNonce, Num(8, "nonce"))
\* A slip the checks must notice: the nonce is hashed and not written.
NopWithoutNonce == Rebuilt(Tagged(1, 10, <<Rec("SystemTimestamp", "timestamp"), Many(2, Utxo(AnyUtxo, ""), "utxoList")>>), NopNonce, NopId)
NopSmartcontractTransaction == Rebuilt(Tagged(1, 10,
    <<Rec("SystemTimestamp", "timestamp"), Num(8, "nonce"), Many(2, Utxo(AnyUtxo, ""), "utxoList")>>),
  NopNonce, NopId)

AnyReference == <<"BalanceUtxoReference", "TicketUtxoReference", "TicketVotedUtxoReference">>
RewordNonce(type) == Stamp(type) \o <<Num(8, "height"), Many(0, Reference(AnyReference, ""), "inputlist")>>
AbstractBlockRewordTransaction(type) == Stamp(type) \o
  <<Num(8, "height"), Many(1, Reference(AnyReference, ""), "inputlist"), Many(1, Utxo(AnyUtxo, ""), "list")>>
CoinbaseId == Append(AbstractBlockRewordTransaction(8), Reference(<<"Coinbase">>, "coinbase"))
CoinbaseTransaction == Needs(Rebuilt(
  Then(Bare(8, AbstractBlockRewordTransaction(8)), <<Reference(<<"Coinbase">>, "coinbase")>>), RewordNonce(8), CoinbaseId), {"coinbase"})
StakeBaseId == Append(AbstractBlockRewordTransaction(9), Reference(<<"Stakebase">>, "stakebase"))
StakeBaseTransaction == Needs(Rebuilt(
  Then(Bare(9, AbstractBlockRewordTransaction(9)), <<Reference(<<"Stakebase">>, "stakebase")>>), RewordNonce(9), StakeBaseId), {"stakebase"})

(************************** finalizer transactions *************************)
\* setUtxoNonce() asks getUtxo() for one UTXO more than the list holds, which throws.
RegisterTicketId == Append(ControlBody(4), Raise)
RegisterTicketTransaction == Rebuilt(
  Then(AbstractControlTransaction(4), <<Utxo(<<"TicketUtxo">>, "ticketUtxo")>>), ControlNonce(4), RegisterTicketId)

RegisterVotePoolTransaction == Needs(Rebuilt(
  Then(AbstractControlTransaction(3),
       <<Rec("NodeIdentifier", "nodeId"), Rec("AddressDescriptor", "addressDesc"), Opt(Rec("SchnorrSignature", ""), "voterSig")>>),
  ControlNonce(3), ControlBody(3)), {"nodeId", "addressDesc", "voterSig"})

VoteBlockId == ControlBody(5) \o
  <<Num(2, "zone"), Rec("NodeIdentifier", "voterId"), Reference(<<"TicketUtxoReference">>, "ticketUtxoRef"),
    Utxo(<<"TicketVotedUtxo">>, "votedUtxo"), Rec("BlockHeaderId", "voteBlockHeaderId"), Num(8, "voteBlockHeight")>>
\* The reader puts its zone over the one in the buffer instead of taking it out.
VoteBlockTransaction == LET fs == Append(VoteBlockId, Rec("SchnorrSignature", "sig")) IN
  Needs(Rebuilt(NoReturn([Bare(5, fs) EXCEPT !.read[6] = Skip(2, "zone")]), ControlNonce(5), VoteBlockId),
        {"voterId", "ticketUtxoRef", "votedUtxo", "voteBlockHeaderId", "sig"})

RevokeNonce(type) == Append(Stamp(type), Reference(<<"TicketVotedUtxoReference">>, "ticketVoteUtxoRef"))
Revoke(type) == Append(RevokeNonce(type), Many(1, Utxo(<<"BalanceUtxo">>, ""), "list"))
RevokeMissedTicketId == RevokeNonce(6)
RevokeMissedTicket == Needs(Rebuilt(Bare(6, Revoke(6)), RevokeNonce(6), RevokeMissedTicketId), {"ticketVoteUtxoRef"})
RevokeMissVotedTicketId == RevokeNonce(7)
RevokeMissVotedTicket == Needs(Rebuilt(Bare(7, Revoke(7)), RevokeNonce(7), RevokeMissVotedTicketId), {"ticketVoteUtxoRef"})

NotifyId == <<Tag(1, 21), Rec("TransactionVersion", "version"), Num(2, "zone"), Num(8, "height"),
  Rec("BlockHeaderId", "headerId"), Num(2, "newShardZone"), Rec("BlockHeaderCommandId", "commandId")>>
NotifyZoneExtendRequestedTransaction == Needs(Rebuilt(Bare(21, Stamp(21) \o
    <<Num(2, "zone"), Num(8, "height"), Rec("BlockHeaderId", "headerId"), Num(2, "newShardZone"), Rec("BlockHeaderCommandId", "commandId")>>),
  <<>>, NotifyId), {"headerId", "commandId"})

AbstractBlockchainTransaction == [width |-> 1, types |->
  (1 :> "GenesisTransaction" @@ 2 :> "BalanceTransferTransaction" @@ 3 :> "RegisterVotePoolTransaction"
   @@ 4 :> "RegisterTicketTransaction" @@ 5 :> "VoteBlockTransaction" @@ 6 :> "RevokeMissedTicket"
   @@ 7 :> "RevokeMissVotedTicket" @@ 8 :> "CoinbaseTransaction" @@ 9 :> "StakeBaseTransaction"
   @@ 10 :> "NopSmartcontractTransaction" @@ 21 :> "NotifyZoneExtendRequestedTransaction")]
Transaction(cs, name) == Var("AbstractBlockchainTransaction", cs, name)
AnyTransaction == <<"BalanceTransferTransaction", "GenesisTransaction", "CoinbaseTransaction", "NopSmartcontractTransaction",
  "RegisterTicketTransaction", "RegisterVotePoolTransaction", "RevokeMissedTicket", "RevokeMissVotedTicket",
  "NotifyZoneExtendRequestedTransaction", "StakeBaseTransaction", "VoteBlockTransaction">>

(****************************** blocks and votes ***************************)
BlockRewordBase == Plain(<<Opt(Transaction(<<"CoinbaseTransaction">>, ""), "coinbase"),
                           Many(1, Transaction(<<"StakeBaseTransaction">>, ""), "stakeBases")>>)

ControlTransactions == <<"RegisterTicketTransaction", "RegisterVotePoolTransaction", "VoteBlockTransaction",
                         "RevokeMissedTicket", "RevokeMissVotedTicket">>
BlockBody == Plain(<<Num(8, "nonce"), Many(2, Transaction(ControlTransactions, ""), "controlTransactions"),
  Many(2, Transaction(<<"NotifyZoneExtendRequestedTransaction">>, ""), "iccTransactions"),
  Many(2, Transaction(<<"BalanceTransferTransaction", "GenesisTransaction">>, ""), "balanceTransactions"),
  Many(2, Transaction(<<"NopSmartcontractTransaction">>, ""), "smartcontractTransactions"),
  Rec("BlockRewordBase", "rewardBase")>>)

Commands == Many(1, Var("AbstractBlockHeaderCommand", <<"RecognizedNewShardCommand", "NewShardZoneCommand">>, ""), "commnads")
BlockHeaderHash == <<Rec("BlockVersion", "version"), Num(2, "zone"), Num(8, "height"), Rec("SystemTimestamp", "timestamp"),
  Rec("BlockMerkleRoot", "merkleRoot"), Rec("BlockHeaderId", "lastid"), Rec("VotePart", "votePart"),
  Rec("SystemTimestamp", "lastNouceCalculated"), Commands>>
BlockHeader == Rebuilt(Plain(<<Rec("BlockVersion", "version"), Num(2, "zone"), Num(8, "height"),
    Rec("SystemTimestamp", "timestamp"), Rec("SystemTimestamp", "nonceGeneratedtimestamp"), Rec("BlockMerkleRoot", "merkleRoot"),
    Rec("BlockHeaderId", "lastid"), Rec("PoWNonce", "nonce"), Rec("VotePart", "votePart"),
    Rec("SystemTimestamp", "lastNouceCalculated"), Commands>>), <<>>, BlockHeaderHash)
Block == Plain(<<Rec("BlockHeader", "header"), Rec("BlockBody", "body")>>)

\* A slip the checks must notice: the reader takes the list before the id.
VotedHeaderIdGroupSwapped == [Plain(<<Rec("BlockHeaderId", "votedHeaderId"), Many(1, Rec("TransactionId", ""), "trxIdList")>>) EXCEPT
  !.read = <<Many(1, Rec("TransactionId", ""), "trxIdList"), Rec("BlockHeaderId", "votedHeaderId")>>]
VotedHeaderIdGroup == Plain(<<Rec("BlockHeaderId", "votedHeaderId"), Many(1, Rec("TransactionId", ""), "trxIdList")>>)
VotePart == Plain(<<Many(1, Rec("VotedHeaderIdGroup", ""), "list")>>)

MerkleCertificateElement == Plain(<<Blob(1, "hash"), Num(1, "left")>>)
MerkleCertificate == Needs(Plain(<<Blob(1, "rootHash"), Many(2, Rec("MerkleCertificateElement", ""), "list")>>), {"rootHash"})

CommandId(c) == Rebuilt(c, <<>>, c.write)
NewShardZoneCommand == Needs(CommandId(Tagged(2, 1,
  <<Num(2, "newShardZone"), Num(2, "requestingZone"), Rec("Block", "genesisBlock")>>)), {"genesisBlock"})
RecognizedNewShardCommand == Needs(CommandId(Tagged(2, 2,
  <<Transaction(<<"NotifyZoneExtendRequestedTransaction">>, "trx"), Rec("MerkleCertificate", "certificate")>>)), {"trx", "certificate"})
AbstractBlockHeaderCommand == [width |-> 2, types |-> <<"NewShardZoneCommand", "RecognizedNewShardCommand">>]

(************************ keys and values of the trees *********************)
NullKey == Tagged(4, 1, <<>>)
InfinityKey == Tagged(4, 2, <<>>)
ULongKey == Tagged(4, 3, <<Num(8, "value")>>)
SystemTimestampKey == Tagged(4, 20, <<Rec("SystemTimestamp", "tm")>>)
BlockHeaderIdKey == Tagged(4, 20, <<Rec("BlockHeaderId", "headerId")>>)
BlockHeaderHeightIndexKey == Tagged(4, 20, <<Num(8, "value"), Num(8, "fpos")>>)
AddressDescriptorKey == Tagged(4, 20, <<Rec("AddressDescriptor", "desc")>>)
UtxoIdKey == Tagged(4, 20, <<Rec("UtxoId", "utxoId")>>)
TransactionIdKey == Tagged(4, 20, <<Rec("TransactionId", "trxId")>>)

\* Each tree has a factory of its own, which adds one key to those of BtreeKeyFactory.
BtreeKeyFactory == [width |-> 4, types |-> <<"NullKey", "InfinityKey", "ULongKey">>]
Extended(c) == [BtreeKeyFactory EXCEPT !.types = @ @@ 20 :> c]
SystemTimestampKeyFactory == Extended("SystemTimestampKey")
AddressDescriptorKeyFactory == Extended("AddressDescriptorKey")
TransactionIdKeyFactory == Extended("TransactionIdKey")
UtxoIdKeyFactory == Extended("UtxoIdKey")
BlockHeaderIdKeyFactory == Extended("BlockHeaderIdKey")
BlockHeaderHeightIndexKeyFactory == Extended("BlockHeaderHeightIndexKey")

NodeKey == Var("UtxoIdKeyFactory", <<"UtxoIdKey", "InfinityKey", "NullKey", "ULongKey">>, "key")
AbstractTreeNode == Needs(Plain(<<NodeKey, Num(8, "fpos")>>), {"key"})
TreeNode == Needs(Tagged(1, 1, AbstractTreeNode.size \o <<Num(1, "root"), Num(1, "leaf"), Many(4, Num(8, ""), "children")>>), {"key"})
DataNode == Needs(Tagged(1, 2, AbstractTreeNode.size \o <<Num(8, "datafpos")>>), {"key"})
LoadNode == [width |-> 1, types |-> <<"TreeNode", "DataNode">>]
BtreeConfig == Plain(<<Num(8, "defaultSize"), Num(8, "blockSize"), Num(8, "nodeNumber")>>)
BtreeHeaderBlock == Needs(Plain(<<Rec("BtreeConfig", "config"), Num(8, "rootFpos")>>), {"config"})
LongRangeRecord == Plain(<<Num(8, "min"), Num(8, "max")>>)

AddressDescriptorData == Plain(<<Rec("AddressDescriptor", "desc")>>)
AddressDescriptorUtxoData == Plain(<<Many(2, Utxo(AnyUtxo, ""), "list")>>)
TransactionData == Plain(<<Transaction(AnyTransaction, "trx")>>)
HeaderTransactionGroup == NoReturn(Needs(Plain(<<Rec("BlockHeaderId", "headerId"), Many(2, Transaction(AnyTransaction, ""), "list")>>), {"headerId"}))
WalletTransactionIdListData == Plain(<<Many(2, Rec("TransactionId", ""), "list")>>)
BlockHeaderList == Plain(<<Many(4, Num(8, ""), "list")>>)
TransactionTransferData == NoReturn(Needs(Tagged(1, 1, <<Transaction(AnyTransaction, "trx")>>), {"trx"}))
AbstractTransferedData == [width |-> 1, types |-> 1 :> "TransactionTransferData"]

(**************************** settings and headers *************************)
BinaryValueConfigStoreValue == NoReturn(Needs(Tagged(1, 10, <<Blob(2, "data")>>), {"data"}))
LongValueConfigStoreValue == Tagged(1, 1, <<Num(8, "value")>>)
ShortValueConfigStoreValue == Tagged(1, 2, <<Num(2, "value")>>)
AbstractConfigStoreElement == [width |-> 1, types |->
  (1 :> "LongValueConfigStoreValue" @@ 2 :> "ShortValueConfigStoreValue" @@ 10 :> "BinaryValueConfigStoreValue")]
=============================================================================
