--------------------------- MODULE MCRecordStreams --------------------------
(***************************************************************************)
(* The record classes and factories of the node, by name.                  *)
(***************************************************************************)
EXTENDS RecordStreams, Records

MCCodec ==
  [TransactionId |-> TransactionId, UtxoId |-> UtxoId, BlockHeaderId |-> BlockHeaderId, BlockHeaderCommandId |-> BlockHeaderCommandId,
   TransferedDataId |-> TransferedDataId, BlockMerkleRoot |-> BlockMerkleRoot, TransactionVersion |-> TransactionVersion,
   BlockVersion |-> BlockVersion, SystemTimestamp |-> SystemTimestamp, BalanceUnit |-> BalanceUnit, AddressDescriptor |-> AddressDescriptor,
   BalanceAddress |-> BalanceAddress, Secp256k1CompressedPoint |-> Secp256k1CompressedPoint, PoWNonce |-> PoWNonce,
   NodeIdentifier |-> NodeIdentifier, SchnorrKeyPair |-> SchnorrKeyPair, NodeIdentifierSource |-> NodeIdentifierSource,
   SchnorrSignature |-> SchnorrSignature, BalanceUtxoSign |-> BalanceUtxoSign, BloomFilter1024 |-> BloomFilter1024, BloomHash1024 |-> BloomHash1024,
   BalanceUtxo |-> BalanceUtxo, RemoteBalanceUtxo |-> RemoteBalanceUtxo, TicketUtxo |-> TicketUtxo, TicketVotedUtxo |-> TicketVotedUtxo,
   BalanceUtxoReference |-> BalanceUtxoReference, TicketUtxoReference |-> TicketUtxoReference, TicketVotedUtxoReference |-> TicketVotedUtxoReference,
   Coinbase |-> Coinbase, Stakebase |-> Stakebase, InputUtxoCollection |-> InputUtxoCollection,
   BalanceTransferTransaction |-> BalanceTransferTransaction, GenesisTransaction |-> GenesisTransaction,
   NopSmartcontractTransaction |-> NopSmartcontractTransaction, CoinbaseTransaction |-> CoinbaseTransaction,
   StakeBaseTransaction |-> StakeBaseTransaction, RegisterTicketTransaction |-> RegisterTicketTransaction,
   RegisterVotePoolTransaction |-> RegisterVotePoolTransaction, VoteBlockTransaction |-> VoteBlockTransaction,
   RevokeMissedTicket |-> RevokeMissedTicket, RevokeMissVotedTicket |-> RevokeMissVotedTicket,
   NotifyZoneExtendRequestedTransaction |-> NotifyZoneExtendRequestedTransaction, BlockRewordBase |-> BlockRewordBase, BlockBody |-> BlockBody,
   BlockHeader |-> BlockHeader, Block |-> Block, VotedHeaderIdGroup |-> VotedHeaderIdGroup, VotePart |-> VotePart,
   MerkleCertificateElement |-> MerkleCertificateElement, MerkleCertificate |-> MerkleCertificate, NewShardZoneCommand |-> NewShardZoneCommand,
   RecognizedNewShardCommand |-> RecognizedNewShardCommand, NullKey |-> NullKey, InfinityKey |-> InfinityKey, ULongKey |-> ULongKey,
   SystemTimestampKey |-> SystemTimestampKey, BlockHeaderIdKey |-> BlockHeaderIdKey, BlockHeaderHeightIndexKey |-> BlockHeaderHeightIndexKey,
   AddressDescriptorKey |-> AddressDescriptorKey, UtxoIdKey |-> UtxoIdKey, TransactionIdKey |-> TransactionIdKey, TreeNode |-> TreeNode,
   DataNode |-> DataNode, BtreeConfig |-> BtreeConfig, BtreeHeaderBlock |-> BtreeHeaderBlock, LongRangeRecord |-> LongRangeRecord,
   AddressDescriptorData |-> AddressDescriptorData, AddressDescriptorUtxoData |-> AddressDescriptorUtxoData, TransactionData |-> TransactionData,
   HeaderTransactionGroup |-> HeaderTransactionGroup, WalletTransactionIdListData |-> WalletTransactionIdListData,
   BlockHeaderList |-> BlockHeaderList, TransactionTransferData |-> TransactionTransferData,
   BinaryValueConfigStoreValue |-> BinaryValueConfigStoreValue, LongValueConfigStoreValue |-> LongValueConfigStoreValue,
   ShortValueConfigStoreValue |-> ShortValueConfigStoreValue]

MCFactory ==
  [AddressFactory |-> AddressFactory, KeyPairFactory |-> KeyPairFactory, AbstractUtxo |-> AbstractUtxo,
   AbstractUtxoReference |-> AbstractUtxoReference, AbstractBlockchainTransaction |-> AbstractBlockchainTransaction,
   AbstractBlockHeaderCommand |-> AbstractBlockHeaderCommand, BtreeKeyFactory |-> BtreeKeyFactory,
   SystemTimestampKeyFactory |-> SystemTimestampKeyFactory, AddressDescriptorKeyFactory |-> AddressDescriptorKeyFactory,
   TransactionIdKeyFactory |-> TransactionIdKeyFactory, UtxoIdKeyFactory |-> UtxoIdKeyFactory, BlockHeaderIdKeyFactory |-> BlockHeaderIdKeyFactory,
   BlockHeaderHeightIndexKeyFactory |-> BlockHeaderHeightIndexKeyFactory, LoadNode |-> LoadNode, AbstractTransferedData |-> AbstractTransferedData,
   AbstractConfigStoreElement |-> AbstractConfigStoreElement]
=============================================================================
