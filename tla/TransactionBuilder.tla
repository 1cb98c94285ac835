------------------------- MODULE TransactionBuilder -------------------------
(***************************************************************************)
(* Building a transaction (bc_wallet_trx/BalanceTransactionWalletHandler,  *)
(* RegisterTicketTransactionWalletHandler and                              *)
(* RegisterVotePoolTransactionWalletHandler; the collectors, the finder    *)
(* and the accounts' change addresses they use).                           *)
(*                                                                         *)
(* Inputs are added one by one until they pay for the amount and for the   *)
(* fee, which grows with every input and with the change output.  Four     *)
(* kinds of calls: "balance" (fee on top), "included" (fee taken from the  *)
(* first destination), "ticket" and "pool".                                *)
(*                                                                         *)
(* The code is unfinished: BalanceUtxo.getAddress(), BalanceUtxo.toBinary()*)
(* and BalanceTransferTransaction.sign() always throw, a copied UTXO has   *)
(* no id, a ticket transaction cannot be built.  Here every step that has  *)
(* such a call may throw or not: the properties hold for the code as it    *)
(* stands, where all of them do, and for the same control with calls that  *)
(* return what they are declared to return.                                *)
(***************************************************************************)
EXTENDS AddressStores, Sums, SequencesExt

CONSTANTS
  Amounts,     \* amounts of the coins (UTXOs) of the wallet
  Payments,    \* amounts of the destinations, and of a ticket
  FeeRates,
  BaseSize, RefSize, OutputSize,  \* binary sizes: a signed transaction without inputs and outputs, an input, an output
  Groups,      \* sizes of the group of change addresses
  MaxCoins,    \* bound of the model: coins of the wallet
  MaxDests,    \* bound of the model: destinations of a transfer
  MaxCalls     \* bound of the model: transactions built one after the other

ASSUME BuilderAssumption ==
  /\ Amounts \subseteq Nat /\ Payments \subseteq Nat /\ FeeRates \subseteq Nat /\ Groups \subseteq Nat \ {0}
  /\ {BaseSize, RefSize, OutputSize} \subseteq Nat \ {0} /\ {MaxCoins, MaxDests, MaxCalls} \subseteq Nat

VARIABLES
  wallet,     \* the coins: which collector offers them, and its lists of amounts
  addresses,  \* the ChangeAddressStore of the account
  handedOut,  \* history: the change addresses handed out, in order
  calls,      \* transactions begun
  call,       \* kind, dests, rate of this one
  pc,         \* "idle", "collect", "finish", "built", "shortage", "feeShortage" or "thrown"
  collector,  \* at, pos: the list and the position in it; next: the coin hasNext() took, or NoCoin
  trx,        \* inputs (coins), outputs (amounts, the change last), fee
  sums        \* binSize, required, totalIn

vars == <<wallet, addresses, handedOut, calls, call, pc, collector, trx, sums>>

Kinds == {"balance", "included", "ticket", "pool"}
NoCoin == <<0, 0>>
Coins(w) == {c \in (1..Len(w.lists)) \X (1..MaxCoins) : c[2] <= Len(w.lists[c[1]])}
AmountOf(c) == wallet.lists[c[1]][c[2]]
Ended == {"idle", "built", "shortage", "feeShortage", "thrown"}

\* ArrayUtxoFinder.getTotalAmount, over the copies of the inputs
TotalAmount(inputs) == Total([i \in DOMAIN inputs |-> AmountOf(inputs[i])])

-----------------------------------------------------------------------------
(* The collectors.  A wallet account offers the coins of its receiving and *)
(* then of its change addresses, and next() moves the cursor; a managed    *)
(* account offers finalized, unfinalized and mempool coins, and hasNext()  *)
(* moves it and keeps the coin.                                            *)

NewCollector == [at |-> 1, pos |-> 1, next |-> NoCoin]
Consumes == wallet.type = "managed"
Open(c) == {a \in c.at..Len(wallet.lists) : (IF a = c.at THEN c.pos ELSE 1) <= Len(wallet.lists[a])}

HasNextUtxo(c) == Open(c) # {}
\* The collector after hasNext(): empty lists are left behind.
AtNext(c) ==
  LET a == IF HasNextUtxo(c) THEN Min(Open(c)) ELSE Len(wallet.lists)
      p == IF a = c.at THEN c.pos ELSE 1
  IN IF Consumes /\ HasNextUtxo(c) THEN [at |-> a, pos |-> p + 1, next |-> <<a, p>>]
     ELSE [at |-> a, pos |-> p, next |-> c.next]
\* A slip the checks must notice: next() moves the cursor, too, when hasNext() has.
AfterNextTwice(c) == [c EXCEPT !.pos = @ + 1]
NextUtxo(c) == IF Consumes THEN c.next ELSE <<c.at, c.pos>>
AfterNext(c) == IF Consumes THEN c ELSE [c EXCEPT !.pos = @ + 1]

-----------------------------------------------------------------------------
Wallets ==
  LET ListsOf(n) == {l \in [1..n -> BoundedSeq(Amounts, MaxCoins)] : Total([i \in 1..n |-> Len(l[i])]) <= MaxCoins}
  IN {[type |-> "own", lists |-> l] : l \in ListsOf(2)} \cup {[type |-> "managed", lists |-> l] : l \in ListsOf(3)}

Requests ==
  [kind : {"balance", "included"}, dests : BoundedSeq(Payments, MaxDests), rate : FeeRates]
    \cup [kind : {"ticket"}, dests : {<<p>> : p \in Payments}, rate : FeeRates]
    \cup [kind : {"pool"}, dests : {<<>>}, rate : FeeRates]

NoTrx == [inputs |-> <<>>, outputs |-> <<>>, fee |-> 0]
NoSums == [binSize |-> 0, required |-> 0, totalIn |-> 0]

Init ==
  /\ wallet \in Wallets
  /\ \E g \in Groups : addresses = NewChangeStore(g)
  /\ handedOut = <<>> /\ calls = 0 /\ pc = "idle"
  /\ call = [kind |-> "pool", dests |-> <<>>, rate |-> 0]
  /\ collector = NewCollector /\ trx = NoTrx /\ sums = NoSums

\* The stake of a ticket is not an element of the transaction's list of outputs.
OutputsOf(r) == IF r.kind = "ticket" THEN <<>> ELSE r.dests
StakeOf(r) == IF r.kind = "ticket" THEN r.dests[1] ELSE 0
SizeOf(t) == BaseSize + RefSize * Len(t.inputs) + OutputSize * Len(t.outputs)
Amount == Total(call.dests)

\* The inputs do not pay for what is required.
Needs == sums.totalIn < sums.required

\* createTransaction begins: the outputs are added, and the transaction is built and signed for the first time.
Begin(kind, required(_, _)) ==
  /\ pc \in Ended /\ calls < MaxCalls
  /\ calls' = calls + 1
  /\ \E r \in {q \in Requests : q.kind = kind} :
       /\ call' = r
       /\ trx' = [NoTrx EXCEPT !.outputs = OutputsOf(r)]
       /\ sums' = [binSize |-> SizeOf(trx'), required |-> required(r, SizeOf(trx')), totalIn |-> 0]
  /\ collector' = NewCollector /\ pc' = "collect"
  /\ UNCHANGED <<wallet, addresses, handedOut>>

FeeOnTop(r, size) == size * r.rate + Total(r.dests)
FeeWithin(r, size) == Total(r.dests)

StartTransfer == Begin("balance", FeeOnTop)
StartIncluded == Begin("included", FeeWithin)
StartTicket == Begin("ticket", FeeOnTop)
StartPool == Begin("pool", FeeOnTop)

\* build() or sign() throws, the first or the last time, or getAddress(), getId(), getSigner() or addInputUtxoRef() for an input.
Throw ==
  /\ \/ pc = "finish"
     \/ pc = "collect" /\ (trx.inputs = <<>> \/ (Needs /\ HasNextUtxo(collector)))
  /\ pc' = "thrown"
  /\ UNCHANGED <<wallet, addresses, handedOut, calls, call, collector, trx, sums>>

\* getNextChangeAddress, used by a step that goes on as After says, or is ended by what it throws.
WithChangeAddress(After) ==
  \/ /\ HasNextAddress(addresses)
     /\ addresses' = Advanced(addresses)
     /\ handedOut' = Append(handedOut, NextAddress(addresses))
     /\ After
  \/ /\ addresses' \in AfterThrow(addresses)
     /\ pc' = "thrown" /\ UNCHANGED <<handedOut, trx, sums>>

\* A slip the checks must notice: the fee the change output adds is not taken from the change.
SetChangeEarly(t, s, k) ==
  [inputs |-> t.inputs, outputs |-> [t.outputs EXCEPT ![k] = s.totalIn - s.required + OutputSize * call.rate], fee |-> s.binSize * call.rate]
SetChange(t, s, k) ==
  [inputs |-> t.inputs, outputs |-> [t.outputs EXCEPT ![k] = s.totalIn - s.required], fee |-> s.binSize * call.rate]

SizeWithChange(size) == size + OutputSize

\* One round of collectUtxoRefs.  The next coin is an input; the fee follows and, if there is more than is required,
\* the change, which is written to output k.  withoutChange: the change output has not been added yet.
CollectUtxoRef(kind, k, withoutChange) ==
  /\ pc = "collect" /\ call.kind = kind
  /\ HasNextUtxo(collector) /\ Needs
  /\ LET c == AtNext(collector)
         inputs == Append(trx.inputs, NextUtxo(c))
         SumsOf(size) == [binSize |-> size, required |-> size * call.rate + Amount, totalIn |-> TotalAmount(inputs)]
         s == SumsOf(sums.binSize + RefSize)
         t == [inputs |-> inputs, outputs |-> trx.outputs, fee |-> s.binSize * call.rate]
         s2 == SumsOf(SizeWithChange(s.binSize))
         t2 == [t EXCEPT !.outputs = Append(@, 0)]
     IN /\ collector' = AfterNext(c)
        /\ \/ /\ s.totalIn <= s.required
              /\ trx' = t /\ sums' = s
              /\ UNCHANGED <<addresses, handedOut, pc>>
           \/ /\ s.totalIn > s.required /\ withoutChange
              /\ WithChangeAddress(
                   IF k > Len(t2.outputs)
                   THEN pc' = "thrown" /\ UNCHANGED <<trx, sums>>
                   ELSE trx' = SetChange(t2, s2, k) /\ sums' = s2 /\ UNCHANGED pc)
           \/ /\ s.totalIn > s.required /\ ~withoutChange
              /\ trx' = SetChange(t, s, k) /\ sums' = s
              /\ UNCHANGED <<addresses, handedOut, pc>>
  /\ UNCHANGED <<wallet, calls, call>>

\* getUtxo(1) of a transfer, getUtxo(0) of the others; getUtxoSize() of a ticket transaction counts the ticket.
CollectTransfer == CollectUtxoRef("balance", 2, Len(trx.outputs) = Len(call.dests))
CollectTicket == CollectUtxoRef("ticket", 1, Len(trx.outputs) + 1 = 1)
CollectPool == CollectUtxoRef("pool", 1, trx.outputs = <<>>)

\* The loop of createFeeIncludedTransaction only adds inputs.
CollectIncluded ==
  /\ pc = "collect" /\ call.kind = "included"
  /\ HasNextUtxo(collector) /\ Needs
  /\ LET c == AtNext(collector)
         inputs == Append(trx.inputs, NextUtxo(c)) IN
     /\ collector' = AfterNext(c)
     /\ trx' = [trx EXCEPT !.inputs = inputs]
     /\ sums' = [sums EXCEPT !.totalIn = TotalAmount(inputs)]
  /\ UNCHANGED <<wallet, addresses, handedOut, calls, call, pc>>

\* A slip the checks must notice: inputs that match exactly do not end the loop.
LoopEndsAbove == sums.totalIn > sums.required \/ ~HasNextUtxo(collector)
LoopEnds == ~Needs \/ ~HasNextUtxo(collector)
EndOfLoop ==
  /\ pc = "collect" /\ LoopEnds
  /\ collector' = AtNext(collector)
  /\ pc' = IF Needs THEN "shortage" ELSE "finish"
  /\ UNCHANGED <<wallet, addresses, handedOut, calls, call, trx, sums>>

\* The transaction is built and signed with its inputs.
Finish ==
  /\ pc = "finish" /\ call.kind # "included"
  /\ pc' = "built"
  /\ UNCHANGED <<wallet, addresses, handedOut, calls, call, collector, trx, sums>>

\* A slip the checks must notice: the fee is taken from the last output.
DiscountedLast(t, fee) == [inputs |-> t.inputs, outputs |-> [t.outputs EXCEPT ![Len(t.outputs)] = @ - fee], fee |-> fee]
Discounted(t, fee) == [inputs |-> t.inputs, outputs |-> [t.outputs EXCEPT ![1] = @ - fee], fee |-> fee]

\* The fee is computed for the transaction with its change and taken from the first output.
DiscountFee(t) ==
  LET fee == SizeOf(t) * call.rate IN
  IF t.outputs = <<>> THEN pc' = "thrown" /\ trx' = t
  ELSE IF t.outputs[1] < fee THEN pc' = "feeShortage" /\ trx' = [t EXCEPT !.fee = fee]
  ELSE pc' = "built" /\ trx' = Discounted(t, fee)

FinishIncluded ==
  /\ pc = "finish" /\ call.kind = "included"
  /\ \/ /\ sums.totalIn > Amount
        /\ WithChangeAddress(DiscountFee([trx EXCEPT !.outputs = Append(@, sums.totalIn - Amount)]) /\ UNCHANGED sums)
     \/ /\ sums.totalIn <= Amount
        /\ DiscountFee(trx)
        /\ UNCHANGED <<addresses, handedOut, sums>>
  /\ UNCHANGED <<wallet, calls, call, collector>>

Continue == Throw \/ EndOfLoop \/ CollectTransfer \/ CollectTicket \/ CollectPool \/ CollectIncluded \/ Finish \/ FinishIncluded
Next == StartTransfer \/ StartIncluded \/ StartTicket \/ StartPool \/ Continue
\* A call is synchronous: its steps follow each other.  The caller may never start another one.
Spec == Init /\ [][Next]_vars /\ WF_vars(Continue)

-----------------------------------------------------------------------------
HasChange == Len(trx.outputs) > Len(OutputsOf(call))
Spent == TotalAmount(trx.inputs)
Paid == Total(trx.outputs) + StakeOf(call) + trx.fee

\* Types; the store of change addresses is consistent after every call, a failed one included: a serial may be
\* lost (ChangeAddressStore.ts:32 raises it before the key pair is made), but none is listed twice or out of order.
TypeOK ==
  /\ StoreOK(addresses)
  /\ Range(trx.inputs) \subseteq Coins(wallet) /\ Range(trx.outputs) \subseteq Int /\ trx.fee \in Nat
  /\ sums.totalIn = Spent
  /\ pc \in Ended \cup {"collect", "finish"} /\ calls \in 0..MaxCalls

\* A transaction that was built never pays more than its inputs hold, fee included (collectUtxoRefs and
\* createFeeIncludedTransaction write the change before the final fee is known).
NothingCreated == pc = "built" => Paid <= Spent

\* Nothing is lost, either, with at most one destination or an included fee, but in one case: a change
\* that the fee of its own output made negative is not rewritten when the next input matches exactly
\* (the comparison with required at BalanceTransactionWalletHandler.ts:100 is strict).
ChangeIsExact ==
  pc = "built" /\ (call.kind = "included" \/ Len(call.dests) <= 1)
    /\ ~(HasChange /\ sums.totalIn = sums.required /\ trx.outputs[Len(trx.outputs)] < 0)
    => Paid = Spent

\* The fee is the rate times the size of the transaction that was built, although the loops add up the
\* size of every input and of the change.
FeeIsRateTimesSize == pc = "built" => trx.fee = call.rate * SizeOf(trx)

\* The books of a transaction that was built balance: change and fee are rewritten while inputs are
\* still being added.
BooksBalance == TypeOK /\ NothingCreated /\ ChangeIsExact /\ FeeIsRateTimesSize

\* Both collectors hand out every coin once, in order: no mempool coin is spent before the finalized ones.
InputsInOrder ==
  LET n == Len(trx.inputs) IN
  \A i \in 1..n : \A c \in Coins(wallet) :
    (c[1] < trx.inputs[i][1] \/ (c[1] = trx.inputs[i][1] /\ c[2] < trx.inputs[i][2]))
      <=> \E j \in 1..i - 1 : trx.inputs[j] = c

\* BalanceShortageException is thrown only with every coin of the wallet as an input.
ShortageMeansAllUsed == pc = "shortage" => Range(trx.inputs) = Coins(wallet)

\* The loops over a collector miss no coin and take none twice.
EveryCoinInTurn == InputsInOrder /\ ShortageMeansAllUsed

\* Every destination is paid its amount (the first one less the fee when that is included), but for the second
\* of a transfer with change: the change is written to getUtxo(1), whatever stands there.
DestinationsPaid ==
  pc = "built" => \A i \in 1..Len(OutputsOf(call)) :
    \/ trx.outputs[i] = call.dests[i] - (IF call.kind = "included" /\ i = 1 THEN trx.fee ELSE 0)
    \/ i = 2 /\ call.kind = "balance" /\ HasChange

\* A transaction that follows another one sends its change to another address, unless the group has one only,
\* whatever failed in between, but for one case (getNextChangeAddress): once a serial is lost the calls whose
\* cursor stands where an address is missing throw, and the first address may follow itself.
ChangeRotates ==
  addresses.group > 1 => \A i \in 1..Len(handedOut) - 1 :
    handedOut[i] = handedOut[i + 1] => HasLost(addresses) /\ handedOut[i] = addresses.list[1]

\* Every call comes to an end: there are finitely many coins.
CallsEnd == (pc \in {"collect", "finish"}) ~> (pc \in Ended)
=============================================================================
