---------------------- MODULE TransactionBuilder_proofs ----------------------
(***************************************************************************)
(* Proofs about TransactionBuilder, for every wallet, every amounts, rates *)
(* and sizes, and every number of calls: the books of a transaction        *)
(* balance, its inputs are the coins of the wallet in their order, the     *)
(* destinations are paid, and the change addresses rotate.                 *)
(***************************************************************************)
EXTENDS TransactionBuilder, DataLemmas

-----------------------------------------------------------------------------
(* The inductive invariant.                                                *)

CoinLists ==
  /\ wallet.lists \in Seq(Seq(Amounts)) /\ wallet.lists # <<>>
  /\ \A a \in 1..Len(wallet.lists) : Len(wallet.lists[a]) <= MaxCoins

Cursors == [at : 1..Len(wallet.lists), pos : Nat \ {0}, next : Nat \X Nat]

CallOK(r) ==
  /\ r \in [kind : Kinds, dests : Seq(Nat), rate : Nat]
  /\ r.kind = "ticket" => Len(r.dests) = 1
  /\ r.kind = "pool" => r.dests = <<>>

StoreKind == [list : Seq(Nat), addressSerial : Nat, currentIndex : Nat, group : Nat \ {0}]
AddressesOK(s) == s \in StoreKind /\ StoreOK(s)

BuilderKinds ==
  /\ CoinLists /\ CallOK(call) /\ AddressesOK(addresses) /\ collector \in Cursors
  /\ handedOut \in Seq(Nat) /\ calls \in 0..MaxCalls
  /\ pc \in Ended \cup {"collect", "finish"}
  /\ trx \in [inputs : Seq(Coins(wallet)), outputs : Seq(Int), fee : Nat]
  /\ sums \in [binSize : Nat, required : Nat, totalIn : Int] /\ sums.totalIn = Spent

(* The inputs are the coins that lie before the cursor.                    *)
Before(c, d) == c[1] < d[1] \/ (c[1] = d[1] /\ c[2] < d[2])
UsedSoFar ==
  pc = "collect" => \A c \in Coins(wallet) : Before(c, <<collector.at, collector.pos>>) <=> c \in Range(trx.inputs)

InTurn == EveryCoinInTurn /\ UsedSoFar

(* The last address handed out stands at place p of the list, before the   *)
(* cursor or at the end of the group, if the cursor has wrapped.  Unless a *)
(* serial was lost it is right before the cursor.                          *)
LastPlaceIs(s, h, p) ==
  /\ h[Len(h)] = s.list[p]
  /\ s.currentIndex >= p \/ s.currentIndex = 0
  /\ ~HasLost(s) => s.currentIndex = p \/ (s.currentIndex = 0 /\ p = s.group)
Follows(s, h) == h # <<>> => \E p \in 1..Len(s.list) : LastPlaceIs(s, h, p)

(* ChangeRotates, of a store and what was handed out.                      *)
Rotates(s, h) ==
  s.group > 1 => \A i \in 1..Len(h) - 1 : h[i] = h[i + 1] => HasLost(s) /\ h[i] = s.list[1]

Rotation == ChangeRotates /\ Follows(addresses, handedOut)

(* The outputs, without change and with change x.                          *)
ChangeAt == IF call.kind = "balance" THEN 2 ELSE 1
OutputsWith(x) == [Append(OutputsOf(call), 0) EXCEPT ![ChangeAt] = x]
Plain == trx.outputs = OutputsOf(call) /\ sums.totalIn <= sums.required
Changed ==
  /\ trx.inputs # <<>> /\ ChangeAt <= Len(OutputsOf(call)) + 1
  /\ \E x \in Int : /\ trx.outputs = OutputsWith(x)
                    /\ x = sums.totalIn - sums.required \/ (x < 0 /\ sums.totalIn <= sums.required)

(* What the loops add up is the size of the transaction.                   *)
SumsFollow ==
  /\ sums.binSize = SizeOf(trx) /\ sums.required = sums.binSize * call.rate + Amount
  /\ trx.fee = IF trx.inputs = <<>> THEN 0 ELSE sums.binSize * call.rate

Going == pc \in {"collect", "finish"}
BooksFollow ==
  /\ Going /\ call.kind # "included" => SumsFollow /\ (Plain \/ Changed)
  /\ Going /\ call.kind = "included" => trx.outputs = call.dests /\ trx.fee = 0 /\ sums.required = Amount
  /\ pc = "finish" => ~Needs

(* What holds of a transaction that was built.                             *)
BuiltFacts ==
  pc = "built" =>
    /\ Paid <= Spent /\ trx.fee = call.rate * SizeOf(trx)
    /\ (call.kind = "included" \/ Len(call.dests) <= 1)
         /\ ~(HasChange /\ sums.totalIn = sums.required /\ trx.outputs[Len(trx.outputs)] < 0)
         => Paid = Spent
    /\ DestinationsPaid

BuilderInv == BuilderKinds /\ InTurn /\ Rotation /\ BooksFollow /\ BuiltFacts

-----------------------------------------------------------------------------
(* The collectors.                                                         *)

LEMMA CoinIs ==
  ASSUME CoinLists, NEW a \in 1..Len(wallet.lists), NEW p \in Nat \ {0}, p <= Len(wallet.lists[a])
  PROVE  <<a, p>> \in Coins(wallet)
<1>1. Len(wallet.lists[a]) <= MaxCoins /\ Len(wallet.lists[a]) \in Nat BY DEF CoinLists
<1>2. MaxCoins \in Nat BY BuilderAssumption
<1>3. p \in 1..MaxCoins BY <1>1, <1>2
<1> QED BY <1>3 DEF Coins

LEMMA CoinsAre ==
  ASSUME CoinLists, NEW c \in Coins(wallet)
  PROVE  /\ c = <<c[1], c[2]>> /\ c[1] \in 1..Len(wallet.lists) /\ c[2] \in Nat \ {0} /\ c[2] <= Len(wallet.lists[c[1]])
         /\ AmountOf(c) \in Nat /\ Len(wallet.lists[c[1]]) \in Nat /\ Len(wallet.lists) \in Nat
<1>0. MaxCoins \in Nat /\ Amounts \subseteq Nat BY BuilderAssumption
<1>1. /\ c \in (1..Len(wallet.lists)) \X (1..MaxCoins) /\ c[2] <= Len(wallet.lists[c[1]])
  BY DEF Coins
<1>2. c = <<c[1], c[2]>> /\ c[1] \in 1..Len(wallet.lists) /\ c[2] \in 1..MaxCoins BY <1>1
<1>3. wallet.lists[c[1]] \in Seq(Amounts) /\ Len(wallet.lists) \in Nat BY <1>2 DEF CoinLists
<1>4. Len(wallet.lists[c[1]]) \in Nat BY <1>3
<1>5. wallet.lists[c[1]][c[2]] \in Amounts BY <1>0, <1>1, <1>2, <1>3
<1>6. AmountOf(c) \in Nat BY <1>0, <1>5, Zenon DEF AmountOf
<1> QED BY <1>1, <1>2, <1>3, <1>4, <1>6

(* There is a coin left: next() returns the first one at or behind the     *)
(* cursor, which then stands right behind it.                              *)
LEMMA NextCoin ==
  ASSUME CoinLists, NEW c \in Cursors, HasNextUtxo(c)
  PROVE  LET n == NextUtxo(AtNext(c))
             d == AfterNext(AtNext(c)) IN
         /\ n \in Coins(wallet) /\ d \in Cursors
         /\ \A x \in Coins(wallet) : Before(x, n) <=> Before(x, <<c.at, c.pos>>)
         /\ \A x \in Coins(wallet) : Before(x, <<d.at, d.pos>>) <=> Before(x, <<c.at, c.pos>>) \/ x = n
<1> DEFINE O == Open(c)
           a == Min(O)
           p == IF a = c.at THEN c.pos ELSE 1
           n == NextUtxo(AtNext(c))
           d == AfterNext(AtNext(c))
<1>0. /\ Len(wallet.lists) \in Nat /\ c.at \in 1..Len(wallet.lists) /\ c.pos \in Nat \ {0} /\ c.next \in Nat \X Nat
      /\ \A b \in 1..Len(wallet.lists) : Len(wallet.lists[b]) \in Nat
      /\ c = [at |-> c.at, pos |-> c.pos, next |-> c.next]
  BY DEF CoinLists, Cursors
<1>1. O # {} /\ O \subseteq Nat BY <1>0 DEF HasNextUtxo, Open
<1>2. a \in O /\ \A b \in O : a <= b
  <2>1. \E m \in O : \A b \in O : m <= b
    <3> HIDE DEF O
    <3> QED BY <1>1, LeastNumber
  <2> HIDE DEF O
  <2> QED BY <2>1 DEF Min
<1> HIDE DEF a
<1>3. /\ a \in c.at..Len(wallet.lists) /\ p <= Len(wallet.lists[a]) /\ p \in Nat \ {0}
      /\ \A b \in c.at..Len(wallet.lists) : b < a => ~((IF b = c.at THEN c.pos ELSE 1) <= Len(wallet.lists[b]))
  <2>1. a \in c.at..Len(wallet.lists) /\ p <= Len(wallet.lists[a]) BY <1>2 DEF Open
  <2>2. ASSUME NEW b \in c.at..Len(wallet.lists), b < a PROVE ~((IF b = c.at THEN c.pos ELSE 1) <= Len(wallet.lists[b]))
    <3>1. b \notin O
      <4>1. a \in Int /\ b \in Int BY <1>0, <2>1
      <4> HIDE DEF O
      <4> QED BY <1>2, <2>2, <4>1
    <3> QED BY <3>1 DEF Open
  <2>3. p \in Nat \ {0} BY <1>0
  <2> QED BY <2>1, <2>2, <2>3
<1>4. a \in 1..Len(wallet.lists) BY <1>0, <1>3
<1>5. n = <<a, p>> /\ d.at = a /\ d.pos = p + 1 /\ d \in Cursors
  <2>1. AtNext(c) = IF Consumes THEN [at |-> a, pos |-> p + 1, next |-> <<a, p>>] ELSE [at |-> a, pos |-> p, next |-> c.next]
    BY DEF AtNext, a
  <2>2. p + 1 \in Nat \ {0} /\ <<a, p>> \in Nat \X Nat /\ c.next \in Nat \X Nat BY <1>0, <1>3, <1>4
  <2> HIDE DEF p
  <2>3. CASE Consumes
    <3>1. n = <<a, p>> /\ d = [at |-> a, pos |-> p + 1, next |-> <<a, p>>] BY <2>1, <2>3 DEF NextUtxo, AfterNext
    <3> QED BY <1>4, <2>2, <3>1 DEF Cursors
  <2>4. CASE ~Consumes
    <3>1. n = <<a, p>> /\ d = [at |-> a, pos |-> p + 1, next |-> c.next] BY <2>1, <2>4 DEF NextUtxo, AfterNext
    <3> QED BY <1>4, <2>2, <3>1 DEF Cursors
  <2> QED BY <2>3, <2>4
<1> HIDE DEF n, d
<1>6. n \in Coins(wallet) BY <1>3, <1>4, <1>5, CoinIs
<1>7. ASSUME NEW x \in Coins(wallet)
      PROVE  /\ Before(x, n) <=> Before(x, <<c.at, c.pos>>)
             /\ Before(x, <<d.at, d.pos>>) <=> Before(x, <<c.at, c.pos>>) \/ x = n
  <2>1. /\ x = <<x[1], x[2]>> /\ x[1] \in 1..Len(wallet.lists) /\ x[2] \in Nat \ {0} /\ x[2] <= Len(wallet.lists[x[1]])
    BY CoinsAre
  <2> DEFINE x1 == x[1]
             x2 == x[2]
  <2>2. x = n <=> x1 = a /\ x2 = p BY <1>5, <2>1
  <2>3. /\ Before(x, n) <=> x1 < a \/ (x1 = a /\ x2 < p)
        /\ Before(x, <<c.at, c.pos>>) <=> x1 < c.at \/ (x1 = c.at /\ x2 < c.pos)
        /\ Before(x, <<d.at, d.pos>>) <=> x1 < a \/ (x1 = a /\ x2 < p + 1)
    BY <1>5 DEF Before
  <2>4. c.at <= x1 /\ x1 < a => Len(wallet.lists[x1]) < (IF x1 = c.at THEN c.pos ELSE 1)
    <3> SUFFICES ASSUME c.at <= x1, x1 < a PROVE Len(wallet.lists[x1]) < (IF x1 = c.at THEN c.pos ELSE 1) OBVIOUS
    <3>1. x1 \in c.at..Len(wallet.lists) BY <1>0, <2>1
    <3>2. ~((IF x1 = c.at THEN c.pos ELSE 1) <= Len(wallet.lists[x1])) BY <1>3, <3>1
    <3>3. Len(wallet.lists[x1]) \in Nat BY <1>0, <2>1
    <3> QED BY <1>0, <3>2, <3>3
  <2>5. x1 \in Nat /\ x2 \in Nat /\ x2 > 0 /\ x2 <= Len(wallet.lists[x1]) /\ Len(wallet.lists[x1]) \in Nat BY <1>0, <2>1
  <2>6. c.at \in Nat /\ c.pos \in Nat /\ a \in Nat /\ c.at <= a BY <1>0, <1>3
  <2> HIDE DEF x1, x2
  <2>7. c.at <= x1 /\ x1 < a => x1 = c.at /\ x2 < c.pos BY <2>4, <2>5, <2>6
  <2>8. Before(x, n) <=> Before(x, <<c.at, c.pos>>)
    <3>1. CASE a = c.at BY <2>3, <3>1
    <3>2. CASE a # c.at BY <2>3, <2>5, <2>6, <2>7, <3>2
    <3> QED BY <3>1, <3>2
  <2>9. Before(x, <<d.at, d.pos>>) <=> Before(x, n) \/ x = n BY <1>3, <2>2, <2>3, <2>5, <2>6
  <2> QED BY <2>8, <2>9
<1> QED BY <1>5, <1>6, <1>7 DEF n, d

(* There is none left: every coin lies before the cursor.                  *)
LEMMA NoNextCoin ==
  ASSUME CoinLists, NEW c \in Cursors, ~HasNextUtxo(c), NEW x \in Coins(wallet)
  PROVE  Before(x, <<c.at, c.pos>>)
<1>0. c.at \in 1..Len(wallet.lists) /\ c.pos \in Nat \ {0} /\ Len(wallet.lists) \in Nat BY DEF Cursors, CoinLists
<1>1. /\ x[1] \in 1..Len(wallet.lists) /\ x[2] \in Nat \ {0} /\ x[2] <= Len(wallet.lists[x[1]])
      /\ Len(wallet.lists[x[1]]) \in Nat
  BY CoinsAre
<1>2. \A a \in c.at..Len(wallet.lists) : ~((IF a = c.at THEN c.pos ELSE 1) <= Len(wallet.lists[a]))
  BY DEF HasNextUtxo, Open
<1>3. CASE x[1] < c.at BY <1>3 DEF Before
<1>4. CASE x[1] >= c.at
  <2>1. ~((IF x[1] = c.at THEN c.pos ELSE 1) <= Len(wallet.lists[x[1]])) BY <1>0, <1>1, <1>2, <1>4
  <2> QED BY <1>0, <1>1, <2>1 DEF Before
<1> QED BY <1>0, <1>1, <1>3, <1>4

(* hasNext() at the end of a loop leaves a cursor.                         *)
LEMMA EndCursor ==
  ASSUME CoinLists, NEW c \in Cursors
  PROVE  AtNext(c) \in Cursors
<1>0. /\ Len(wallet.lists) \in Nat \ {0} /\ c.at \in 1..Len(wallet.lists) /\ c.pos \in Nat \ {0} /\ c.next \in Nat \X Nat
  BY DEF Cursors, CoinLists
<1>1. CASE ~HasNextUtxo(c)
  <2> DEFINE p == IF Len(wallet.lists) = c.at THEN c.pos ELSE 1
  <2>1. AtNext(c) = [at |-> Len(wallet.lists), pos |-> p, next |-> c.next] BY <1>1 DEF AtNext
  <2>2. p \in Nat \ {0} BY <1>0
  <2> QED BY <1>0, <2>1, <2>2 DEF Cursors
<1>2. CASE HasNextUtxo(c) /\ ~Consumes
  <2>1. AfterNext(AtNext(c)) \in Cursors /\ AfterNext(AtNext(c)) = [AtNext(c) EXCEPT !.pos = @ + 1] BY <1>2, NextCoin DEF AfterNext
  <2> DEFINE a == Min(Open(c))
             p == IF a = c.at THEN c.pos ELSE 1
  <2>2. AtNext(c) = [at |-> a, pos |-> p, next |-> c.next] BY <1>2 DEF AtNext
  <2>3. p \in Nat \ {0} BY <1>0
  <2> HIDE DEF a, p
  <2>4. [AtNext(c) EXCEPT !.pos = @ + 1].at = a BY <2>2
  <2>5. a \in 1..Len(wallet.lists) BY <2>1, <2>4 DEF Cursors
  <2> QED BY <1>0, <2>2, <2>3, <2>5 DEF Cursors
<1>3. CASE HasNextUtxo(c) /\ Consumes
  BY <1>3, NextCoin DEF AfterNext
<1> QED BY <1>1, <1>2, <1>3

-----------------------------------------------------------------------------
(* Types.                                                                  *)

LEMMA ConstantsAre ==
  /\ BaseSize \in Nat \ {0} /\ RefSize \in Nat \ {0} /\ OutputSize \in Nat \ {0}
  /\ MaxCoins \in Nat /\ MaxDests \in Nat /\ MaxCalls \in Nat
BY BuilderAssumption

LEMMA TimesNat ==
  ASSUME NEW a \in Nat, NEW b \in Nat
  PROVE  a * b \in Nat
OBVIOUS

LEMMA BoundedIsSeq ==
  ASSUME NEW S, NEW n, NEW s \in BoundedSeq(S, n), n \in Nat
  PROVE  s \in Seq(S) /\ Len(s) <= n
<1>1. PICK m \in 0..n : s \in [1..m -> S] BY DEF BoundedSeq, SeqOf
<1> QED BY <1>1

LEMMA RequestOK ==
  ASSUME NEW r \in Requests
  PROVE  CallOK(r)
<1>0. Payments \subseteq Nat /\ FeeRates \subseteq Nat BY BuilderAssumption
<1>1. CASE r \in [kind : {"balance", "included"}, dests : BoundedSeq(Payments, MaxDests), rate : FeeRates]
  <2>1. r.dests \in Seq(Payments) BY <1>1, ConstantsAre, BoundedIsSeq
  <2>2. r.dests \in Seq(Nat) BY <1>0, <2>1, SeqMonotonic
  <2>3. r = [kind |-> r.kind, dests |-> r.dests, rate |-> r.rate] /\ r.kind \in {"balance", "included"} /\ r.rate \in FeeRates BY <1>1
  <2> QED BY <1>0, <2>2, <2>3 DEF CallOK, Kinds
<1>2. CASE r \in [kind : {"ticket"}, dests : {<<q>> : q \in Payments}, rate : FeeRates]
  <2>0. PICK q \in Payments : r.dests = <<q>> BY <1>2
  <2>1. r.dests \in Seq(Nat) /\ Len(r.dests) = 1 BY <1>0, <2>0
  <2>2. r = [kind |-> "ticket", dests |-> r.dests, rate |-> r.rate] /\ r.rate \in FeeRates BY <1>2
  <2> QED BY <1>0, <2>1, <2>2 DEF CallOK, Kinds
<1>3. CASE r \in [kind : {"pool"}, dests : {<<>>}, rate : FeeRates]
  <2>0. r.dests = <<>> BY <1>3
  <2>1. r.dests \in Seq(Nat) BY <2>0
  <2>2. r = [kind |-> "pool", dests |-> r.dests, rate |-> r.rate] /\ r.rate \in FeeRates BY <1>3
  <2>3. r.kind = "pool" /\ r.rate \in Nat BY <1>0, <2>2
  <2>4. r \in [kind : Kinds, dests : Seq(Nat), rate : Nat] BY <2>1, <2>2, <2>3 DEF Kinds
  <2> QED BY <2>0, <2>3, <2>4 DEF CallOK
<1> QED BY <1>1, <1>2, <1>3 DEF Requests

LEMMA CallFacts ==
  ASSUME NEW r, CallOK(r)
  PROVE  /\ OutputsOf(r) \in Seq(Nat) /\ OutputsOf(r) \in Seq(Int) /\ Total(r.dests) \in Nat
         /\ r.rate \in Nat /\ r.dests \in Seq(Nat) /\ r.kind \in Kinds
         /\ Total(OutputsOf(r)) + StakeOf(r) = Total(r.dests)
<1>1. r.dests \in Seq(Nat) /\ r.rate \in Nat /\ r.kind \in Kinds BY DEF CallOK
<1>2. Total(r.dests) \in Nat BY <1>1, TotalNat
<1>3. OutputsOf(r) \in Seq(Nat) BY <1>1 DEF OutputsOf
<1>4. OutputsOf(r) \in Seq(Int) BY <1>3
<1>5. CASE r.kind = "ticket"
  <2>1. Len(r.dests) = 1 BY <1>5 DEF CallOK
  <2>2. r.dests[1] \in Nat /\ r.dests = <<r.dests[1]>> BY <1>1, <2>1
  <2>3. Total(<<r.dests[1]>>) = r.dests[1] BY <2>2, TotalOne
  <2> QED BY <1>1, <1>2, <1>3, <1>4, <1>5, <2>2, <2>3, TotalEmpty DEF OutputsOf, StakeOf
<1>6. CASE r.kind # "ticket" BY <1>1, <1>2, <1>3, <1>4, <1>6 DEF OutputsOf, StakeOf
<1> QED BY <1>5, <1>6

LEMMA SizeIsNat ==
  ASSUME NEW t, NEW S, t.inputs \in Seq(S), t.outputs \in Seq(Int)
  PROVE  SizeOf(t) \in Nat
<1>1. Len(t.inputs) \in Nat /\ Len(t.outputs) \in Nat OBVIOUS
<1> DEFINE i == RefSize * Len(t.inputs)
           o == OutputSize * Len(t.outputs)
<1>2. i \in Nat /\ o \in Nat BY <1>1, ConstantsAre, TimesNat
<1>3. SizeOf(t) = BaseSize + i + o BY DEF SizeOf
<1> HIDE DEF i, o
<1> QED BY <1>2, <1>3, ConstantsAre

LEMMA AmountOfInputs ==
  ASSUME CoinLists, NEW inputs \in Seq(Coins(wallet))
  PROVE  TotalAmount(inputs) \in Int
<1> DEFINE f == [i \in DOMAIN inputs |-> AmountOf(inputs[i])]
<1>1. \A i \in DOMAIN inputs : AmountOf(inputs[i]) \in Int
  <2>1. \A c \in Coins(wallet) : AmountOf(c) \in Int BY CoinsAre
  <2>2. \A i \in DOMAIN inputs : inputs[i] \in Coins(wallet) OBVIOUS
  <2> QED BY <2>1, <2>2
<1>2. DOMAIN inputs = 1..Len(inputs) /\ Len(inputs) \in Nat OBVIOUS
<1>3. f \in Seq(Int) BY <1>1, <1>2
<1> HIDE DEF f
<1>4. Total(f) \in Int BY <1>3, TotalIs
<1> QED BY <1>4 DEF TotalAmount, f

LEMMA NoInputs == TotalAmount(<<>>) = 0
<1>1. [i \in DOMAIN <<>> |-> AmountOf(<<>>[i])] = <<>> OBVIOUS
<1> QED BY <1>1, TotalEmpty DEF TotalAmount

-----------------------------------------------------------------------------
(* The change addresses.                                                   *)

(* What a step may do to the list: it only grows, and a serial that is     *)
(* lost stays lost.                                                        *)
Grows(s, t) ==
  /\ t.group = s.group /\ Len(s.list) <= Len(t.list)
  /\ HasLost(s) => HasLost(t)
  /\ \A i \in 1..Len(s.list) : t.list[i] = s.list[i]

CursorOf(s) == IF s.currentIndex >= s.group THEN 0 ELSE s.currentIndex

(* The fields of a store of addresses.                                     *)
LEMMA StoreIs ==
  ASSUME NEW s, AddressesOK(s)
  PROVE  /\ s = [list |-> s.list, addressSerial |-> s.addressSerial, currentIndex |-> s.currentIndex, group |-> s.group]
         /\ s.list \in Seq(Nat) /\ s.addressSerial \in Nat /\ s.currentIndex \in Nat /\ s.group \in Nat \ {0}
         /\ Len(s.list) \in Nat /\ Len(s.list) <= s.addressSerial /\ s.addressSerial <= s.group
         /\ s.currentIndex <= s.addressSerial
<1>1. s \in StoreKind BY DEF AddressesOK
<1>2. /\ s = [list |-> s.list, addressSerial |-> s.addressSerial, currentIndex |-> s.currentIndex, group |-> s.group]
      /\ s.list \in Seq(Nat) /\ s.addressSerial \in Nat /\ s.currentIndex \in Nat /\ s.group \in Nat \ {0}
  BY <1>1 DEF StoreKind
<1> QED BY <1>2 DEF AddressesOK, StoreOK

(* The cursor wraps, and nothing else changes.                             *)
LEMMA WrappedOK ==
  ASSUME NEW s, AddressesOK(s)
  PROVE  /\ AddressesOK(Wrapped(s)) /\ Wrapped(s).currentIndex = CursorOf(s) /\ CursorOf(s) < s.group
         /\ Wrapped(s).list = s.list /\ Wrapped(s).addressSerial = s.addressSerial /\ Wrapped(s).group = s.group
<1> DEFINE c == CursorOf(s)
<1>1. c \in Nat /\ c <= s.addressSerial /\ c < s.group BY StoreIs DEF CursorOf
<1>2. Wrapped(s) = [list |-> s.list, addressSerial |-> s.addressSerial, currentIndex |-> c, group |-> s.group]
  BY StoreIs DEF Wrapped, CursorOf
<1> HIDE DEF c
<1>3. Wrapped(s) \in StoreKind BY <1>1, <1>2, StoreIs DEF StoreKind
<1>4. StoreOK(Wrapped(s)) BY <1>1, <1>2, StoreIs DEF AddressesOK, StoreOK, HasLost
<1> QED BY <1>1, <1>2, <1>3, <1>4 DEF AddressesOK, c

(* No key pair is made: the serial is lost.                                *)
LEMMA SerialLostOK ==
  ASSUME NEW s, AddressesOK(s), NeedsNew(Wrapped(s))
  PROVE  /\ AddressesOK(SerialLost(s)) /\ Grows(s, SerialLost(s)) /\ HasLost(SerialLost(s))
         /\ SerialLost(s).currentIndex = CursorOf(s)
<1> DEFINE w == Wrapped(s)
           t == [list |-> w.list, addressSerial |-> w.addressSerial + 1, currentIndex |-> w.currentIndex, group |-> w.group]
<1>1. /\ AddressesOK(w) /\ w.currentIndex = CursorOf(s) /\ CursorOf(s) < s.group
      /\ w.list = s.list /\ w.addressSerial = s.addressSerial /\ w.group = s.group
  BY WrappedOK
<1> HIDE DEF w
<1>2. SerialLost(s) = t BY <1>1, StoreIs DEF SerialLost, WithSerialTaken, w
<1>3. w.addressSerial + 1 <= w.group BY <1>1, StoreIs DEF NeedsNew, w
<1>4. t \in StoreKind /\ Len(t.list) < t.addressSerial BY <1>1, StoreIs DEF StoreKind
<1>5. StoreOK(t)
  <2>1. StoreOK(w) /\ w.addressSerial \in Nat /\ w.currentIndex \in 0..w.addressSerial BY <1>1, StoreIs DEF AddressesOK, StoreOK
  <2>2. \A i \in 1..Len(w.list) : w.list[i] < w.addressSerial + 1
    <3>1. \A i \in 1..Len(w.list) : w.list[i] \in Nat /\ w.list[i] < w.addressSerial BY <1>1, <2>1, StoreIs DEF StoreOK
    <3> QED BY <2>1, <3>1
  <2>3. \A i, j \in 1..Len(w.list) : i < j => w.list[i] < w.list[j] BY <2>1 DEF StoreOK
  <2> QED BY <1>1, <1>3, <1>4, <2>1, <2>2, <2>3, StoreIs DEF StoreOK, HasLost
<1>6. Grows(s, t) BY <1>1, <1>4, StoreIs DEF Grows, HasLost
<1> QED BY <1>1, <1>2, <1>4, <1>5, <1>6 DEF AddressesOK, HasLost

(* A new address is listed when the cursor is behind the last serial.      *)
LEMMA PreparedOK ==
  ASSUME NEW s, AddressesOK(s)
  PROVE  /\ AddressesOK(Prepared(s)) /\ Grows(s, Prepared(s)) /\ Prepared(s).currentIndex = CursorOf(s)
         /\ CursorOf(s) < Prepared(s).addressSerial
         /\ ~HasNextAddress(s) => HasLost(Prepared(s))
<1> DEFINE w == Wrapped(s)
<1>1. /\ AddressesOK(w) /\ w.currentIndex = CursorOf(s) /\ CursorOf(s) < s.group
      /\ w.list = s.list /\ w.addressSerial = s.addressSerial /\ w.group = s.group
  BY WrappedOK
<1> HIDE DEF w
<1>2. /\ w = [list |-> w.list, addressSerial |-> w.addressSerial, currentIndex |-> w.currentIndex, group |-> w.group]
      /\ w.list \in Seq(Nat) /\ w.addressSerial \in Nat /\ w.currentIndex \in Nat /\ w.group \in Nat \ {0}
      /\ Len(w.list) \in Nat /\ Len(w.list) <= w.addressSerial /\ w.addressSerial <= w.group
      /\ w.currentIndex <= w.addressSerial
  BY <1>1, StoreIs
<1>3. CASE NeedsNew(w)
  <2> DEFINE l == Append(w.list, w.addressSerial)
             q == [list |-> l, addressSerial |-> w.addressSerial + 1, currentIndex |-> w.currentIndex, group |-> w.group]
  <2>1. Prepared(s) = q BY <1>2, <1>3 DEF Prepared, WithNew, WithSerialTaken, w
  <2>2. w.currentIndex >= w.addressSerial /\ w.addressSerial + 1 <= w.group BY <1>1, <1>2, <1>3 DEF NeedsNew
  <2>3. /\ l \in Seq(Nat) /\ Len(l) = Len(w.list) + 1 /\ l[Len(w.list) + 1] = w.addressSerial
        /\ \A i \in 1..Len(w.list) : l[i] = w.list[i]
    BY <1>2
  <2> HIDE DEF l
  <2>4. StoreOK(w) BY <1>1 DEF AddressesOK
  <2>5. \A i \in 1..Len(l) : l[i] < w.addressSerial + 1 BY <1>2, <2>3, <2>4 DEF StoreOK
  <2>6. \A i, j \in 1..Len(l) : i < j => l[i] < l[j]
    <3> SUFFICES ASSUME NEW i \in 1..Len(l), NEW j \in 1..Len(l), i < j PROVE l[i] < l[j] OBVIOUS
    <3>1. CASE j = Len(w.list) + 1 BY <1>2, <2>3, <2>4, <3>1 DEF StoreOK
    <3>2. CASE j # Len(w.list) + 1
      <4>1. i \in 1..Len(w.list) /\ j \in 1..Len(w.list) BY <1>2, <2>3, <3>2
      <4>2. w.list[i] < w.list[j] BY <2>4, <4>1 DEF StoreOK
      <4> QED BY <2>3, <4>1, <4>2
    <3> QED BY <3>1, <3>2
  <2>7. ASSUME ~(Len(l) < w.addressSerial + 1) PROVE l = [i \in 1..w.addressSerial + 1 |-> i - 1]
    <3>1. Len(w.list) = w.addressSerial BY <1>2, <2>3, <2>7
    <3>2. w.list = [i \in 1..w.addressSerial |-> i - 1] BY <1>2, <2>4, <3>1 DEF StoreOK, HasLost
    <3>3. \A i \in 1..w.addressSerial + 1 : l[i] = i - 1 BY <1>2, <2>3, <3>1, <3>2
    <3> QED BY <1>2, <2>3, <3>1, <3>3
  <2>8. q \in StoreKind /\ StoreOK(q) BY <1>2, <2>2, <2>3, <2>5, <2>6, <2>7 DEF StoreKind, StoreOK, HasLost
  <2>9. Grows(s, q) BY <1>1, <1>2, <2>3 DEF Grows, HasLost
  <2>10. ~HasNextAddress(s) => HasLost(q) BY <1>2, <2>1, <2>2, <2>3 DEF HasNextAddress, HasLost
  <2> QED BY <1>1, <1>2, <2>1, <2>8, <2>9, <2>10 DEF AddressesOK
<1>4. CASE ~NeedsNew(w)
  <2>1. Prepared(s) = w BY <1>4 DEF Prepared, w
  <2>2. ~(w.currentIndex >= w.addressSerial /\ Len(w.list) < w.group) BY <1>4 DEF NeedsNew
  <2>3. w.currentIndex < w.addressSerial BY <1>1, <1>2, <2>2
  <2>4. Grows(s, w) BY <1>1, <1>2 DEF Grows, HasLost
  <2>5. ~HasNextAddress(s) => HasLost(w) BY <1>2, <2>1, <2>3 DEF HasNextAddress, HasLost
  <2> QED BY <1>1, <2>1, <2>3, <2>4, <2>5
<1> QED BY <1>3, <1>4

(* The cursor moves on, whether there is an address or not.                *)
LEMMA AdvancedOK ==
  ASSUME NEW s, AddressesOK(s)
  PROVE  /\ AddressesOK(Advanced(s)) /\ Grows(s, Advanced(s)) /\ Advanced(s).currentIndex = CursorOf(s) + 1
         /\ HasNextAddress(s) => /\ CursorOf(s) + 1 \in 1..Len(Advanced(s).list)
                                 /\ NextAddress(s) = Advanced(s).list[CursorOf(s) + 1] /\ NextAddress(s) \in Nat
         /\ ~HasNextAddress(s) => HasLost(Advanced(s)) /\ Len(Advanced(s).list) <= CursorOf(s)
<1> DEFINE q == Prepared(s)
           c == CursorOf(s)
           t == [list |-> q.list, addressSerial |-> q.addressSerial, currentIndex |-> c + 1, group |-> q.group]
<1>1. /\ AddressesOK(q) /\ Grows(s, q) /\ q.currentIndex = c
      /\ c < q.addressSerial
      /\ ~HasNextAddress(s) => HasLost(q)
  BY PreparedOK
<1>2. /\ HasNextAddress(s) <=> q.currentIndex < Len(q.list)
      /\ NextAddress(s) = q.list[q.currentIndex + 1] /\ Advanced(s) = [q EXCEPT !.currentIndex = @ + 1]
  BY DEF HasNextAddress, NextAddress, Advanced
<1>3. c \in Nat BY StoreIs DEF CursorOf
<1> HIDE DEF q, c
<1>4. /\ q = [list |-> q.list, addressSerial |-> q.addressSerial, currentIndex |-> q.currentIndex, group |-> q.group]
      /\ q.list \in Seq(Nat) /\ q.addressSerial \in Nat /\ q.group \in Nat \ {0} /\ Len(q.list) \in Nat
      /\ Len(q.list) <= q.addressSerial /\ q.addressSerial <= q.group
  BY <1>1, StoreIs
<1>5. Advanced(s) = t BY <1>1, <1>2, <1>4
<1>6. t \in StoreKind /\ StoreOK(t) BY <1>1, <1>3, <1>4 DEF StoreKind, AddressesOK, StoreOK, HasLost
<1>7. Grows(s, t) BY <1>1 DEF Grows, HasLost
<1>8. HasNextAddress(s) => c + 1 \in 1..Len(q.list) /\ q.list[c + 1] \in Nat BY <1>1, <1>2, <1>3, <1>4
<1>9. ~HasNextAddress(s) => HasLost(t) /\ Len(t.list) <= c BY <1>1, <1>2, <1>3, <1>4 DEF HasLost
<1> QED BY <1>1, <1>2, <1>5, <1>6, <1>7, <1>8, <1>9 DEF AddressesOK, c

(* What a step may do to the change addresses.                             *)
AddressStep ==
  \/ UNCHANGED <<addresses, handedOut>>
  \/ /\ HasNextAddress(addresses) /\ addresses' = Advanced(addresses)
     /\ handedOut' = Append(handedOut, NextAddress(addresses))
  \/ addresses' \in AfterThrow(addresses) /\ UNCHANGED handedOut

LEMMA EveryAddressStep ==
  ASSUME [Next]_vars
  PROVE  AddressStep
<1>1. CASE StartTransfer \/ StartIncluded \/ StartTicket \/ StartPool
  BY <1>1 DEF StartTransfer, StartIncluded, StartTicket, StartPool, Begin, AddressStep
<1>2. CASE Throw \/ EndOfLoop \/ Finish \/ CollectIncluded
  BY <1>2 DEF Throw, EndOfLoop, Finish, CollectIncluded, AddressStep
<1>3. CASE CollectTransfer \/ CollectTicket \/ CollectPool
  BY <1>3, Zenon DEF CollectTransfer, CollectTicket, CollectPool, CollectUtxoRef, WithChangeAddress, AddressStep
<1>4. CASE FinishIncluded
  BY <1>4, Zenon DEF FinishIncluded, WithChangeAddress, AddressStep
<1>5. CASE UNCHANGED vars BY <1>5 DEF vars, AddressStep
<1> QED BY <1>1, <1>2, <1>3, <1>4, <1>5 DEF Next, Continue

(* A call that throws leaves a consistent store, whose cursor has wrapped  *)
(* or moved over a missing address.                                        *)
LEMMA AfterThrowOK ==
  ASSUME NEW s, AddressesOK(s), NEW t \in AfterThrow(s)
  PROVE  /\ AddressesOK(t) /\ Grows(s, t)
         /\ \/ t.currentIndex = CursorOf(s)
            \/ t.currentIndex = CursorOf(s) + 1 /\ HasLost(t) /\ Len(t.list) <= CursorOf(s)
<1>1. CASE t = SerialLost(s) /\ NeedsNew(Wrapped(s)) BY <1>1, SerialLostOK
<1>2. CASE t = Prepared(s) BY <1>2, PreparedOK
<1>3. CASE t = Advanced(s) /\ ~HasNextAddress(s) BY <1>3, AdvancedOK
<1> QED BY <1>1, <1>2, <1>3 DEF AfterThrow

LEMMA AddressesKept ==
  ASSUME AddressesOK(addresses), handedOut \in Seq(Nat), AddressStep
  PROVE  AddressesOK(addresses') /\ handedOut' \in Seq(Nat) /\ addresses'.group = addresses.group
<1>1. CASE UNCHANGED <<addresses, handedOut>> BY <1>1
<1>2. CASE /\ HasNextAddress(addresses) /\ addresses' = Advanced(addresses)
           /\ handedOut' = Append(handedOut, NextAddress(addresses))
  BY <1>2, AdvancedOK DEF Grows
<1>3. CASE addresses' \in AfterThrow(addresses) /\ UNCHANGED handedOut BY <1>3, AfterThrowOK DEF Grows
<1> QED BY <1>1, <1>2, <1>3 DEF AddressStep

(* The place of the last address handed out, in a list that has grown.     *)
LEMMA PlaceKept ==
  ASSUME NEW s, NEW t, AddressesOK(s), AddressesOK(t), Grows(s, t), NEW a, NEW p \in 1..Len(s.list), a = s.list[p]
  PROVE  /\ p \in 1..Len(t.list) /\ a = t.list[p] /\ s.list[1] = t.list[1]
         /\ p <= s.group
         /\ ~HasLost(t) => ~HasLost(s)
<1>1. /\ Len(s.list) \in Nat /\ Len(t.list) \in Nat /\ Len(s.list) <= Len(t.list)
      /\ Len(s.list) <= s.addressSerial /\ s.addressSerial <= s.group /\ s.addressSerial \in Nat /\ s.group \in Nat
  BY StoreIs DEF Grows
<1>2. 1 \in 1..Len(s.list) BY <1>1
<1> QED BY <1>1, <1>2 DEF Grows

(* What was said of the addresses handed out before stays true.            *)
LEMMA OldPairs ==
  ASSUME NEW s, NEW t, AddressesOK(s), AddressesOK(t), Grows(s, t), Rotates(s, handedOut), Follows(s, handedOut)
  PROVE  Rotates(t, handedOut)
<1> SUFFICES ASSUME t.group > 1, NEW i \in 1..Len(handedOut) - 1, handedOut[i] = handedOut[i + 1]
             PROVE  HasLost(t) /\ handedOut[i] = t.list[1]
  BY DEF Rotates
<1>1. s.group > 1 BY DEF Grows
<1>2. HasLost(s) /\ handedOut[i] = s.list[1] BY <1>1 DEF Rotates
<1>3. handedOut # <<>> OBVIOUS
<1>4. PICK p \in 1..Len(s.list) : TRUE BY <1>3 DEF Follows
<1>5. s.list[1] = t.list[1] BY PlaceKept
<1> QED BY <1>2, <1>5 DEF Grows

(* The addresses rotate: the same one follows itself in a group of one     *)
(* only, or after a serial was lost.                                       *)
LEMMA RotationKept ==
  ASSUME AddressesOK(addresses), handedOut \in Seq(Nat), Rotation, AddressStep
  PROVE  Rotation'
<1> DEFINE s == addresses
           t == addresses'
<1>0. Rotates(s, handedOut) /\ Follows(s, handedOut) BY DEF Rotation, ChangeRotates, Rotates
<1>1. AddressesOK(t) /\ handedOut' \in Seq(Nat) BY AddressesKept
<1>2. /\ s.currentIndex \in Nat /\ s.group \in Nat \ {0} /\ CursorOf(s) \in Nat /\ Len(handedOut) \in Nat
      /\ CursorOf(s) = IF s.currentIndex >= s.group THEN 0 ELSE s.currentIndex
  BY StoreIs DEF CursorOf
<1>3. SUFFICES Rotates(t, handedOut') /\ Follows(t, handedOut')
  BY DEF Rotation, ChangeRotates, Rotates
<1>4. CASE UNCHANGED <<addresses, handedOut>> BY <1>0, <1>4
<1>5. CASE /\ HasNextAddress(addresses) /\ addresses' = Advanced(addresses)
           /\ handedOut' = Append(handedOut, NextAddress(addresses))
  <2> DEFINE a == NextAddress(s)
             n == Len(handedOut)
             c == CursorOf(s)
  <2>1. /\ Grows(s, t) /\ t.currentIndex = c + 1 /\ c + 1 \in 1..Len(t.list) /\ a = t.list[c + 1] /\ a \in Nat
    BY <1>5, AdvancedOK
  <2>2. Len(handedOut') = n + 1 /\ handedOut'[n + 1] = a /\ \A i \in 1..n : handedOut'[i] = handedOut[i]
    BY <1>5, <2>1
  <2>3. c \in Nat /\ n \in Nat BY <1>2
  <2> HIDE DEF a, n, c
  <2>4. Follows(t, handedOut')
    <3>1. t.currentIndex >= c + 1 BY <2>1, <2>3
    <3> QED BY <2>1, <2>2, <3>1 DEF Follows, LastPlaceIs
  <2>5. Rotates(t, handedOut) BY <1>0, <1>1, <2>1, OldPairs
  <2>6. ASSUME t.group > 1, handedOut # <<>>, handedOut[n] = a PROVE HasLost(t) /\ a = t.list[1]
    <3>0. PICK p \in 1..Len(s.list) : LastPlaceIs(s, handedOut, p) BY <1>0, <2>6 DEF Follows
    <3>1. /\ handedOut[n] = s.list[p]
          /\ s.currentIndex >= p \/ s.currentIndex = 0
          /\ ~HasLost(s) => s.currentIndex = p \/ (s.currentIndex = 0 /\ p = s.group)
      BY <3>0 DEF LastPlaceIs, n
    <3>2. /\ p \in 1..Len(t.list) /\ handedOut[n] = t.list[p]
          /\ p <= s.group
          /\ ~HasLost(t) => ~HasLost(s)
      BY <1>1, <2>1, <3>1, PlaceKept
    <3>3. p = c + 1
      <4>1. \A i, j \in 1..Len(t.list) : i < j => t.list[i] < t.list[j] BY <1>1 DEF AddressesOK, StoreOK
      <4>2. t.list \in Seq(Nat) /\ Len(t.list) \in Nat BY <1>1, StoreIs
      <4>3. t.list[p] = t.list[c + 1] BY <2>1, <2>6, <3>2
      <4> QED BY <2>1, <2>3, <3>2, <4>1, <4>2, <4>3
    <3>4. c = 0 BY <1>2, <2>3, <3>1, <3>3 DEF c
    <3>5. ASSUME ~HasLost(t) PROVE FALSE
      <4>1. s.currentIndex = 1 \/ (s.currentIndex = 0 /\ 1 = s.group) BY <3>1, <3>2, <3>3, <3>4, <3>5
      <4>2. s.group > 1 BY <2>1, <2>6 DEF Grows
      <4> QED BY <1>2, <3>4, <4>1, <4>2 DEF c
    <3> QED BY <2>1, <3>4, <3>5
  <2>7. Rotates(t, handedOut')
    <3> SUFFICES ASSUME t.group > 1, NEW i \in 1..Len(handedOut') - 1, handedOut'[i] = handedOut'[i + 1]
                 PROVE  HasLost(t) /\ handedOut'[i] = t.list[1]
      BY DEF Rotates
    <3>1. CASE i < n
      <4>1. i \in 1..Len(handedOut) - 1 /\ handedOut[i] = handedOut[i + 1] /\ handedOut'[i] = handedOut[i]
        BY <2>2, <2>3, <3>1 DEF n
      <4> QED BY <2>5, <4>1 DEF Rotates
    <3>2. CASE i = n
      <4>1. handedOut # <<>> /\ handedOut[n] = a /\ handedOut'[i] = a BY <1>2, <2>2, <3>2 DEF n
      <4> QED BY <2>6, <4>1
    <3> QED BY <2>2, <2>3, <3>1, <3>2
  <2> QED BY <2>4, <2>7
<1>6. CASE addresses' \in AfterThrow(addresses) /\ UNCHANGED handedOut
  <2>1. /\ Grows(s, t)
        /\ \/ t.currentIndex = CursorOf(s)
           \/ t.currentIndex = CursorOf(s) + 1 /\ HasLost(t) /\ Len(t.list) <= CursorOf(s)
    BY <1>6, AfterThrowOK
  <2>2. Rotates(t, handedOut) BY <1>0, <1>1, <2>1, OldPairs
  <2>3. ASSUME handedOut # <<>>
        PROVE  \E p \in 1..Len(t.list) : LastPlaceIs(t, handedOut, p)
    <3>1. PICK p \in 1..Len(s.list) : LastPlaceIs(s, handedOut, p) BY <1>0, <2>3 DEF Follows
    <3>2. /\ p \in 1..Len(t.list) /\ handedOut[Len(handedOut)] = t.list[p]
          /\ p <= s.group
          /\ ~HasLost(t) => ~HasLost(s)
      BY <1>1, <2>1, <3>1, PlaceKept DEF LastPlaceIs
    <3>3. t.group = s.group /\ Len(t.list) \in Nat BY <1>1, <2>1, StoreIs DEF Grows
    <3>4. LastPlaceIs(t, handedOut, p) BY <1>2, <2>1, <3>1, <3>2, <3>3 DEF LastPlaceIs
    <3> QED BY <3>2, <3>4
  <2>4. Follows(t, handedOut) BY <2>3 DEF Follows
  <2> QED BY <1>6, <2>2, <2>4
<1> QED BY <1>4, <1>5, <1>6 DEF AddressStep

-----------------------------------------------------------------------------
(* What the actions do, in one form for all kinds of calls.                *)

StartStep ==
  \E r : /\ CallOK(r) /\ call' = r /\ pc' = "collect"
         /\ trx' = [inputs |-> <<>>, outputs |-> OutputsOf(r), fee |-> 0]
         /\ sums' = [binSize |-> SizeOf(trx'), totalIn |-> 0,
                     required |-> (IF r.kind = "included" THEN 0 ELSE SizeOf(trx') * r.rate) + Total(r.dests)]
         /\ collector' = NewCollector /\ calls' \in 0..MaxCalls /\ UNCHANGED wallet

Grown == Append(trx.inputs, NextUtxo(AtNext(collector)))
SumsFor(size) == [binSize |-> size, required |-> size * call.rate + Amount, totalIn |-> TotalAmount(Grown)]
TrxWith(outputs, size) == [inputs |-> Grown, outputs |-> outputs, fee |-> size * call.rate]
RoundSize == sums.binSize + RefSize

NextInput ==
  /\ pc = "collect" /\ HasNextUtxo(collector) /\ Needs
  /\ collector' = AfterNext(AtNext(collector)) /\ UNCHANGED <<wallet, calls, call>>

(* One round: no change yet, change given up for want of an address or of  *)
(* an output, change added, change rewritten.                              *)
RoundWithout ==
  /\ TotalAmount(Grown) <= RoundSize * call.rate + Amount
  /\ trx' = TrxWith(trx.outputs, RoundSize) /\ sums' = SumsFor(RoundSize) /\ UNCHANGED pc
RoundFails == pc' = "thrown" /\ UNCHANGED <<trx, sums>>
RoundAdds ==
  LET s == SumsFor(RoundSize + OutputSize) IN
  /\ Len(trx.outputs) = Len(OutputsOf(call)) /\ ChangeAt <= Len(trx.outputs) + 1
  /\ TotalAmount(Grown) > RoundSize * call.rate + Amount
  /\ trx' = TrxWith([Append(trx.outputs, 0) EXCEPT ![ChangeAt] = s.totalIn - s.required], RoundSize + OutputSize)
  /\ sums' = s /\ UNCHANGED pc
RoundRewrites ==
  LET s == SumsFor(RoundSize) IN
  /\ Len(trx.outputs) # Len(OutputsOf(call))
  /\ TotalAmount(Grown) > RoundSize * call.rate + Amount
  /\ trx' = TrxWith([trx.outputs EXCEPT ![ChangeAt] = s.totalIn - s.required], RoundSize)
  /\ sums' = s /\ UNCHANGED pc
Round == NextInput /\ call.kind # "included" /\ (RoundWithout \/ RoundFails \/ RoundAdds \/ RoundRewrites)

IncludedRound ==
  /\ NextInput /\ call.kind = "included" /\ UNCHANGED pc
  /\ trx' = [inputs |-> Grown, outputs |-> trx.outputs, fee |-> trx.fee]
  /\ sums' = [binSize |-> sums.binSize, required |-> sums.required, totalIn |-> TotalAmount(Grown)]

(* The end of a transfer with its fee included.                            *)
WithOutputs(outputs) == [inputs |-> trx.inputs, outputs |-> outputs, fee |-> trx.fee]
FinalOutputs(outputs) ==
  \/ sums.totalIn > Amount /\ outputs = Append(trx.outputs, sums.totalIn - Amount)
  \/ sums.totalIn <= Amount /\ outputs = trx.outputs
IncludedEnd ==
  /\ pc = "finish" /\ call.kind = "included" /\ UNCHANGED <<wallet, calls, call, collector, sums>>
  /\ \/ pc' = "thrown" /\ UNCHANGED trx
     \/ \E out \in Seq(Int) :
          LET fee == SizeOf(WithOutputs(out)) * call.rate IN
          /\ FinalOutputs(out)
          /\ \/ pc' = "thrown" /\ trx' = WithOutputs(out)
             \/ pc' = "feeShortage" /\ trx' = [inputs |-> trx.inputs, outputs |-> out, fee |-> fee]
             \/ /\ pc' = "built" /\ out # <<>> /\ ~(out[1] < fee)
                /\ trx' = [inputs |-> trx.inputs, outputs |-> [out EXCEPT ![1] = @ - fee], fee |-> fee]

LEMMA StartIs ==
  ASSUME BuilderKinds, StartTransfer \/ StartIncluded \/ StartTicket \/ StartPool
  PROVE  StartStep
<1>1. ASSUME NEW kind \in Kinds, NEW r \in {q \in Requests : q.kind = kind}, calls < MaxCalls, calls' = calls + 1,
             call' = r, trx' = [NoTrx EXCEPT !.outputs = OutputsOf(r)],
             sums' = [binSize |-> SizeOf(trx'), totalIn |-> 0, required |-> IF kind = "included" THEN FeeWithin(r, SizeOf(trx')) ELSE FeeOnTop(r, SizeOf(trx'))],
             collector' = NewCollector, pc' = "collect", UNCHANGED wallet
      PROVE  StartStep
  <2>1. CallOK(r) /\ r.kind = kind BY <1>1, RequestOK
  <2>2. trx' = [inputs |-> <<>>, outputs |-> OutputsOf(r), fee |-> 0] BY <1>1 DEF NoTrx
  <2>3. Total(r.dests) \in Nat BY <2>1, CallFacts
  <2>4. (IF kind = "included" THEN FeeWithin(r, SizeOf(trx')) ELSE FeeOnTop(r, SizeOf(trx')))
          = (IF kind = "included" THEN 0 ELSE SizeOf(trx') * r.rate) + Total(r.dests)
    BY <2>3 DEF FeeWithin, FeeOnTop
  <2>5. calls' \in 0..MaxCalls BY <1>1, ConstantsAre DEF BuilderKinds
  <2>6. /\ sums' = [binSize |-> SizeOf(trx'), totalIn |-> 0,
                    required |-> (IF r.kind = "included" THEN 0 ELSE SizeOf(trx') * r.rate) + Total(r.dests)]
        /\ collector' = NewCollector /\ pc' = "collect" /\ UNCHANGED wallet /\ call' = r
    BY <1>1, <2>1, <2>4
  <2> QED BY <2>1, <2>2, <2>5, <2>6, Zenon DEF StartStep
<1>2. CASE StartTransfer
  <2>1. "balance" \in Kinds BY DEF Kinds
  <2> QED BY <1>1, <1>2, <2>1, Zenon DEF StartTransfer, Begin
<1>3. CASE StartIncluded
  <2>1. "included" \in Kinds BY DEF Kinds
  <2> QED BY <1>1, <1>3, <2>1, Zenon DEF StartIncluded, Begin
<1>4. CASE StartTicket
  <2>1. "ticket" \in Kinds BY DEF Kinds
  <2> QED BY <1>1, <1>4, <2>1, Zenon DEF StartTicket, Begin
<1>5. CASE StartPool
  <2>1. "pool" \in Kinds BY DEF Kinds
  <2> QED BY <1>1, <1>5, <2>1, Zenon DEF StartPool, Begin
<1> QED BY <1>2, <1>3, <1>4, <1>5

LEMMA TrxIs ==
  ASSUME BuilderKinds
  PROVE  /\ trx = [inputs |-> trx.inputs, outputs |-> trx.outputs, fee |-> trx.fee]
         /\ trx.inputs \in Seq(Coins(wallet)) /\ trx.outputs \in Seq(Int) /\ trx.fee \in Nat
         /\ sums = [binSize |-> sums.binSize, required |-> sums.required, totalIn |-> sums.totalIn]
         /\ sums.binSize \in Nat /\ sums.required \in Nat /\ sums.totalIn \in Int /\ sums.totalIn = Spent
         /\ CallOK(call) /\ CoinLists /\ collector \in Cursors
BY DEF BuilderKinds

LEMMA RoundIs ==
  ASSUME BuilderKinds, CollectTransfer \/ CollectTicket \/ CollectPool
  PROVE  Round
<1> DEFINE ins == Grown
           t == [inputs |-> ins, outputs |-> trx.outputs, fee |-> RoundSize * call.rate]
           t2 == [inputs |-> ins, outputs |-> Append(trx.outputs, 0), fee |-> RoundSize * call.rate]
<1>0. /\ trx = [inputs |-> trx.inputs, outputs |-> trx.outputs, fee |-> trx.fee] /\ trx.outputs \in Seq(Int)
      /\ CallOK(call)
  BY TrxIs
<1>2. [t EXCEPT !.outputs = Append(@, 0)] = t2
  <2> HIDE DEF ins
  <2> QED OBVIOUS
<1>3. ASSUME NEW v, NEW k
      PROVE  /\ SetChange(t, v, k) = [inputs |-> ins, outputs |-> [trx.outputs EXCEPT ![k] = v.totalIn - v.required], fee |-> v.binSize * call.rate]
             /\ SetChange(t2, v, k) = [inputs |-> ins, outputs |-> [Append(trx.outputs, 0) EXCEPT ![k] = v.totalIn - v.required], fee |-> v.binSize * call.rate]
  <2> HIDE DEF ins
  <2>1. t.inputs = ins /\ t2.inputs = ins /\ t.outputs = trx.outputs /\ t2.outputs = Append(trx.outputs, 0) OBVIOUS
  <2> HIDE DEF t, t2
  <2> QED BY <2>1, Zenon DEF SetChange
<1>4. ASSUME NEW kind \in {"balance", "ticket", "pool"}, NEW k, NEW without \in BOOLEAN,
             CollectUtxoRef(kind, k, without), k = ChangeAt, without <=> Len(trx.outputs) = Len(OutputsOf(call))
      PROVE  Round
  <2>1. NextInput /\ call.kind = kind BY <1>4 DEF CollectUtxoRef, NextInput
  <2>2. call.kind # "included" BY <2>1
  <2> DEFINE s == SumsFor(RoundSize)
             s2 == SumsFor(RoundSize + OutputSize)
  <2>3. /\ s.totalIn = TotalAmount(Grown) /\ s.required = RoundSize * call.rate + Amount /\ s.binSize = RoundSize
        /\ s2.binSize = RoundSize + OutputSize
    BY DEF SumsFor
  <2>4. \/ s.totalIn <= s.required /\ trx' = t /\ sums' = s /\ pc' = pc
        \/ s.totalIn > s.required /\ without /\ WithChangeAddress(
              IF k > Len(t2.outputs) THEN pc' = "thrown" /\ UNCHANGED <<trx, sums>>
              ELSE trx' = SetChange(t2, s2, k) /\ sums' = s2 /\ UNCHANGED pc)
        \/ s.totalIn > s.required /\ ~without /\ trx' = SetChange(t, s, k) /\ sums' = s /\ pc' = pc
    BY <1>4, <1>2, Zenon DEF CollectUtxoRef, SumsFor, RoundSize, SizeWithChange, Grown
  <2>5. CASE s.totalIn <= s.required /\ trx' = t /\ sums' = s /\ pc' = pc
    <3>1. RoundWithout BY <2>3, <2>5, Zenon DEF RoundWithout, TrxWith
    <3> QED BY <2>1, <2>2, <3>1 DEF Round
  <2>6. CASE s.totalIn > s.required /\ ~without /\ trx' = SetChange(t, s, k) /\ sums' = s /\ pc' = pc
    <3>1. trx' = TrxWith([trx.outputs EXCEPT ![ChangeAt] = s.totalIn - s.required], RoundSize)
      BY <1>3, <1>4, <2>3, <2>6, Zenon DEF TrxWith
    <3>2. RoundRewrites BY <1>4, <2>3, <2>6, <3>1, Zenon DEF RoundRewrites
    <3> QED BY <2>1, <2>2, <3>2 DEF Round
  <2>7. CASE s.totalIn > s.required /\ without /\ WithChangeAddress(
              IF k > Len(t2.outputs) THEN pc' = "thrown" /\ UNCHANGED <<trx, sums>>
              ELSE trx' = SetChange(t2, s2, k) /\ sums' = s2 /\ UNCHANGED pc)
    <3>1. \/ pc' = "thrown" /\ trx' = trx /\ sums' = sums
          \/ ~(k > Len(t2.outputs)) /\ trx' = SetChange(t2, s2, k) /\ sums' = s2 /\ pc' = pc
      BY <2>7, Zenon DEF WithChangeAddress
    <3>2. CASE pc' = "thrown" /\ trx' = trx /\ sums' = sums BY <2>1, <2>2, <3>2, Zenon DEF Round, RoundFails
    <3>3. CASE ~(k > Len(t2.outputs)) /\ trx' = SetChange(t2, s2, k) /\ sums' = s2 /\ pc' = pc
      <4>1. trx' = TrxWith([Append(trx.outputs, 0) EXCEPT ![ChangeAt] = s2.totalIn - s2.required], RoundSize + OutputSize)
        BY <1>3, <1>4, <2>3, <3>3, Zenon DEF TrxWith
      <4>2. ChangeAt <= Len(trx.outputs) + 1
        <5>1. Len(t2.outputs) = Len(trx.outputs) + 1 /\ Len(trx.outputs) \in Nat BY <1>0
        <5>2. ChangeAt \in Nat BY DEF ChangeAt
        <5> HIDE DEF t2
        <5> QED BY <1>4, <3>3, <5>1, <5>2
      <4>3. RoundAdds BY <1>4, <2>3, <2>7, <3>3, <4>1, <4>2, Zenon DEF RoundAdds
      <4> QED BY <2>1, <2>2, <4>3 DEF Round
    <3> QED BY <3>1, <3>2, <3>3
  <2> QED BY <2>4, <2>5, <2>6, <2>7, Zenon
<1>5. CASE CollectTransfer
  <2>1. call.kind = "balance" BY <1>5 DEF CollectTransfer, CollectUtxoRef
  <2>2. 2 = ChangeAt /\ OutputsOf(call) = call.dests BY <2>1 DEF ChangeAt, OutputsOf
  <2>3. CollectUtxoRef("balance", 2, Len(trx.outputs) = Len(OutputsOf(call))) BY <1>5, <2>2, Zenon DEF CollectTransfer
  <2> QED BY <1>4, <2>2, <2>3, Zenon
<1>6. CASE CollectTicket
  <2>1. call.kind = "ticket" BY <1>6 DEF CollectTicket, CollectUtxoRef
  <2>2. 1 = ChangeAt /\ OutputsOf(call) = <<>> BY <2>1 DEF ChangeAt, OutputsOf
  <2>3. (Len(trx.outputs) + 1 = 1) <=> Len(trx.outputs) = Len(OutputsOf(call)) BY <1>0, <2>2
  <2>4. CollectUtxoRef("ticket", 1, Len(trx.outputs) + 1 = 1) BY <1>6, Zenon DEF CollectTicket
  <2>5. (Len(trx.outputs) + 1 = 1) \in BOOLEAN OBVIOUS
  <2> QED BY <1>4, <2>2, <2>3, <2>4, <2>5, Zenon
<1>7. CASE CollectPool
  <2>1. call.kind = "pool" BY <1>7 DEF CollectPool, CollectUtxoRef
  <2>2. 1 = ChangeAt /\ OutputsOf(call) = <<>> BY <1>0, <2>1 DEF ChangeAt, OutputsOf, CallOK
  <2>3. (trx.outputs = <<>>) <=> Len(trx.outputs) = Len(OutputsOf(call)) BY <1>0, <2>2
  <2>4. CollectUtxoRef("pool", 1, trx.outputs = <<>>) BY <1>7, Zenon DEF CollectPool
  <2>5. (trx.outputs = <<>>) \in BOOLEAN OBVIOUS
  <2> QED BY <1>4, <2>2, <2>3, <2>4, <2>5, Zenon
<1> QED BY <1>5, <1>6, <1>7

LEMMA IncludedRoundIs ==
  ASSUME BuilderKinds, CollectIncluded
  PROVE  IncludedRound
<1>0. /\ trx = [inputs |-> trx.inputs, outputs |-> trx.outputs, fee |-> trx.fee]
      /\ sums = [binSize |-> sums.binSize, required |-> sums.required, totalIn |-> sums.totalIn]
  BY TrxIs
<1>1. NextInput /\ call.kind = "included" /\ UNCHANGED pc BY DEF CollectIncluded, NextInput
<1>2. trx' = [trx EXCEPT !.inputs = Grown] /\ sums' = [sums EXCEPT !.totalIn = TotalAmount(Grown)]
  BY Zenon DEF CollectIncluded, Grown
<1>3. trx' = [inputs |-> Grown, outputs |-> trx.outputs, fee |-> trx.fee] BY <1>0, <1>2
<1>4. sums' = [binSize |-> sums.binSize, required |-> sums.required, totalIn |-> TotalAmount(Grown)] BY <1>0, <1>2
<1> QED BY <1>1, <1>3, <1>4 DEF IncludedRound

LEMMA DiscountIs ==
  ASSUME NEW out \in Seq(Int), FinalOutputs(out), DiscountFee(WithOutputs(out)),
         pc = "finish" /\ call.kind = "included" /\ UNCHANGED <<wallet, calls, call, collector, sums>>
  PROVE  IncludedEnd
<1> DEFINE t == WithOutputs(out)
           fee == SizeOf(t) * call.rate
<1>1. t.outputs = out /\ t.inputs = trx.inputs /\ [t EXCEPT !.fee = fee] = [inputs |-> trx.inputs, outputs |-> out, fee |-> fee]
  <2> HIDE DEF fee
  <2> QED BY DEF WithOutputs
<1> HIDE DEF t
<1>2. \/ out = <<>> /\ pc' = "thrown" /\ trx' = t
      \/ out # <<>> /\ out[1] < fee /\ pc' = "feeShortage" /\ trx' = [inputs |-> trx.inputs, outputs |-> out, fee |-> fee]
      \/ out # <<>> /\ ~(out[1] < fee) /\ pc' = "built" /\ trx' = [inputs |-> trx.inputs, outputs |-> [out EXCEPT ![1] = @ - fee], fee |-> fee]
  BY <1>1, Zenon DEF DiscountFee, Discounted, t
<1> QED BY <1>2, Zenon DEF IncludedEnd, t

LEMMA IncludedEndIs ==
  ASSUME BuilderKinds, FinishIncluded
  PROVE  IncludedEnd
<1>0. /\ trx = [inputs |-> trx.inputs, outputs |-> trx.outputs, fee |-> trx.fee] /\ trx.outputs \in Seq(Int)
      /\ sums.totalIn \in Int /\ Amount \in Nat /\ trx = WithOutputs(trx.outputs)
  <2>1. CallOK(call) BY TrxIs
  <2> QED BY <2>1, TrxIs, CallFacts DEF Amount, WithOutputs
<1>1. pc = "finish" /\ call.kind = "included" /\ UNCHANGED <<wallet, calls, call, collector>> BY DEF FinishIncluded
<1>2. CASE sums.totalIn > Amount /\ WithChangeAddress(DiscountFee([trx EXCEPT !.outputs = Append(@, sums.totalIn - Amount)]) /\ UNCHANGED sums)
  <2> DEFINE out == Append(trx.outputs, sums.totalIn - Amount)
  <2>1. [trx EXCEPT !.outputs = Append(@, sums.totalIn - Amount)] = WithOutputs(out)
    <3> DEFINE x == sums.totalIn - Amount
    <3> HIDE DEF x
    <3> DEFINE r == [inputs |-> trx.inputs, outputs |-> trx.outputs, fee |-> trx.fee]
    <3>1. [r EXCEPT !.outputs = Append(@, x)] = WithOutputs(Append(trx.outputs, x)) BY DEF WithOutputs
    <3>2. trx = r BY <1>0
    <3> HIDE DEF r
    <3> QED BY <3>1, <3>2, Zenon DEF x
  <2>2. out \in Seq(Int) /\ FinalOutputs(out) BY <1>0, <1>2 DEF FinalOutputs
  <2> HIDE DEF out
  <2>3. \/ DiscountFee(WithOutputs(out)) /\ UNCHANGED sums
        \/ pc' = "thrown" /\ UNCHANGED <<handedOut, trx, sums>>
    BY <1>2, <2>1, Zenon DEF WithChangeAddress
  <2>4. CASE DiscountFee(WithOutputs(out)) /\ UNCHANGED sums BY <1>1, <2>2, <2>4, DiscountIs
  <2>5. CASE pc' = "thrown" /\ UNCHANGED <<handedOut, trx, sums>> BY <1>1, <2>5 DEF IncludedEnd
  <2> QED BY <2>3, <2>4, <2>5
<1>3. CASE sums.totalIn <= Amount /\ DiscountFee(trx) /\ UNCHANGED <<addresses, handedOut, sums>>
  <2>1. FinalOutputs(trx.outputs) /\ DiscountFee(WithOutputs(trx.outputs)) BY <1>0, <1>3, Zenon DEF FinalOutputs
  <2>2. UNCHANGED <<wallet, calls, call, collector, sums>> BY <1>1, <1>3
  <2> QED BY <1>0, <1>1, <2>1, <2>2, DiscountIs
<1> QED BY <1>2, <1>3, Zenon DEF FinishIncluded

-----------------------------------------------------------------------------
(* Types are kept.                                                         *)

LEMMA SpentKept ==
  ASSUME NEW i, UNCHANGED wallet
  PROVE  TotalAmount(i)' = TotalAmount(i')
BY Zenon DEF TotalAmount, AmountOf

LEMMA GrownOK ==
  ASSUME BuilderKinds, HasNextUtxo(collector)
  PROVE  /\ Grown \in Seq(Coins(wallet)) /\ Grown # <<>> /\ Len(Grown) = Len(trx.inputs) + 1
         /\ TotalAmount(Grown) \in Int /\ AfterNext(AtNext(collector)) \in Cursors
<1>1. trx.inputs \in Seq(Coins(wallet)) /\ CoinLists /\ collector \in Cursors BY TrxIs
<1>2. NextUtxo(AtNext(collector)) \in Coins(wallet) /\ AfterNext(AtNext(collector)) \in Cursors BY <1>1, NextCoin
<1>3. Grown \in Seq(Coins(wallet)) /\ Grown # <<>> /\ Len(Grown) = Len(trx.inputs) + 1 BY <1>1, <1>2 DEF Grown
<1> QED BY <1>1, <1>2, <1>3, AmountOfInputs

(* The part of the types that the steps of a call may disturb.             *)
TrxKinds ==
  /\ trx \in [inputs : Seq(Coins(wallet)), outputs : Seq(Int), fee : Nat]
  /\ sums \in [binSize : Nat, required : Nat, totalIn : Int] /\ sums.totalIn = Spent

LEMMA SumsKinds ==
  ASSUME BuilderKinds, HasNextUtxo(collector), UNCHANGED wallet, NEW size \in Nat, NEW outputs \in Seq(Int),
         trx' = TrxWith(outputs, size), sums' = SumsFor(size)
  PROVE  TrxKinds'
<1>1. /\ Grown \in Seq(Coins(wallet)) /\ TotalAmount(Grown) \in Int BY GrownOK
<1>2. CallOK(call) BY TrxIs
<1>3. call.rate \in Nat /\ Amount \in Nat BY <1>2, CallFacts DEF Amount
<1>4. size * call.rate \in Nat BY <1>3, TimesNat
<1>5. trx' \in [inputs : Seq(Coins(wallet)), outputs : Seq(Int), fee : Nat] /\ trx'.inputs = Grown
  BY <1>1, <1>4 DEF TrxWith
<1>6. sums'.totalIn = TotalAmount(Grown) /\ sums' \in [binSize : Nat, required : Nat, totalIn : Int]
  <2> DEFINE f == size * call.rate
             a == Amount
  <2>1. sums' = [binSize |-> size, required |-> f + a, totalIn |-> TotalAmount(Grown)] BY DEF SumsFor
  <2>2. f \in Nat /\ a \in Nat BY <1>3, <1>4
  <2> HIDE DEF f, a
  <2> QED BY <1>1, <2>1, <2>2
<1>7. Spent' = TotalAmount(trx'.inputs) BY Zenon DEF Spent, TotalAmount, AmountOf
<1> QED BY <1>5, <1>6, <1>7 DEF TrxKinds, Coins

LEMMA ChangedOutputs ==
  ASSUME NEW s \in Seq(Int), NEW k \in Nat, NEW x \in Int
  PROVE  [s EXCEPT ![k] = x] \in Seq(Int) /\ Len([s EXCEPT ![k] = x]) = Len(s)
<1>1. CASE k \in 1..Len(s) BY <1>1, ExceptSeq
<1>2. CASE k \notin 1..Len(s)
  <2>1. [s EXCEPT ![k] = x] = s BY <1>2
  <2> QED BY <2>1
<1> QED BY <1>1, <1>2

(* What a round requires and what it has.                                  *)
LEMMA SumsAre ==
  ASSUME BuilderKinds, HasNextUtxo(collector), NEW size \in Nat
  PROVE  /\ SumsFor(size).totalIn = TotalAmount(Grown) /\ SumsFor(size).required = size * call.rate + Amount
         /\ SumsFor(size).binSize = size /\ size * call.rate \in Nat /\ Amount \in Nat /\ TotalAmount(Grown) \in Int
         /\ SumsFor(size).totalIn - SumsFor(size).required \in Int
<1>1. CallOK(call) /\ TotalAmount(Grown) \in Int BY TrxIs, GrownOK
<1>2. call.rate \in Nat /\ Amount \in Nat BY <1>1, CallFacts DEF Amount
<1>3. size * call.rate \in Nat BY <1>2, TimesNat
<1> DEFINE f == size * call.rate
<1>4. SumsFor(size) = [binSize |-> size, required |-> f + Amount, totalIn |-> TotalAmount(Grown)] BY DEF SumsFor
<1>5. f \in Nat BY <1>3
<1> HIDE DEF f
<1>6. /\ SumsFor(size).totalIn = TotalAmount(Grown) /\ SumsFor(size).required = f + Amount
      /\ SumsFor(size).binSize = size
      /\ SumsFor(size).totalIn - SumsFor(size).required \in Int
  BY <1>1, <1>2, <1>4, <1>5
<1> QED BY <1>1, <1>2, <1>3, <1>6 DEF f

(* Everything but the change addresses, as the steps leave it.             *)
OtherKinds ==
  /\ CoinLists /\ CallOK(call) /\ collector \in Cursors /\ calls \in 0..MaxCalls
  /\ pc \in Ended \cup {"collect", "finish"} /\ TrxKinds

LEMMA KindsAre == BuilderKinds <=> OtherKinds /\ AddressesOK(addresses) /\ handedOut \in Seq(Nat)
BY DEF BuilderKinds, OtherKinds, TrxKinds

LEMMA StartKinds ==
  ASSUME BuilderKinds, StartStep
  PROVE  OtherKinds'
<1>0. CoinLists BY TrxIs
<1>1. PICK r : /\ CallOK(r) /\ call' = r /\ pc' = "collect"
               /\ trx' = [inputs |-> <<>>, outputs |-> OutputsOf(r), fee |-> 0]
               /\ sums' = [binSize |-> SizeOf(trx'), totalIn |-> 0,
                           required |-> (IF r.kind = "included" THEN 0 ELSE SizeOf(trx') * r.rate) + Total(r.dests)]
               /\ collector' = NewCollector /\ calls' \in 0..MaxCalls /\ UNCHANGED wallet
  BY Zenon DEF StartStep
<1>2. OutputsOf(r) \in Seq(Int) /\ Total(r.dests) \in Nat /\ r.rate \in Nat BY <1>1, CallFacts
<1>3. trx'.inputs = <<>> /\ trx'.outputs = OutputsOf(r) /\ trx'.fee = 0 BY <1>1
<1>4. SizeOf(trx') \in Nat
  <2>1. trx'.inputs \in Seq(Nat) /\ trx'.outputs \in Seq(Int) BY <1>2, <1>3
  <2> QED BY <2>1, SizeIsNat
<1>5. trx' \in [inputs : Seq(Coins(wallet)), outputs : Seq(Int), fee : Nat] BY <1>1, <1>2
<1>6. sums' \in [binSize : Nat, required : Nat, totalIn : Int] /\ sums'.totalIn = 0
  <2> DEFINE size == SizeOf(trx')
             f == size * r.rate
             q == (IF r.kind = "included" THEN 0 ELSE f) + Total(r.dests)
  <2>1. f \in Nat
    <3> HIDE DEF size
    <3> QED BY <1>2, <1>4, TimesNat DEF size
  <2> HIDE DEF f
  <2>2. q \in Nat BY <1>2, <2>1
  <2>3. sums' = [binSize |-> size, totalIn |-> 0, required |-> q] BY <1>1, Zenon DEF f
  <2> HIDE DEF q
  <2> QED BY <1>4, <2>2, <2>3
<1>7. Spent' = 0
  <2>1. Spent' = TotalAmount(<<>>) BY <1>1, <1>3, Zenon DEF Spent, TotalAmount, AmountOf
  <2> QED BY <2>1, NoInputs
<1>8. TrxKinds' BY <1>1, <1>5, <1>6, <1>7 DEF TrxKinds, Coins
<1>9. collector' \in Cursors' /\ CoinLists'
  <2>1. Len(wallet.lists) \in Nat \ {0} BY <1>0 DEF CoinLists
  <2> QED BY <1>0, <1>1, <2>1 DEF NewCollector, Cursors, CoinLists, NoCoin
<1> QED BY <1>1, <1>8, <1>9 DEF OtherKinds, CallOK

LEMMA RoundKinds ==
  ASSUME BuilderKinds, Round
  PROVE  OtherKinds'
<1>1. /\ NextInput /\ CoinLists /\ CallOK(call) /\ calls \in 0..MaxCalls /\ trx.outputs \in Seq(Int)
      /\ pc \in Ended \cup {"collect", "finish"} /\ sums.binSize \in Nat /\ TrxKinds
  BY KindsAre, TrxIs DEF Round, OtherKinds
<1>2. HasNextUtxo(collector) /\ UNCHANGED <<wallet, calls, call>> /\ collector' = AfterNext(AtNext(collector)) BY <1>1 DEF NextInput
<1>3. collector' \in Cursors' /\ CoinLists' /\ CallOK(call)' /\ calls' \in 0..MaxCalls
  BY <1>1, <1>2, GrownOK DEF Cursors, CoinLists, CallOK
<1>4. RoundSize \in Nat /\ RoundSize + OutputSize \in Nat BY <1>1, ConstantsAre DEF RoundSize
<1>5. ChangeAt \in Nat BY DEF ChangeAt
<1>6. CASE RoundWithout
  BY <1>1, <1>2, <1>3, <1>4, <1>6, SumsKinds DEF RoundWithout, OtherKinds
<1>7. CASE RoundFails
  <2>1. TrxKinds' BY <1>1, <1>2, <1>7 DEF RoundFails, TrxKinds, Spent, TotalAmount, AmountOf, Coins
  <2> QED BY <1>3, <1>7, <2>1 DEF OtherKinds, RoundFails, Ended
<1>8. CASE RoundAdds
  <2> DEFINE s == SumsFor(RoundSize + OutputSize)
             out == [Append(trx.outputs, 0) EXCEPT ![ChangeAt] = s.totalIn - s.required]
  <2>1. out \in Seq(Int)
    <3> DEFINE x == s.totalIn - s.required
    <3>1. x \in Int BY <1>2, <1>4, SumsAre
    <3> HIDE DEF x
    <3>2. Append(trx.outputs, 0) \in Seq(Int) BY <1>1
    <3>3. [Append(trx.outputs, 0) EXCEPT ![ChangeAt] = x] \in Seq(Int) BY <1>5, <3>1, <3>2, ChangedOutputs
    <3> QED BY <3>3 DEF x
  <2>2. trx' = TrxWith(out, RoundSize + OutputSize) /\ sums' = SumsFor(RoundSize + OutputSize) /\ pc' = pc BY <1>8, Zenon DEF RoundAdds
  <2> HIDE DEF out
  <2>3. TrxKinds' BY <1>2, <1>4, <2>1, <2>2, SumsKinds
  <2> QED BY <1>1, <1>3, <2>2, <2>3 DEF OtherKinds
<1>9. CASE RoundRewrites
  <2> DEFINE s == SumsFor(RoundSize)
             out == [trx.outputs EXCEPT ![ChangeAt] = s.totalIn - s.required]
  <2>1. out \in Seq(Int)
    <3> DEFINE x == s.totalIn - s.required
    <3>1. x \in Int BY <1>2, <1>4, SumsAre
    <3> HIDE DEF x
    <3>2. [trx.outputs EXCEPT ![ChangeAt] = x] \in Seq(Int) BY <1>1, <1>5, <3>1, ChangedOutputs
    <3> QED BY <3>2 DEF x
  <2>2. trx' = TrxWith(out, RoundSize) /\ sums' = SumsFor(RoundSize) /\ pc' = pc BY <1>9, Zenon DEF RoundRewrites
  <2> HIDE DEF out
  <2>3. TrxKinds' BY <1>2, <1>4, <2>1, <2>2, SumsKinds
  <2> QED BY <1>1, <1>3, <2>2, <2>3 DEF OtherKinds
<1> QED BY <1>6, <1>7, <1>8, <1>9 DEF Round

LEMMA IncludedRoundKinds ==
  ASSUME BuilderKinds, IncludedRound
  PROVE  OtherKinds'
<1>1. /\ NextInput /\ CoinLists /\ CallOK(call) /\ calls \in 0..MaxCalls /\ trx.outputs \in Seq(Int) /\ trx.fee \in Nat
      /\ pc \in Ended \cup {"collect", "finish"} /\ sums.binSize \in Nat /\ sums.required \in Nat
  BY KindsAre, TrxIs DEF IncludedRound, OtherKinds
<1>2. HasNextUtxo(collector) /\ UNCHANGED <<wallet, calls, call>> /\ collector' = AfterNext(AtNext(collector)) BY <1>1 DEF NextInput
<1>3. collector' \in Cursors' /\ CoinLists' /\ CallOK(call)' /\ calls' \in 0..MaxCalls
  BY <1>1, <1>2, GrownOK DEF Cursors, CoinLists, CallOK
<1>4. Grown \in Seq(Coins(wallet)) /\ TotalAmount(Grown) \in Int BY <1>2, GrownOK
<1>5. /\ trx' = [inputs |-> Grown, outputs |-> trx.outputs, fee |-> trx.fee] /\ UNCHANGED pc
      /\ sums' = [binSize |-> sums.binSize, required |-> sums.required, totalIn |-> TotalAmount(Grown)]
  BY DEF IncludedRound
<1>6. trx' \in [inputs : Seq(Coins(wallet)), outputs : Seq(Int), fee : Nat] /\ trx'.inputs = Grown BY <1>1, <1>4, <1>5
<1>7. sums' \in [binSize : Nat, required : Nat, totalIn : Int] /\ sums'.totalIn = TotalAmount(Grown) BY <1>1, <1>4, <1>5
<1>8. Spent' = TotalAmount(trx'.inputs) BY <1>2, Zenon DEF Spent, TotalAmount, AmountOf
<1>9. TrxKinds' BY <1>2, <1>6, <1>7, <1>8 DEF TrxKinds, Coins
<1> QED BY <1>1, <1>3, <1>5, <1>9 DEF OtherKinds

LEMMA IncludedEndKinds ==
  ASSUME BuilderKinds, IncludedEnd
  PROVE  OtherKinds'
<1>1. /\ CoinLists /\ CallOK(call) /\ calls \in 0..MaxCalls /\ collector \in Cursors /\ TrxKinds
      /\ trx.inputs \in Seq(Coins(wallet)) /\ trx.fee \in Nat
  BY KindsAre, TrxIs DEF OtherKinds
<1>2. UNCHANGED <<wallet, calls, call, collector, sums>> BY DEF IncludedEnd
<1>3. collector' \in Cursors' /\ CoinLists' /\ CallOK(call)' /\ calls' \in 0..MaxCalls
  BY <1>1, <1>2 DEF Cursors, CoinLists, CallOK
<1>4. ASSUME NEW o \in Seq(Int), NEW f \in Nat, trx' = [inputs |-> trx.inputs, outputs |-> o, fee |-> f]
      PROVE  TrxKinds'
  <2>1. trx' \in [inputs : Seq(Coins(wallet)), outputs : Seq(Int), fee : Nat] /\ trx'.inputs = trx.inputs BY <1>1, <1>4
  <2>2. Spent' = Spent BY <1>2, <2>1, Zenon DEF Spent, TotalAmount, AmountOf
  <2> QED BY <1>1, <1>2, <2>1, <2>2 DEF TrxKinds, Coins
<1>5. CASE pc' = "thrown" /\ UNCHANGED trx
  <2>1. trx' = [inputs |-> trx.inputs, outputs |-> trx.outputs, fee |-> trx.fee] /\ trx.outputs \in Seq(Int) BY <1>5, TrxIs
  <2>2. TrxKinds' BY <1>1, <1>4, <2>1
  <2> QED BY <1>3, <1>5, <2>2 DEF OtherKinds, Ended
<1>6. ASSUME NEW out \in Seq(Int),
             \/ pc' = "thrown" /\ trx' = WithOutputs(out)
             \/ pc' = "feeShortage" /\ trx' = [inputs |-> trx.inputs, outputs |-> out, fee |-> SizeOf(WithOutputs(out)) * call.rate]
             \/ pc' = "built" /\ trx' = [inputs |-> trx.inputs, outputs |-> [out EXCEPT ![1] = @ - SizeOf(WithOutputs(out)) * call.rate],
                                         fee |-> SizeOf(WithOutputs(out)) * call.rate] /\ out # <<>>
      PROVE  OtherKinds'
  <2> DEFINE fee == SizeOf(WithOutputs(out)) * call.rate
  <2>1. fee \in Nat
    <3>1. WithOutputs(out).inputs \in Seq(Coins(wallet)) /\ WithOutputs(out).outputs \in Seq(Int) BY <1>1 DEF WithOutputs
    <3> QED BY <1>1, <3>1, SizeIsNat, TimesNat, CallFacts
  <2> HIDE DEF fee
  <2>2. CASE pc' = "thrown" /\ trx' = WithOutputs(out)
    <3>1. TrxKinds' BY <1>1, <1>4, <2>2 DEF WithOutputs
    <3> QED BY <1>3, <2>2, <3>1 DEF OtherKinds, Ended
  <2>3. CASE pc' = "feeShortage" /\ trx' = [inputs |-> trx.inputs, outputs |-> out, fee |-> fee]
    <3>1. TrxKinds' BY <1>4, <2>1, <2>3
    <3> QED BY <1>3, <2>3, <3>1 DEF OtherKinds, Ended
  <2>4. CASE pc' = "built" /\ trx' = [inputs |-> trx.inputs, outputs |-> [out EXCEPT ![1] = @ - fee], fee |-> fee] /\ out # <<>>
    <3> DEFINE o == [out EXCEPT ![1] = @ - fee]
    <3>1. o \in Seq(Int)
      <4>1. out[1] - fee \in Int BY <2>1, <2>4
      <4>2. [out EXCEPT ![1] = out[1] - fee] \in Seq(Int) BY <4>1, ChangedOutputs
      <4> QED BY <4>2
    <3> HIDE DEF o
    <3>2. TrxKinds' BY <1>4, <2>1, <2>4, <3>1 DEF o
    <3> QED BY <1>3, <2>4, <3>2 DEF OtherKinds, Ended
  <2> QED BY <1>6, <2>2, <2>3, <2>4, Zenon DEF fee
<1> QED BY <1>5, <1>6, Zenon DEF IncludedEnd

(* Throw, EndOfLoop and Finish.                                            *)
QuietStep ==
  /\ UNCHANGED <<wallet, calls, call, trx, sums, addresses, handedOut>>
  /\ \/ pc' = "thrown" /\ UNCHANGED collector
     \/ pc = "collect" /\ Needs /\ ~HasNextUtxo(collector) /\ pc' = "shortage" /\ collector' = AtNext(collector)
     \/ pc = "collect" /\ ~Needs /\ pc' = "finish" /\ collector' = AtNext(collector)
     \/ pc = "finish" /\ call.kind # "included" /\ pc' = "built" /\ UNCHANGED collector

LEMMA QuietIs ==
  ASSUME Throw \/ EndOfLoop \/ Finish
  PROVE  QuietStep
<1>1. CASE Throw BY <1>1 DEF Throw, QuietStep
<1>2. CASE EndOfLoop BY <1>2 DEF EndOfLoop, QuietStep, LoopEnds
<1>3. CASE Finish BY <1>3 DEF Finish, QuietStep
<1> QED BY <1>1, <1>2, <1>3

LEMMA QuietKinds ==
  ASSUME BuilderKinds, QuietStep
  PROVE  OtherKinds'
<1>1. CoinLists /\ CallOK(call) /\ calls \in 0..MaxCalls /\ collector \in Cursors /\ TrxKinds
  BY KindsAre DEF OtherKinds
<1>2. UNCHANGED <<wallet, calls, call, trx, sums>> BY DEF QuietStep
<1>3. AtNext(collector) \in Cursors BY <1>1, EndCursor
<1>4. collector' \in Cursors' /\ CoinLists' /\ CallOK(call)' /\ calls' \in 0..MaxCalls
  BY <1>1, <1>2, <1>3 DEF Cursors, CoinLists, CallOK, QuietStep
<1>5. TrxKinds' BY <1>1, <1>2 DEF TrxKinds, Spent, TotalAmount, AmountOf, Coins
<1>6. pc' \in Ended \cup {"collect", "finish"} BY DEF QuietStep, Ended
<1> QED BY <1>4, <1>5, <1>6 DEF OtherKinds

(* Every step is one of these.                                             *)
LEMMA EveryStep ==
  ASSUME BuilderKinds, [Next]_vars
  PROVE  StartStep \/ Round \/ IncludedRound \/ IncludedEnd \/ QuietStep \/ UNCHANGED vars
<1>1. CASE StartTransfer \/ StartIncluded \/ StartTicket \/ StartPool BY <1>1, StartIs
<1>2. CASE Throw \/ EndOfLoop \/ Finish BY <1>2, QuietIs
<1>3. CASE CollectTransfer \/ CollectTicket \/ CollectPool BY <1>3, RoundIs
<1>4. CASE CollectIncluded BY <1>4, IncludedRoundIs
<1>5. CASE FinishIncluded BY <1>5, IncludedEndIs
<1> QED BY <1>1, <1>2, <1>3, <1>4, <1>5, Zenon DEF Next, Continue

LEMMA KindsInit == Init => BuilderKinds
<1> SUFFICES ASSUME Init PROVE BuilderKinds OBVIOUS
<1>0. MaxCoins \in Nat /\ MaxCalls \in Nat /\ Groups \subseteq Nat \ {0} BY BuilderAssumption
<1>1. ASSUME NEW n \in Nat \ {0}, wallet.lists \in [1..n -> BoundedSeq(Amounts, MaxCoins)] PROVE CoinLists
  <2>1. \A a \in 1..n : wallet.lists[a] \in Seq(Amounts) /\ Len(wallet.lists[a]) <= MaxCoins
    <3>1. \A a \in 1..n : wallet.lists[a] \in BoundedSeq(Amounts, MaxCoins) BY <1>1
    <3> QED BY <1>0, <3>1, BoundedIsSeq
  <2>2. wallet.lists \in [1..n -> Seq(Amounts)] BY <1>1, <2>1
  <2>3. wallet.lists \in Seq(Seq(Amounts)) /\ Len(wallet.lists) = n BY <2>2
  <2> QED BY <2>1, <2>3 DEF CoinLists
<1>2. CoinLists
  <2>1. \E n \in {2, 3} : wallet.lists \in [1..n -> BoundedSeq(Amounts, MaxCoins)]
    <3> DEFINE T(n) == [1..n -> BoundedSeq(Amounts, MaxCoins)]
    <3>1. \E l : (l \in T(2) \/ l \in T(3)) /\ \E k : wallet = [type |-> k, lists |-> l]
      BY Zenon DEF Init, Wallets
    <3> HIDE DEF T
    <3>2. wallet.lists \in T(2) \/ wallet.lists \in T(3) BY <3>1
    <3> QED BY <3>2 DEF T
  <2> QED BY <1>1, <2>1
<1>3. CallOK(call) BY DEF Init, CallOK, Kinds
<1>4. AddressesOK(addresses)
  <2>1. PICK g \in Groups : addresses = [list |-> <<>>, addressSerial |-> 0, currentIndex |-> 0, group |-> g]
    BY DEF Init, NewChangeStore
  <2> QED BY <1>0, <2>1 DEF AddressesOK, StoreKind, StoreOK, HasLost
<1>5. collector \in Cursors
  <2>1. Len(wallet.lists) \in Nat \ {0} BY <1>2 DEF CoinLists
  <2> QED BY <2>1 DEF Init, NewCollector, Cursors, NoCoin
<1>6. /\ trx = [inputs |-> <<>>, outputs |-> <<>>, fee |-> 0] /\ sums = [binSize |-> 0, required |-> 0, totalIn |-> 0]
      /\ handedOut = <<>> /\ calls = 0 /\ pc = "idle"
  BY DEF Init, NoTrx, NoSums
<1>7. Spent = 0
  <2>1. trx.inputs = <<>> BY <1>6
  <2> QED BY <2>1, NoInputs DEF Spent
<1> QED BY <1>0, <1>2, <1>3, <1>4, <1>5, <1>6, <1>7 DEF BuilderKinds, Ended

LEMMA KindsStep ==
  ASSUME BuilderKinds, [Next]_vars
  PROVE  BuilderKinds'
<1>1. AddressStep BY EveryAddressStep
<1>2. AddressesOK(addresses) /\ handedOut \in Seq(Nat) /\ OtherKinds BY KindsAre
<1>3. AddressesOK(addresses') /\ handedOut' \in Seq(Nat) BY <1>1, <1>2, AddressesKept
<1>4. CASE UNCHANGED vars
  <2>1. OtherKinds' BY <1>2, <1>4 DEF vars, OtherKinds, CoinLists, CallOK, Cursors, TrxKinds, Spent, TotalAmount, AmountOf, Coins
  <2> QED BY <1>3, <2>1 DEF BuilderKinds, OtherKinds, TrxKinds, AddressesOK, StoreKind, StoreOK
<1>5. CASE ~UNCHANGED vars
  <2>1. OtherKinds' BY <1>5, EveryStep, StartKinds, RoundKinds, IncludedRoundKinds, IncludedEndKinds, QuietKinds
  <2> QED BY <1>3, <2>1 DEF BuilderKinds, OtherKinds, TrxKinds, AddressesOK, StoreKind, StoreOK
<1> QED BY <1>4, <1>5

-----------------------------------------------------------------------------
(* The coins are taken in order.                                           *)

LEMMA RangeOfAppend ==
  ASSUME NEW S, NEW s \in Seq(S), NEW x \in S
  PROVE  \A y : y \in Range(Append(s, x)) <=> y \in Range(s) \/ y = x
<1>1. /\ DOMAIN Append(s, x) = 1..Len(s) + 1 /\ DOMAIN s = 1..Len(s) /\ Len(s) \in Nat
      /\ Append(s, x)[Len(s) + 1] = x /\ \A i \in 1..Len(s) : Append(s, x)[i] = s[i]
  OBVIOUS
<1>2. ASSUME NEW y PROVE y \in Range(Append(s, x)) => y \in Range(s) \/ y = x
  <2> SUFFICES ASSUME NEW i \in 1..Len(s) + 1, y = Append(s, x)[i] PROVE y \in Range(s) \/ y = x BY <1>1 DEF Range
  <2>1. CASE i = Len(s) + 1 BY <1>1, <2>1
  <2>2. CASE i # Len(s) + 1
    <3>1. i \in 1..Len(s) BY <1>1, <2>2
    <3> QED BY <1>1, <3>1 DEF Range
  <2> QED BY <2>1, <2>2
<1>3. ASSUME NEW y, y \in Range(s) \/ y = x PROVE y \in Range(Append(s, x))
  <2>1. CASE y \in Range(s) BY <1>1, <2>1 DEF Range
  <2>2. CASE y = x
    <3>1. Len(s) + 1 \in 1..Len(s) + 1 BY <1>1
    <3> QED BY <1>1, <2>2, <3>1 DEF Range
  <2> QED BY <1>3, <2>1, <2>2
<1> QED BY <1>2, <1>3

(* InputsInOrder, of any list of inputs.                                   *)
Ordered(inputs) ==
  \A i \in 1..Len(inputs) : \A c \in Coins(wallet) : Before(c, inputs[i]) <=> \E j \in 1..i - 1 : inputs[j] = c

LEMMA OrderedIs == InputsInOrder <=> Ordered(trx.inputs)
BY Zenon DEF InputsInOrder, Ordered, Before

(* The next coin keeps the order, and the cursor stands behind it.         *)
LEMMA GrownOrdered ==
  ASSUME BuilderKinds, HasNextUtxo(collector), Ordered(trx.inputs), pc = "collect", UsedSoFar
  PROVE  LET d == AfterNext(AtNext(collector)) IN
         /\ Ordered(Grown)
         /\ \A c \in Coins(wallet) : Before(c, <<d.at, d.pos>>) <=> c \in Range(Grown)
<1> DEFINE d == AfterNext(AtNext(collector))
           n == NextUtxo(AtNext(collector))
           old == trx.inputs
<1>1. old \in Seq(Coins(wallet)) /\ CoinLists /\ collector \in Cursors BY TrxIs
<1>2. /\ n \in Coins(wallet)
      /\ \A x \in Coins(wallet) : Before(x, n) <=> Before(x, <<collector.at, collector.pos>>)
      /\ \A x \in Coins(wallet) : Before(x, <<d.at, d.pos>>) <=> Before(x, <<collector.at, collector.pos>>) \/ x = n
  BY <1>1, NextCoin
<1>3. Grown = Append(old, n) BY DEF Grown
<1> HIDE DEF d, n, old
<1>4. \A x \in Coins(wallet) : Before(x, <<collector.at, collector.pos>>) <=> x \in Range(old) BY DEF UsedSoFar, old
<1>5. \A y : y \in Range(Grown) <=> y \in Range(old) \/ y = n BY <1>1, <1>2, <1>3, RangeOfAppend
<1>6. \A x \in Coins(wallet) : Before(x, <<d.at, d.pos>>) <=> x \in Range(Grown) BY <1>2, <1>4, <1>5
<1>7. /\ Len(Grown) = Len(old) + 1 /\ Len(old) \in Nat /\ Grown[Len(old) + 1] = n
      /\ \A i \in 1..Len(old) : Grown[i] = old[i] /\ DOMAIN old = 1..Len(old)
  BY <1>1, <1>2, <1>3
<1>8. ASSUME NEW i \in 1..Len(Grown), NEW c \in Coins(wallet)
      PROVE  Before(c, Grown[i]) <=> \E j \in 1..i - 1 : Grown[j] = c
  <2>1. CASE i \in 1..Len(old)
    <3>1. Before(c, old[i]) <=> \E j \in 1..i - 1 : old[j] = c BY <2>1 DEF Ordered, old
    <3>2. \A j \in 1..i - 1 : Grown[j] = old[j] BY <1>7, <2>1
    <3> QED BY <1>7, <2>1, <3>1, <3>2
  <2>2. CASE i = Len(old) + 1
    <3>1. Before(c, n) <=> c \in Range(old) BY <1>2, <1>4
    <3>2. c \in Range(old) <=> \E j \in 1..Len(old) : old[j] = c BY <1>1 DEF Range
    <3>3. i - 1 = Len(old) BY <1>7, <2>2
    <3> QED BY <1>7, <2>2, <3>1, <3>2, <3>3
  <2> QED BY <1>7, <2>1, <2>2
<1> QED BY <1>6, <1>8 DEF Ordered, d

LEMMA TurnStep ==
  ASSUME BuilderKinds, BuilderKinds', InTurn, [Next]_vars
  PROVE  InTurn'
<1>0. /\ trx.inputs \in Seq(Coins(wallet)) /\ CoinLists /\ collector \in Cursors
      /\ Ordered(trx.inputs) /\ ShortageMeansAllUsed /\ UsedSoFar
  BY TrxIs, OrderedIs DEF InTurn, EveryCoinInTurn
<1>1. ASSUME UNCHANGED <<wallet, trx>> PROVE InputsInOrder'
  BY <1>1 DEF InTurn, EveryCoinInTurn, InputsInOrder, Coins
<1>2. ASSUME UNCHANGED wallet, Ordered(trx'.inputs) PROVE InputsInOrder'
  BY <1>2 DEF Ordered, Before, InputsInOrder, Coins
<1>3. CASE StartStep
  <2>1. UNCHANGED wallet /\ trx'.inputs = <<>> /\ pc' = "collect" /\ collector' = NewCollector BY <1>3 DEF StartStep
  <2>2. InputsInOrder' BY <1>2, <2>1 DEF Ordered
  <2>3. UsedSoFar'
    <3>1. Range(trx'.inputs) = {} BY <2>1 DEF Range
    <3>2. ASSUME NEW c \in Coins(wallet) PROVE ~Before(c, <<1, 1>>)
      <4>1. c[1] \in Nat \ {0} /\ c[2] \in Nat \ {0} BY <1>0, CoinsAre
      <4> QED BY <4>1 DEF Before
    <3>3. collector'.at = 1 /\ collector'.pos = 1 BY <2>1 DEF NewCollector
    <3> QED BY <2>1, <3>1, <3>2, <3>3 DEF UsedSoFar, Coins, Before
  <2> QED BY <2>1, <2>2, <2>3 DEF InTurn, EveryCoinInTurn, ShortageMeansAllUsed
<1>4. ASSUME NextInput, UNCHANGED pc, trx'.inputs = Grown PROVE InTurn'
  <2>1. HasNextUtxo(collector) /\ pc = "collect" /\ UNCHANGED wallet /\ collector' = AfterNext(AtNext(collector))
    BY <1>4 DEF NextInput
  <2>2. /\ Ordered(Grown)
        /\ \A c \in Coins(wallet) : Before(c, <<collector'.at, collector'.pos>>) <=> c \in Range(Grown)
    BY <1>0, <2>1, GrownOrdered
  <2>3. InputsInOrder' BY <1>2, <1>4, <2>1, <2>2
  <2>4. UsedSoFar' BY <1>4, <2>1, <2>2 DEF UsedSoFar, Coins, Before
  <2> QED BY <1>4, <2>1, <2>3, <2>4 DEF InTurn, EveryCoinInTurn, ShortageMeansAllUsed
<1>5. CASE Round
  <2>1. NextInput BY <1>5 DEF Round
  <2>2. CASE RoundFails
    BY <1>1, <2>1, <2>2 DEF RoundFails, NextInput, InTurn, EveryCoinInTurn, ShortageMeansAllUsed, UsedSoFar
  <2>3. CASE RoundWithout \/ RoundAdds \/ RoundRewrites
    <3>1. UNCHANGED pc /\ trx'.inputs = Grown
      BY <2>3 DEF RoundWithout, RoundAdds, RoundRewrites, TrxWith
    <3> QED BY <1>4, <2>1, <3>1
  <2> QED BY <1>5, <2>2, <2>3 DEF Round
<1>6. CASE IncludedRound
  <2>1. NextInput /\ UNCHANGED pc /\ trx'.inputs = Grown BY <1>6 DEF IncludedRound
  <2> QED BY <1>4, <2>1
<1>7. CASE IncludedEnd
  <2>1. UNCHANGED wallet /\ trx'.inputs = trx.inputs /\ pc' \in {"thrown", "feeShortage", "built"}
    <3>1. UNCHANGED wallet BY <1>7 DEF IncludedEnd
    <3>2. CASE pc' = "thrown" /\ UNCHANGED trx BY <3>1, <3>2
    <3>3. CASE \E o, f : trx' = [inputs |-> trx.inputs, outputs |-> o, fee |-> f] /\ pc' \in {"thrown", "feeShortage", "built"}
      BY <3>1, <3>3
    <3>4. \/ pc' = "thrown" /\ UNCHANGED trx
          \/ \E o, f : trx' = [inputs |-> trx.inputs, outputs |-> o, fee |-> f] /\ pc' \in {"thrown", "feeShortage", "built"}
      BY <1>7, Zenon DEF IncludedEnd, WithOutputs
    <3> QED BY <3>2, <3>3, <3>4
  <2>2. InputsInOrder' BY <1>0, <1>2, <2>1
  <2> QED BY <2>1, <2>2 DEF InTurn, EveryCoinInTurn, ShortageMeansAllUsed, UsedSoFar
<1>8. CASE QuietStep
  <2>1. UNCHANGED <<wallet, trx>> /\ pc' # "collect" /\ (pc' = "shortage" => pc = "collect" /\ ~HasNextUtxo(collector))
    BY <1>8 DEF QuietStep
  <2>2. InputsInOrder' BY <1>1, <2>1
  <2>3. ASSUME pc' = "shortage" PROVE Range(trx.inputs) = Coins(wallet)
    <3>1. \A x \in Coins(wallet) : x \in Range(trx.inputs) BY <1>0, <2>1, <2>3, NoNextCoin DEF UsedSoFar
    <3>2. \A x \in Range(trx.inputs) : x \in Coins(wallet) BY <1>0 DEF Range
    <3> QED BY <3>1, <3>2
  <2> QED BY <2>1, <2>2, <2>3 DEF InTurn, EveryCoinInTurn, ShortageMeansAllUsed, UsedSoFar, Coins
<1>9. CASE UNCHANGED vars
  BY <1>1, <1>9 DEF vars, InTurn, EveryCoinInTurn, ShortageMeansAllUsed, UsedSoFar, Coins
<1> QED BY <1>3, <1>5, <1>6, <1>7, <1>8, <1>9, EveryStep

-----------------------------------------------------------------------------
(* The books.                                                              *)

(* The size of a transaction with an input or an output more.              *)
LEMMA SizeGrows ==
  ASSUME NEW t, NEW u, NEW S, t.inputs \in Seq(S), u.inputs \in Seq(S), t.outputs \in Seq(Int), u.outputs \in Seq(Int),
         NEW i \in {0, 1}, NEW o \in {0, 1}, Len(u.inputs) = Len(t.inputs) + i, Len(u.outputs) = Len(t.outputs) + o
  PROVE  SizeOf(u) = SizeOf(t) + RefSize * i + OutputSize * o
<1> DEFINE a == Len(t.inputs)
           b == Len(t.outputs)
           ra == RefSize * a
           ob == OutputSize * b
<1>1. a \in Nat /\ b \in Nat /\ RefSize \in Nat /\ OutputSize \in Nat /\ BaseSize \in Nat BY ConstantsAre
<1>2. SizeOf(t) = BaseSize + RefSize * a + OutputSize * b BY DEF SizeOf
<1>3. SizeOf(u) = BaseSize + RefSize * (a + i) + OutputSize * (b + o) BY Zenon DEF SizeOf
<1> HIDE DEF a, b
<1>4. RefSize * (a + i) = RefSize * a + RefSize * i
  <2>1. CASE i = 0 BY <1>1, <2>1
  <2>2. CASE i = 1 BY <1>1, <2>2
  <2> QED BY <2>1, <2>2
<1>5. OutputSize * (b + o) = OutputSize * b + OutputSize * o
  <2>1. CASE o = 0 BY <1>1, <2>1
  <2>2. CASE o = 1 BY <1>1, <2>2
  <2> QED BY <2>1, <2>2
<1>6. ra \in Nat /\ ob \in Nat /\ RefSize * i \in Nat /\ OutputSize * o \in Nat BY <1>1, TimesNat
<1>7. SizeOf(t) = BaseSize + ra + ob BY <1>2
<1>8. SizeOf(u) = BaseSize + (ra + RefSize * i) + (ob + OutputSize * o) BY <1>3, <1>4, <1>5
<1> HIDE DEF ra, ob
<1> DEFINE ri == RefSize * i
           oo == OutputSize * o
<1>9. ri \in Nat /\ oo \in Nat /\ SizeOf(u) = BaseSize + (ra + ri) + (ob + oo) BY <1>6, <1>8
<1> HIDE DEF ri, oo
<1>10. SizeOf(u) = SizeOf(t) + ri + oo BY <1>1, <1>6, <1>7, <1>9
<1> QED BY <1>10 DEF ri, oo

(* The outputs with change, and their total.                               *)
LEMMA OutputsWithChange ==
  ASSUME CallOK(call), ChangeAt <= Len(OutputsOf(call)) + 1, NEW x \in Int
  PROVE  /\ OutputsWith(x) \in Seq(Int) /\ Len(OutputsWith(x)) = Len(OutputsOf(call)) + 1
         /\ \A i \in 1..Len(OutputsOf(call)) : OutputsWith(x)[i] = IF i = ChangeAt THEN x ELSE OutputsOf(call)[i]
         /\ \E old \in Nat : /\ Total(OutputsWith(x)) = Total(OutputsOf(call)) - old + x
                             /\ ChangeAt = Len(OutputsOf(call)) + 1 => old = 0 /\ OutputsWith(x)[ChangeAt] = x
         /\ Total(OutputsOf(call)) \in Int
         /\ \A y \in Int : [OutputsWith(x) EXCEPT ![ChangeAt] = y] = OutputsWith(y)
<1> DEFINE s == OutputsOf(call)
           a == Append(s, 0)
           n == Len(s)
           k == ChangeAt
<1>1. s \in Seq(Nat) /\ s \in Seq(Int) BY CallFacts
<1>2. k \in Nat \ {0} BY DEF ChangeAt
<1> HIDE DEF k
<1>3. /\ n \in Nat /\ a \in Seq(Int) /\ a \in Seq(Nat) /\ Len(a) = n + 1 /\ a[n + 1] = 0 /\ k \in 1..Len(a)
      /\ \A i \in 1..n : a[i] = s[i]
  BY <1>1, <1>2 DEF k
<1>4. Total(a) = Total(s) /\ Total(s) \in Int
  <2>1. Total(a) = Total(s) + 0 /\ Total(s) \in Int
    <3> HIDE DEF s
    <3> QED BY <1>1, TotalAppend
  <2> QED BY <2>1
<1>5. OutputsWith(x) = [a EXCEPT ![k] = x] BY Zenon DEF OutputsWith, k
<1> HIDE DEF s, a, n
<1>6. Total([a EXCEPT ![k] = x]) = Total(a) - a[k] + x BY <1>3, TotalExcept
<1>7. a[k] \in Nat BY <1>3
<1>8. k = n + 1 => a[k] = 0 BY <1>3
<1>9. /\ [a EXCEPT ![k] = x] \in Seq(Int) /\ Len([a EXCEPT ![k] = x]) = n + 1
      /\ \A i \in 1..n + 1 : [a EXCEPT ![k] = x][i] = IF i = k THEN x ELSE a[i]
  BY <1>3, ExceptSeq
<1>10. \A i \in 1..n : OutputsWith(x)[i] = IF i = k THEN x ELSE s[i] BY <1>3, <1>5, <1>9
<1>11. k = n + 1 => OutputsWith(x)[k] = x BY <1>3, <1>5, <1>9
<1>12. Total(OutputsWith(x)) = Total(s) - a[k] + x BY <1>4, <1>5, <1>6
<1>13. ASSUME NEW y \in Int PROVE [OutputsWith(x) EXCEPT ![k] = y] = OutputsWith(y)
  <2>1. [[a EXCEPT ![k] = x] EXCEPT ![k] = y] = [a EXCEPT ![k] = y] BY <1>3
  <2>2. OutputsWith(y) = [a EXCEPT ![k] = y] BY Zenon DEF OutputsWith, k, a, s
  <2> QED BY <1>5, <2>1, <2>2
<1>14. OutputsWith(x) \in Seq(Int) /\ Len(OutputsWith(x)) = n + 1 BY <1>5, <1>9
<1> QED BY <1>4, <1>7, <1>8, <1>10, <1>11, <1>12, <1>13, <1>14 DEF s, n, k

LEMMA SameCall ==
  ASSUME UNCHANGED call
  PROVE  /\ Amount' = Amount /\ ChangeAt' = ChangeAt /\ OutputsOf(call)' = OutputsOf(call) /\ StakeOf(call)' = StakeOf(call)
         /\ \A x : OutputsWith(x)' = OutputsWith(x)
<1>1. /\ Amount' = Amount /\ ChangeAt' = ChangeAt /\ OutputsOf(call)' = OutputsOf(call) /\ StakeOf(call)' = StakeOf(call)
  BY DEF Amount, ChangeAt, OutputsOf, StakeOf
<1>2. \A x : OutputsWith(x)' = OutputsWith(x) BY <1>1, Zenon DEF OutputsWith
<1> QED BY <1>1, <1>2

LEMMA SizeRound ==
  ASSUME BuilderKinds, HasNextUtxo(collector), SumsFollow, NEW outputs \in Seq(Int), NEW size
  PROVE  /\ Len(outputs) = Len(trx.outputs) => SizeOf(TrxWith(outputs, size)) = RoundSize
         /\ Len(outputs) = Len(trx.outputs) + 1 => SizeOf(TrxWith(outputs, size)) = RoundSize + OutputSize
<1> DEFINE u == TrxWith(outputs, size)
<1>1. u.inputs = Grown /\ u.outputs = outputs BY DEF TrxWith
<1> HIDE DEF u
<1>2. /\ trx.inputs \in Seq(Coins(wallet)) /\ trx.outputs \in Seq(Int) /\ Grown \in Seq(Coins(wallet))
      /\ Len(Grown) = Len(trx.inputs) + 1 /\ sums.binSize \in Nat /\ sums.binSize = SizeOf(trx)
  BY TrxIs, GrownOK DEF SumsFollow
<1>3. RefSize * 1 = RefSize /\ OutputSize * 0 = 0 /\ OutputSize * 1 = OutputSize /\ RefSize \in Nat /\ OutputSize \in Nat
  BY ConstantsAre
<1>4. ASSUME Len(outputs) = Len(trx.outputs) PROVE SizeOf(u) = RoundSize
  <2>1. Len(outputs) = Len(trx.outputs) + 0 BY <1>2, <1>4
  <2>2. SizeOf(u) = SizeOf(trx) + RefSize * 1 + OutputSize * 0 BY <1>1, <1>2, <2>1, SizeGrows
  <2> QED BY <1>2, <1>3, <2>2 DEF RoundSize
<1>5. ASSUME Len(outputs) = Len(trx.outputs) + 1 PROVE SizeOf(u) = RoundSize + OutputSize
  <2>2. SizeOf(u) = SizeOf(trx) + RefSize * 1 + OutputSize * 1 BY <1>1, <1>2, <1>5, SizeGrows
  <2> QED BY <1>2, <1>3, <2>2 DEF RoundSize
<1> QED BY <1>4, <1>5 DEF u

(* What a round leaves behind, but for the change.                         *)
LEMMA SumsFollowOn ==
  ASSUME BuilderKinds, HasNextUtxo(collector), UNCHANGED call, NEW size \in Nat, NEW outputs \in Seq(Int),
         trx' = TrxWith(outputs, size), sums' = SumsFor(size), SizeOf(TrxWith(outputs, size)) = size
  PROVE  /\ SumsFollow' /\ trx'.inputs # <<>> /\ trx'.outputs = outputs
         /\ sums'.totalIn = SumsFor(size).totalIn /\ sums'.required = SumsFor(size).required
<1>1. trx'.inputs = Grown /\ trx'.outputs = outputs /\ trx'.fee = size * call.rate BY DEF TrxWith
<1>2. Grown # <<>> BY GrownOK
<1>3. /\ sums'.binSize = size /\ sums'.required = size * call.rate + Amount
      /\ sums'.totalIn = SumsFor(size).totalIn /\ sums'.required = SumsFor(size).required
  BY SumsAre
<1>4. SizeOf(trx)' = size BY Zenon DEF SizeOf
<1>5. Amount' = Amount BY SameCall
<1>6. SumsFollow' BY <1>1, <1>2, <1>3, <1>4, <1>5 DEF SumsFollow
<1> QED BY <1>1, <1>2, <1>3, <1>6

LEMMA BooksRound ==
  ASSUME BuilderKinds, BooksFollow, Round
  PROVE  BooksFollow'
<1>1. /\ pc = "collect" /\ call.kind # "included" /\ HasNextUtxo(collector) /\ Needs /\ UNCHANGED call
  BY DEF Round, NextInput
<1>2. SumsFollow /\ (Plain \/ Changed) BY <1>1 DEF BooksFollow, Going
<1>3. /\ trx.outputs \in Seq(Int) /\ sums.binSize \in Nat /\ sums.totalIn \in Int /\ sums.required \in Nat /\ CallOK(call)
  BY TrxIs
<1>4. RoundSize \in Nat /\ RoundSize + OutputSize \in Nat BY <1>3, ConstantsAre DEF RoundSize
<1>5. OutputsOf(call) \in Seq(Int) /\ ChangeAt \in Nat /\ Len(OutputsOf(call)) \in Nat
  <2>1. OutputsOf(call) \in Seq(Int) BY <1>3, CallFacts
  <2> QED BY <2>1 DEF ChangeAt
<1>6. /\ Plain => Len(trx.outputs) = Len(OutputsOf(call))
      /\ Changed => Len(trx.outputs) # Len(OutputsOf(call))
  <2>1. Plain => Len(trx.outputs) = Len(OutputsOf(call)) BY DEF Plain
  <2>2. Changed => Len(trx.outputs) = Len(OutputsOf(call)) + 1 BY <1>3, OutputsWithChange DEF Changed
  <2> QED BY <1>5, <2>1, <2>2
<1>7. /\ ChangeAt' = ChangeAt /\ OutputsOf(call)' = OutputsOf(call) /\ \A x : OutputsWith(x)' = OutputsWith(x) BY <1>1, SameCall
<1>8. ASSUME pc' = "collect", SumsFollow', Plain' \/ Changed' PROVE BooksFollow'
  BY <1>1, <1>8 DEF BooksFollow, Going
<1>9. CASE RoundFails BY <1>9 DEF RoundFails, BooksFollow, Going
<1>10. CASE RoundWithout
  <2> DEFINE s == SumsFor(RoundSize)
  <2>1. trx' = TrxWith(trx.outputs, RoundSize) /\ sums' = s /\ pc' = "collect" BY <1>1, <1>10 DEF RoundWithout
  <2>2. s.totalIn <= s.required BY <1>1, <1>4, <1>10, SumsAre DEF RoundWithout
  <2>3. SizeOf(TrxWith(trx.outputs, RoundSize)) = RoundSize BY <1>1, <1>2, <1>3, SizeRound
  <2>4. /\ SumsFollow' /\ trx'.inputs # <<>> /\ trx'.outputs = trx.outputs
        /\ sums'.totalIn <= sums'.required
    BY <1>1, <1>3, <1>4, <2>1, <2>2, <2>3, SumsFollowOn
  <2>5. Plain => Plain' BY <1>7, <2>4 DEF Plain
  <2>6. ASSUME Changed PROVE Changed'
    <3>1. PICK x \in Int : /\ trx.outputs = OutputsWith(x)
                           /\ x = sums.totalIn - sums.required \/ (x < 0 /\ sums.totalIn <= sums.required)
      BY <2>6 DEF Changed
    <3>2. x < 0 BY <1>1, <1>3, <3>1 DEF Needs
    <3> QED BY <1>7, <2>4, <2>6, <3>1, <3>2 DEF Changed
  <2> QED BY <1>2, <1>8, <2>1, <2>4, <2>5, <2>6
<1>11. CASE RoundAdds
  <2> DEFINE s == SumsFor(RoundSize + OutputSize)
             x == s.totalIn - s.required
             out == [Append(trx.outputs, 0) EXCEPT ![ChangeAt] = x]
  <2>1. /\ trx' = TrxWith(out, RoundSize + OutputSize) /\ sums' = s /\ pc' = "collect"
        /\ Len(trx.outputs) = Len(OutputsOf(call)) /\ ChangeAt <= Len(OutputsOf(call)) + 1
    BY <1>1, <1>11, Zenon DEF RoundAdds
  <2>2. trx.outputs = OutputsOf(call) BY <1>2, <1>6, <2>1 DEF Plain
  <2>3. x \in Int BY <1>1, <1>4, SumsAre
  <2>4. out = OutputsWith(x) BY <2>2, Zenon DEF OutputsWith
  <2> HIDE DEF s, x, out
  <2>5. out \in Seq(Int) /\ Len(out) = Len(trx.outputs) + 1 BY <1>3, <2>1, <2>2, <2>3, <2>4, OutputsWithChange
  <2>6. SizeOf(TrxWith(out, RoundSize + OutputSize)) = RoundSize + OutputSize BY <1>1, <1>2, <2>5, SizeRound
  <2>7. /\ SumsFollow' /\ trx'.inputs # <<>> /\ trx'.outputs = out /\ sums'.totalIn = s.totalIn /\ sums'.required = s.required
    BY <1>1, <1>4, <2>1, <2>5, <2>6, SumsFollowOn DEF s
  <2>8. Changed' BY <1>7, <2>1, <2>3, <2>4, <2>7 DEF Changed, x
  <2> QED BY <1>8, <2>1, <2>7, <2>8
<1>12. CASE RoundRewrites
  <2> DEFINE s == SumsFor(RoundSize)
             y == s.totalIn - s.required
             out == [trx.outputs EXCEPT ![ChangeAt] = y]
  <2>1. /\ trx' = TrxWith(out, RoundSize) /\ sums' = s /\ pc' = "collect" /\ Len(trx.outputs) # Len(OutputsOf(call))
    BY <1>1, <1>12, Zenon DEF RoundRewrites
  <2>2. PICK x \in Int : trx.outputs = OutputsWith(x) /\ ChangeAt <= Len(OutputsOf(call)) + 1
    BY <1>2, <1>6, <2>1 DEF Changed
  <2>3. y \in Int BY <1>1, <1>4, SumsAre
  <2>4. out = OutputsWith(y)
    <3> HIDE DEF y
    <3>1. [OutputsWith(x) EXCEPT ![ChangeAt] = y] = OutputsWith(y) BY <1>3, <2>2, <2>3, OutputsWithChange
    <3> QED BY <2>2, <3>1, Zenon
  <2> HIDE DEF s, y, out
  <2>5. out \in Seq(Int) /\ Len(out) = Len(trx.outputs) BY <1>3, <2>2, <2>3, <2>4, OutputsWithChange
  <2>6. SizeOf(TrxWith(out, RoundSize)) = RoundSize BY <1>1, <1>2, <2>5, SizeRound
  <2>7. /\ SumsFollow' /\ trx'.inputs # <<>> /\ trx'.outputs = out /\ sums'.totalIn = s.totalIn /\ sums'.required = s.required
    BY <1>1, <1>4, <2>1, <2>5, <2>6, SumsFollowOn DEF s
  <2>8. Changed' BY <1>7, <2>2, <2>3, <2>4, <2>7 DEF Changed, y
  <2> QED BY <1>8, <2>1, <2>7, <2>8
<1> QED BY <1>9, <1>10, <1>11, <1>12 DEF Round

LEMMA BooksStart ==
  ASSUME BuilderKinds, BuilderKinds', StartStep
  PROVE  BooksFollow'
<1>1. PICK r : /\ CallOK(r) /\ call' = r /\ pc' = "collect"
               /\ trx' = [inputs |-> <<>>, outputs |-> OutputsOf(r), fee |-> 0]
               /\ sums' = [binSize |-> SizeOf(trx'), totalIn |-> 0,
                           required |-> (IF r.kind = "included" THEN 0 ELSE SizeOf(trx') * r.rate) + Total(r.dests)]
  BY Zenon DEF StartStep
<1>2. trx'.inputs = <<>> /\ trx'.outputs = OutputsOf(r) /\ trx'.fee = 0 BY <1>1
<1>3. Total(r.dests) \in Nat /\ Amount' = Total(r.dests) BY <1>1, CallFacts DEF Amount
<1>4. /\ sums'.binSize = SizeOf(trx') /\ sums'.totalIn = 0
      /\ sums'.required = (IF r.kind = "included" THEN 0 ELSE SizeOf(trx') * r.rate) + Total(r.dests)
      /\ SizeOf(trx)' = SizeOf(trx')
  BY <1>1 DEF SizeOf
<1>5. sums'.required \in Nat BY DEF BuilderKinds
<1>6. CASE r.kind = "included"
  <2>1. sums'.required = Total(r.dests) BY <1>3, <1>4, <1>6
  <2>2. OutputsOf(r) = r.dests BY <1>6 DEF OutputsOf
  <2> QED BY <1>1, <1>2, <1>3, <1>6, <2>1, <2>2 DEF BooksFollow, Going
<1>7. CASE r.kind # "included"
  <2>1. sums'.required = SizeOf(trx') * r.rate + Total(r.dests) BY <1>4, <1>7
  <2>2. SumsFollow' BY <1>1, <1>2, <1>3, <1>4, <2>1 DEF SumsFollow
  <2>3. OutputsOf(call)' = OutputsOf(r) BY <1>1 DEF OutputsOf
  <2>4. Plain' BY <1>2, <1>4, <1>5, <2>3 DEF Plain
  <2> QED BY <1>1, <1>7, <2>2, <2>4 DEF BooksFollow, Going
<1> QED BY <1>6, <1>7

LEMMA BooksIncludedRound ==
  ASSUME BuilderKinds, BooksFollow, IncludedRound
  PROVE  BooksFollow'
<1>1. pc = "collect" /\ pc' = "collect" /\ call.kind = "included" /\ UNCHANGED call BY DEF IncludedRound, NextInput
<1>2. trx'.outputs = trx.outputs /\ trx'.fee = trx.fee /\ sums'.required = sums.required BY DEF IncludedRound
<1>3. Amount' = Amount BY <1>1, SameCall
<1> QED BY <1>1, <1>2, <1>3 DEF BooksFollow, Going

LEMMA BooksQuiet ==
  ASSUME BooksFollow, QuietStep
  PROVE  BooksFollow'
<1>1. UNCHANGED <<call, trx, sums>> BY DEF QuietStep
<1>2. CASE pc' \notin {"collect", "finish"} BY <1>2 DEF BooksFollow, Going
<1>3. CASE pc' \in {"collect", "finish"}
  <2>1. pc = "collect" /\ ~Needs /\ pc' = "finish" BY <1>3 DEF QuietStep
  <2>2. (SumsFollow <=> SumsFollow') /\ (Plain <=> Plain') /\ Amount' = Amount /\ (Needs <=> Needs')
    BY <1>1, SameCall DEF SumsFollow, Plain, Needs, SizeOf
  <2>3. Changed => Changed' BY <1>1, SameCall DEF Changed
  <2> QED BY <1>1, <2>1, <2>2, <2>3 DEF BooksFollow, Going
<1> QED BY <1>2, <1>3

LEMMA BuiltIs == BuiltFacts <=> NothingCreated /\ ChangeIsExact /\ FeeIsRateTimesSize /\ DestinationsPaid
BY DEF BuiltFacts, NothingCreated, ChangeIsExact, FeeIsRateTimesSize, DestinationsPaid

(* The end of a transfer with its fee on top, of a ticket and of a pool.   *)
LEMMA FinishBooks ==
  ASSUME BuilderKinds, BooksFollow, pc = "finish", call.kind # "included"
  PROVE  /\ Paid <= Spent /\ trx.fee = call.rate * SizeOf(trx)
         /\ Len(call.dests) <= 1 /\ ~(HasChange /\ sums.totalIn = sums.required /\ trx.outputs[Len(trx.outputs)] < 0)
              => Paid = Spent
         /\ \A i \in 1..Len(OutputsOf(call)) : trx.outputs[i] = call.dests[i] \/ (i = 2 /\ call.kind = "balance" /\ HasChange)
<1> DEFINE S == OutputsOf(call)
           f == sums.binSize * call.rate
           in == sums.totalIn
           rq == sums.required
           am == Amount
           st == StakeOf(call)
           ts == Total(S)
<1>1. SumsFollow /\ (Plain \/ Changed) /\ ~Needs BY DEF BooksFollow, Going
<1>2. /\ trx.outputs \in Seq(Int) /\ sums.binSize \in Nat /\ in \in Int /\ rq \in Nat /\ CallOK(call)
      /\ in = Spent /\ trx.inputs \in Seq(Coins(wallet))
  BY TrxIs
<1>3. /\ S \in Seq(Nat) /\ S \in Seq(Int) /\ am \in Nat /\ call.rate \in Nat /\ ts + st = am /\ Len(S) \in Nat
  BY <1>2, CallFacts DEF Amount
<1>4. ts \in Int /\ st \in Int
  <2>1. ts \in Int BY <1>3, TotalAppend
  <2>2. st \in Int
    <3>1. CASE call.kind = "ticket"
      <4>1. call.dests \in Seq(Nat) /\ Len(call.dests) = 1 BY <1>2, <3>1 DEF CallOK
      <4> QED BY <3>1, <4>1 DEF StakeOf
    <3>2. CASE call.kind # "ticket" BY <3>2 DEF StakeOf
    <3> QED BY <3>1, <3>2
  <2> QED BY <2>1, <2>2
<1>5. /\ f \in Nat /\ rq = f + am /\ trx.fee = IF trx.inputs = <<>> THEN 0 ELSE f
      /\ sums.binSize = SizeOf(trx)
  BY <1>1, <1>2, <1>3, TimesNat DEF SumsFollow
<1>6. f = call.rate * SizeOf(trx)
  <2>1. f = call.rate * sums.binSize BY <1>2, <1>3
  <2> HIDE DEF f
  <2> QED BY <1>5, <2>1
<1>7. in >= rq BY <1>1, <1>2 DEF Needs
<1>8. Paid = Total(trx.outputs) + st + trx.fee BY DEF Paid
<1>9. S = call.dests \/ S = <<>> BY DEF OutputsOf
<1>10. \A i \in 1..Len(S) : S[i] = call.dests[i] BY DEF OutputsOf
<1> HIDE DEF f, in, rq, am, st
<1>11. CASE Plain
  <2>1. trx.outputs = S /\ in <= rq BY <1>11 DEF Plain, in, rq
  <2>2. in = rq BY <1>2, <1>7, <2>1
  <2>3. trx.fee = f
    <3>1. CASE trx.inputs = <<>>
      <4>1. in = 0 BY <1>2, <3>1, NoInputs DEF Spent
      <4>2. f = 0 BY <1>3, <1>5, <2>2, <4>1
      <4> QED BY <1>5, <3>1, <4>2
    <3>2. CASE trx.inputs # <<>> BY <1>5, <3>2
    <3> QED BY <3>1, <3>2
  <2>4. Paid = Spent
    <3> HIDE DEF S
    <3>1. Total(trx.outputs) = ts BY <2>1
    <3> HIDE DEF ts
    <3> QED BY <1>2, <1>3, <1>4, <1>5, <1>8, <2>2, <2>3, <3>1
  <2>5. \A i \in 1..Len(S) : trx.outputs[i] = call.dests[i] BY <1>10, <2>1
  <2> QED BY <1>2, <1>6, <2>3, <2>4, <2>5
<1>12. CASE Changed
  <2>1. PICK x \in Int : trx.outputs = OutputsWith(x) /\ (x = in - rq \/ (x < 0 /\ in <= rq)) BY <1>12 DEF Changed, in, rq
  <2>2. trx.inputs # <<>> /\ ChangeAt <= Len(S) + 1 BY <1>12 DEF Changed
  <2>3. /\ Len(trx.outputs) = Len(S) + 1
        /\ \A i \in 1..Len(S) : trx.outputs[i] = IF i = ChangeAt THEN x ELSE S[i]
    BY <1>2, <2>1, <2>2, OutputsWithChange
  <2>4. PICK old \in Nat : /\ Total(trx.outputs) = ts - old + x
                           /\ ChangeAt = Len(S) + 1 => old = 0 /\ trx.outputs[ChangeAt] = x
    BY <1>2, <2>1, <2>2, OutputsWithChange
  <2>5. trx.fee = f BY <1>5, <2>2
  <2> HIDE DEF S, ts
  <2>6. HasChange BY <1>3, <2>3 DEF HasChange, S
  <2>7. Paid = am - old + x + f BY <1>3, <1>4, <1>5, <1>8, <2>4, <2>5
  <2>8. Paid <= Spent
    <3>1. x <= in - rq BY <1>2, <1>7, <2>1
    <3> QED BY <1>2, <1>3, <1>5, <2>7, <3>1
  <2>9. ASSUME Len(call.dests) <= 1, ~(HasChange /\ sums.totalIn = sums.required /\ trx.outputs[Len(trx.outputs)] < 0)
        PROVE  Paid = Spent
    <3>1. ChangeAt = Len(S) + 1
      <4>1. CASE call.kind = "balance"
        <5>1. Len(S) <= 1 /\ ChangeAt = 2 BY <2>9, <4>1 DEF S, OutputsOf, ChangeAt
        <5> QED BY <1>3, <2>2, <5>1
      <4>2. CASE call.kind # "balance"
        <5>1. S = <<>> /\ ChangeAt = 1
          <6>1. call.kind \in {"ticket", "pool"} BY <1>2, <4>2 DEF CallOK, Kinds
          <6> QED BY <1>2, <6>1 DEF S, OutputsOf, ChangeAt, CallOK
        <5> QED BY <5>1
      <4> QED BY <4>1, <4>2
    <3>2. old = 0 /\ trx.outputs[Len(trx.outputs)] = x BY <2>3, <2>4, <3>1
    <3>3. x = in - rq
      <4>1. ~(in = rq /\ x < 0) BY <2>6, <2>9, <3>2 DEF in, rq
      <4> QED BY <1>2, <1>7, <2>1, <4>1
    <3> QED BY <1>2, <1>3, <1>5, <2>7, <3>2, <3>3
  <2>10. ASSUME NEW i \in 1..Len(S) PROVE trx.outputs[i] = call.dests[i] \/ (i = 2 /\ call.kind = "balance" /\ HasChange)
    <3>1. CASE i # ChangeAt BY <1>10, <2>3, <3>1
    <3>2. CASE i = ChangeAt
      <4>1. CASE call.kind = "balance" BY <2>6, <3>2, <4>1 DEF ChangeAt
      <4>2. CASE call.kind # "balance"
        <5>1. call.kind \in {"ticket", "pool"} BY <1>2, <4>2 DEF CallOK, Kinds
        <5>2. S = <<>> BY <1>2, <5>1 DEF S, OutputsOf, CallOK
        <5> QED BY <5>2
      <4> QED BY <4>1, <4>2
    <3> QED BY <3>1, <3>2
  <2> QED BY <1>6, <2>5, <2>8, <2>9, <2>10 DEF S
<1> QED BY <1>1, <1>11, <1>12

(* The end of a transfer with its fee included.                            *)
LEMMA IncludedBooks ==
  ASSUME BuilderKinds, BooksFollow, IncludedEnd, pc' = "built"
  PROVE  BuiltFacts'
<1> DEFINE in == sums.totalIn
           am == Amount
<1>1. /\ trx.outputs = call.dests /\ sums.required = am /\ ~Needs /\ call.kind = "included"
      /\ UNCHANGED <<wallet, call, sums>>
  BY DEF IncludedEnd, BooksFollow, Going
<1>2. /\ trx.outputs \in Seq(Int) /\ in \in Int /\ CallOK(call) /\ trx.inputs \in Seq(Coins(wallet)) /\ in = Spent
  BY TrxIs
<1>3. am \in Nat /\ call.rate \in Nat /\ am = Total(trx.outputs) /\ OutputsOf(call) = call.dests /\ StakeOf(call) = 0
  BY <1>1, <1>2, CallFacts DEF Amount, OutputsOf, StakeOf
<1>4. PICK out \in Seq(Int) :
        /\ FinalOutputs(out) /\ out # <<>>
        /\ trx' = [inputs |-> trx.inputs, outputs |-> [out EXCEPT ![1] = @ - SizeOf(WithOutputs(out)) * call.rate],
                   fee |-> SizeOf(WithOutputs(out)) * call.rate]
  <2>1. pc' # "thrown" /\ pc' # "feeShortage" OBVIOUS
  <2> QED BY <2>1, Zenon DEF IncludedEnd
<1> HIDE DEF in, am
<1>5. in >= am BY <1>1, <1>2, <1>3 DEF Needs, in
<1>6. Total(out) = in /\ Len(out) >= Len(trx.outputs) /\ \A i \in 1..Len(trx.outputs) : out[i] = trx.outputs[i]
  <2>1. CASE in > am /\ out = Append(trx.outputs, in - am)
    <3> DEFINE x == in - am
    <3>1. x \in Int BY <1>2, <1>3
    <3> HIDE DEF x
    <3>2. Total(Append(trx.outputs, x)) = Total(trx.outputs) + x BY <1>2, <3>1, TotalAppend
    <3>3. Total(out) = am + x BY <1>3, <2>1, <3>2 DEF x
    <3>4. Total(out) = in BY <1>2, <1>3, <3>3 DEF x
    <3> QED BY <1>2, <2>1, <3>1, <3>4 DEF x
  <2>2. CASE in <= am /\ out = trx.outputs
    <3>1. in = am BY <1>2, <1>3, <1>5, <2>2
    <3> QED BY <1>2, <1>3, <2>2, <3>1
  <2> QED BY <1>4, <2>1, <2>2 DEF FinalOutputs, in, am
<1> DEFINE fee == SizeOf(WithOutputs(out)) * call.rate
           o == [out EXCEPT ![1] = out[1] - fee]
<1>7. WithOutputs(out).inputs = trx.inputs /\ WithOutputs(out).outputs = out BY DEF WithOutputs
<1>8. fee \in Nat /\ SizeOf(WithOutputs(out)) \in Nat
  <2>1. SizeOf(WithOutputs(out)) \in Nat BY <1>2, <1>7, SizeIsNat
  <2> QED BY <1>3, <2>1, TimesNat
<1>9. trx'.inputs = trx.inputs /\ trx'.outputs = o /\ trx'.fee = fee
  <2> HIDE DEF fee
  <2>1. trx' = [inputs |-> trx.inputs, outputs |-> o, fee |-> fee] BY <1>4, Zenon DEF fee
  <2> HIDE DEF o
  <2> QED BY <2>1
<1>10. fee = call.rate * SizeOf(trx')
  <2>1. Len(o) = Len(out)
    <3> HIDE DEF fee
    <3> QED OBVIOUS
  <2>2. SizeOf(trx') = SizeOf(WithOutputs(out))
    <3> HIDE DEF o
    <3>1. Len(trx'.outputs) = Len(out) BY <1>9, <2>1
    <3> QED BY <1>7, <1>9, <3>1, Zenon DEF SizeOf
  <2> QED BY <1>3, <1>8, <2>2
<1> HIDE DEF fee
<1>11. 1 \in 1..Len(out) /\ out[1] \in Int BY <1>4
<1>12. Total(o) = in - fee
  <2> DEFINE y == out[1] - fee
  <2>1. y \in Int BY <1>8, <1>11
  <2> HIDE DEF y
  <2>2. Total([out EXCEPT ![1] = y]) = Total(out) - out[1] + y BY <1>11, <2>1, TotalExcept
  <2>3. Total(o) = in - out[1] + y BY <1>6, <2>2 DEF y
  <2> QED BY <1>2, <1>8, <1>11, <2>3 DEF y
<1>13. \A i \in 1..Len(out) : o[i] = out[i] - (IF i = 1 THEN fee ELSE 0)
  <2>1. \A i \in 1..Len(out) : o[i] = IF i = 1 THEN out[1] - fee ELSE out[i] OBVIOUS
  <2>2. \A i \in 1..Len(out) : out[i] \in Int OBVIOUS
  <2> HIDE DEF o
  <2> QED BY <2>1, <2>2
<1> HIDE DEF o
<1>14. /\ Paid' = Total(trx'.outputs) + 0 + trx'.fee /\ Spent' = Spent /\ SizeOf(trx)' = SizeOf(trx')
       /\ OutputsOf(call)' = call.dests /\ call' = call
  BY <1>1, <1>3, <1>9, SameCall DEF Paid, Spent, TotalAmount, AmountOf, SizeOf
<1>15. Paid' = Spent' BY <1>2, <1>8, <1>9, <1>12, <1>14
<1>16. DestinationsPaid'
  <2> SUFFICES ASSUME NEW i \in 1..Len(call.dests)
               PROVE  trx'.outputs[i] = call.dests[i] - (IF i = 1 THEN trx'.fee ELSE 0)
    BY <1>1, <1>14 DEF DestinationsPaid
  <2>1. i \in 1..Len(out) /\ out[i] = call.dests[i] BY <1>1, <1>2, <1>6
  <2> QED BY <1>9, <1>13, <2>1
<1>17. Spent' \in Int BY <1>2, <1>14
<1> QED BY <1>9, <1>10, <1>14, <1>15, <1>16, <1>17 DEF BuiltFacts

LEMMA BuiltStep ==
  ASSUME BuilderKinds, BuiltFacts, BooksFollow, [Next]_vars
  PROVE  BuiltFacts'
<1>1. CASE StartStep \/ Round \/ IncludedRound
  <2>1. pc' # "built" BY <1>1 DEF StartStep, Round, IncludedRound, NextInput, RoundWithout, RoundFails, RoundAdds, RoundRewrites
  <2> QED BY <2>1 DEF BuiltFacts
<1>2. CASE IncludedEnd
  <2>1. CASE pc' = "built" BY <1>2, <2>1, IncludedBooks
  <2>2. CASE pc' # "built" BY <2>2 DEF BuiltFacts
  <2> QED BY <2>1, <2>2
<1>3. CASE QuietStep
  <2>1. CASE pc' = "built"
    <3>1. pc = "finish" /\ call.kind # "included" /\ UNCHANGED <<wallet, call, trx, sums>> BY <1>3, <2>1 DEF QuietStep
    <3>2. /\ Paid <= Spent /\ trx.fee = call.rate * SizeOf(trx)
          /\ Len(call.dests) <= 1 /\ ~(HasChange /\ sums.totalIn = sums.required /\ trx.outputs[Len(trx.outputs)] < 0)
              => Paid = Spent
          /\ \A i \in 1..Len(OutputsOf(call)) : trx.outputs[i] = call.dests[i] \/ (i = 2 /\ call.kind = "balance" /\ HasChange)
      BY <3>1, FinishBooks
    <3>3. /\ Paid' = Paid /\ Spent' = Spent /\ SizeOf(trx)' = SizeOf(trx) /\ OutputsOf(call)' = OutputsOf(call)
          /\ (HasChange <=> HasChange')
      BY <3>1 DEF Paid, Spent, TotalAmount, AmountOf, SizeOf, OutputsOf, StakeOf, HasChange
    <3>4. DestinationsPaid'
      <4> SUFFICES ASSUME NEW i \in 1..Len(OutputsOf(call))
                   PROVE  \/ trx.outputs[i] = call.dests[i] - 0
                          \/ i = 2 /\ call.kind = "balance" /\ HasChange
        BY <3>1, <3>3 DEF DestinationsPaid
      <4>1. CallOK(call) /\ call.dests \in Seq(Nat) BY TrxIs, CallFacts
      <4>2. i \in 1..Len(call.dests) BY <4>1 DEF OutputsOf
      <4>3. call.dests[i] \in Nat BY <4>1, <4>2
      <4> QED BY <3>2, <4>3
    <3> QED BY <3>1, <3>2, <3>3, <3>4 DEF BuiltFacts
  <2>2. CASE pc' # "built" BY <2>2 DEF BuiltFacts
  <2> QED BY <2>1, <2>2
<1>4. CASE UNCHANGED vars
  BY <1>4 DEF vars, BuiltFacts, DestinationsPaid, Paid, Spent, TotalAmount, AmountOf, SizeOf, OutputsOf, StakeOf, HasChange
<1> QED BY <1>1, <1>2, <1>3, <1>4, EveryStep

LEMMA BooksFollowStep ==
  ASSUME BuilderKinds, BuilderKinds', BooksFollow, [Next]_vars
  PROVE  BooksFollow'
<1>1. CASE IncludedEnd BY <1>1 DEF IncludedEnd, BooksFollow, Going
<1>2. CASE UNCHANGED vars
  <2>1. UNCHANGED <<call, trx, sums, pc>> BY <1>2 DEF vars
  <2>2. (SumsFollow <=> SumsFollow') /\ (Plain <=> Plain') /\ Amount' = Amount /\ (Needs <=> Needs')
    BY <2>1, SameCall DEF SumsFollow, Plain, Needs, SizeOf
  <2>3. Changed => Changed' BY <2>1, SameCall DEF Changed
  <2> QED BY <2>1, <2>2, <2>3 DEF BooksFollow, Going
<1> QED BY <1>1, <1>2, EveryStep, BooksStart, BooksRound, BooksIncludedRound, BooksQuiet

-----------------------------------------------------------------------------
(* The invariant of every reachable state: what the collector has handed   *)
(* out, what the loops have added up, and what the last transaction that   *)
(* was built pays.                                                         *)
THEOREM BuilderInStep == Spec => []BuilderInv
<1>1. Init => BuilderInv
  <2> SUFFICES ASSUME Init PROVE BuilderInv OBVIOUS
  <2>1. BuilderKinds BY KindsInit
  <2>2. trx.inputs = <<>> /\ handedOut = <<>> /\ pc = "idle" BY DEF Init, NoTrx
  <2>3. InTurn BY <2>2 DEF InTurn, EveryCoinInTurn, InputsInOrder, ShortageMeansAllUsed, UsedSoFar
  <2>4. Rotation BY <2>2 DEF Rotation, ChangeRotates, Follows
  <2>5. BooksFollow /\ BuiltFacts BY <2>2 DEF BooksFollow, Going, BuiltFacts
  <2> QED BY <2>1, <2>3, <2>4, <2>5 DEF BuilderInv
<1>2. BuilderInv /\ [Next]_vars => BuilderInv'
  <2> SUFFICES ASSUME BuilderInv, [Next]_vars PROVE BuilderInv' OBVIOUS
  <2>1. BuilderKinds /\ InTurn /\ Rotation /\ BooksFollow /\ BuiltFacts BY DEF BuilderInv
  <2>2. BuilderKinds' BY <2>1, KindsStep
  <2>3. InTurn' BY <2>1, <2>2, TurnStep
  <2>4. Rotation'
    <3>1. AddressesOK(addresses) /\ handedOut \in Seq(Nat) BY <2>1 DEF BuilderKinds
    <3> QED BY <2>1, <3>1, RotationKept, EveryAddressStep
  <2>5. BooksFollow' BY <2>1, <2>2, BooksFollowStep
  <2>6. BuiltFacts' BY <2>1, BuiltStep
  <2> QED BY <2>2, <2>3, <2>4, <2>5, <2>6 DEF BuilderInv
<1> QED BY <1>1, <1>2, PTL DEF Spec

(* A transaction that was built never pays more than its inputs hold; with *)
(* one destination or an included fee nothing is lost, but for the change  *)
(* that a later, exact match does not rewrite; and the fee is the rate     *)
(* times the size, although change and fee are rewritten while inputs are  *)
(* still being added (collectUtxoRefs, createFeeIncludedTransaction).      *)
THEOREM BooksAlwaysBalance == Spec => []BooksBalance
<1>1. BuilderInv => BooksBalance
  <2> SUFFICES ASSUME BuilderInv PROVE BooksBalance OBVIOUS
  <2>1. BuilderKinds /\ BuiltFacts BY DEF BuilderInv
  <2>2. trx.inputs \in Seq(Coins(wallet)) /\ trx.outputs \in Seq(Int) BY <2>1, TrxIs
  <2>3. Range(trx.inputs) \subseteq Coins(wallet) /\ Range(trx.outputs) \subseteq Int BY <2>2 DEF Range
  <2>4. TypeOK BY <2>1, <2>3 DEF BuilderKinds, TypeOK, AddressesOK
  <2> QED BY <2>1, <2>4, BuiltIs DEF BooksBalance
<1> QED BY <1>1, BuilderInStep, PTL

(* The collectors hand out every coin of the wallet once, in their order,  *)
(* and a shortage is reported only when every coin is an input.            *)
THEOREM CoinsAreTakenInTurn == Spec => []EveryCoinInTurn
<1>1. BuilderInv => EveryCoinInTurn BY DEF BuilderInv, InTurn
<1> QED BY <1>1, BuilderInStep, PTL

(* Every destination of a transaction that was built is paid its amount,   *)
(* but for the second one of a transfer with change.                       *)
THEOREM DestinationsArePaid == Spec => []DestinationsPaid
<1>1. BuilderInv => DestinationsPaid BY DEF BuilderInv, BuiltFacts, DestinationsPaid
<1> QED BY <1>1, BuilderInStep, PTL

(* Two change addresses handed out one after the other differ, whatever    *)
(* became of the calls they were for and wherever those threw, unless the  *)
(* group has only one or a key pair could not be made for a serial (the    *)
(* serial is lost): then the first address of the list may follow itself,  *)
(* and no other can.                                                       *)
THEOREM ChangeAddressesRotate == Spec => []ChangeRotates
<1>1. BuilderInv => ChangeRotates BY DEF BuilderInv, Rotation
<1> QED BY <1>1, BuilderInStep, PTL
=============================================================================
