------------------------ MODULE WalletAccount_proofs ------------------------
(***************************************************************************)
(* Proofs about WalletAccount, for every group of addresses, every set of  *)
(* transactions that refer to each other in whatever way, and any number   *)
(* of crashes and failing writes.  First the change addresses: an address  *)
(* that was handed out is derived again by every later process, and        *)
(* settings are lost only in a load that did not end.  Then the coins and  *)
(* transactions: the two trees agree, what is spent stays spent, and a     *)
(* payment that a handler has imported is found.                           *)
(***************************************************************************)
EXTENDS WalletAccount, DataLemmas

-----------------------------------------------------------------------------
(* The inductive invariant of the addresses.                               *)

StoreInv(s) ==
  /\ s \in [list : Seq(Nat), addressSerial : Nat, currentIndex : Nat, group : {Group}]
  /\ StoreOK(s)

(* A map of settings, whole or in part: the serial is there before the     *)
(* cursor, which it bounds.                                                *)
MapInv(m) ==
  /\ m = [k \in DOMAIN m |-> m[k]] /\ DOMAIN m \subseteq AllKeys
  /\ \A k \in DOMAIN m : m[k] \in 0..Group
  /\ "currentIndex" \in DOMAIN m => /\ "adressSerial" \in DOMAIN m
                                    /\ m["currentIndex"] \in 0..m["adressSerial"]
  /\ "numgroup" \in DOMAIN m => m["numgroup"] = Group

(* Whoever loads m derives the address again.                              *)
KeptIn(m, a) == "adressSerial" \in DOMAIN m => a < m["adressSerial"]

Live == call.kind \in {"idle", "save", "next"}

AddressKinds ==
  /\ StoreInv(store) /\ MapInv(file) /\ MapInv(map) /\ MapInv(loaded)
  /\ handed \subseteq 0..Group - 1 /\ unsaved \subseteq 0..Group - 1
  /\ call \in {Down, Idle} \cup [kind : {"save", "next"}, at : 1..5] \cup [kind : {"load"}, at : 1..6]

(* The map of a process is ahead of the file and not of the store; while   *)
(* it is loaded, it is a part of what was read and the file holds it.      *)
MapFollows ==
  /\ Live => /\ DOMAIN file \subseteq DOMAIN map
             /\ "adressSerial" \in DOMAIN map => map["adressSerial"] <= store.addressSerial
  /\ Saving /\ call.at > 3 => "adressSerial" \in DOMAIN map /\ map["adressSerial"] = store.addressSerial
  /\ Loading => /\ DOMAIN map \subseteq DOMAIN loaded /\ \A k \in DOMAIN map : map[k] = loaded[k]
                /\ DOMAIN map = {} \/ file = map
                /\ call.at > 3 /\ "adressSerial" \in DOMAIN loaded => "adressSerial" \in DOMAIN map

(* A save runs when the serial at the cursor was the last one taken.       *)
NextIsNewest == call.kind = "next" => store.addressSerial = store.currentIndex + 1

(* What was handed out and saved is in every map that is, or will be, the  *)
(* file, in what is being loaded, and in the store.                        *)
HandedKept ==
  \A a \in handed \ unsaved :
    /\ KeptIn(file, a) /\ KeptIn(map, a)
    /\ Loading => KeptIn(loaded, a)
    /\ Live => a \in Range(store.list)

(* What the store has made is saved, but for the address of a save that    *)
(* has not come to the serial.                                             *)
MadeKept ==
  Live => \A a \in Range(store.list) :
    \/ a \in unsaved
    \/ Saving /\ call.at <= 3 /\ a \in Newest(store)
    \/ KeptIn(file, a) /\ KeptIn(map, a)

AddressInv == AddressKinds /\ MapFollows /\ NextIsNewest /\ HandedKept /\ MadeKept

-----------------------------------------------------------------------------
(* The operators on stores and maps.                                       *)

LEMMA KeysAre ==
  /\ Len(Keys) = 5 /\ DOMAIN Keys = 1..5
  /\ Keys[1] = "zone" /\ Keys[2] = "encryptedSeed" /\ Keys[3] = "adressSerial"
  /\ Keys[4] = "currentIndex" /\ Keys[5] = "numgroup"
  /\ AllKeys = {"zone", "encryptedSeed", "adressSerial", "currentIndex", "numgroup"}
<1>1. Len(Keys) = 5 /\ DOMAIN Keys = 1..5 BY DEF Keys
<1>2. /\ Keys[1] = "zone" /\ Keys[2] = "encryptedSeed" /\ Keys[3] = "adressSerial"
      /\ Keys[4] = "currentIndex" /\ Keys[5] = "numgroup"
  BY DEF Keys
<1>3. AllKeys = {Keys[i] : i \in 1..5} BY <1>1, Zenon DEF AllKeys, Range
<1>4. 1..5 = {1, 2, 3, 4, 5} OBVIOUS
<1> QED BY <1>1, <1>2, <1>3, <1>4

LEMMA NothingInv == MapInv(Nothing) /\ DOMAIN Nothing = {} /\ \A a : KeptIn(Nothing, a)
BY DEF MapInv, Nothing, KeptIn

LEMMA NewStoreInv == StoreInv(NoStore) /\ NoStore.addressSerial = 0 /\ Range(NoStore.list) = {}
<1>1. Group \in Nat /\ Group > 0 BY AddressesAssumption
<1>2. NoStore = [list |-> <<>>, addressSerial |-> 0, currentIndex |-> 0, group |-> Group]
  BY DEF NoStore, NewChangeStore
<1>3. StoreOK(NoStore) BY <1>1, <1>2 DEF StoreOK, HasLost
<1>4. Range(NoStore.list) = {} BY <1>2 DEF Range
<1> QED BY <1>1, <1>2, <1>3, <1>4 DEF StoreInv

(* The fields of a store, and what is in its list.                         *)
LEMMA StoreIs ==
  ASSUME NEW s, StoreInv(s)
  PROVE  /\ s = [list |-> s.list, addressSerial |-> s.addressSerial, currentIndex |-> s.currentIndex, group |-> Group]
         /\ s.list \in Seq(Nat) /\ s.addressSerial \in Nat /\ s.currentIndex \in Nat /\ s.group = Group
         /\ Len(s.list) \in Nat /\ Len(s.list) <= s.addressSerial /\ s.addressSerial <= Group
         /\ s.currentIndex <= s.addressSerial /\ Group \in Nat /\ Group > 0
         /\ \A a \in Range(s.list) : a \in Nat /\ a < s.addressSerial
<1>1. Group \in Nat /\ Group > 0 BY AddressesAssumption
<1>2. /\ s = [list |-> s.list, addressSerial |-> s.addressSerial, currentIndex |-> s.currentIndex, group |-> Group]
      /\ s.list \in Seq(Nat) /\ s.addressSerial \in Nat /\ s.currentIndex \in Nat /\ s.group = Group
  BY DEF StoreInv
<1>3. DOMAIN s.list = 1..Len(s.list) /\ Len(s.list) \in Nat BY <1>2
<1>4. \A i \in 1..Len(s.list) : s.list[i] \in Nat /\ s.list[i] < s.addressSerial
  BY <1>2 DEF StoreInv, StoreOK
<1>5. \A a \in Range(s.list) : a \in Nat /\ a < s.addressSerial BY <1>3, <1>4 DEF Range
<1> QED BY <1>1, <1>2, <1>3, <1>5 DEF StoreInv, StoreOK

(* The cursor wraps, and nothing else changes.                             *)
LEMMA WrappedInv ==
  ASSUME NEW s, StoreInv(s)
  PROVE  /\ StoreInv(Wrapped(s)) /\ Wrapped(s).currentIndex < Group
         /\ Wrapped(s).list = s.list /\ Wrapped(s).addressSerial = s.addressSerial
         /\ s.currentIndex < Group => Wrapped(s) = s
<1> DEFINE c == IF s.currentIndex >= Group THEN 0 ELSE s.currentIndex
<1>1. c \in Nat /\ c <= s.addressSerial /\ c < Group BY StoreIs
<1>2. Wrapped(s) = [list |-> s.list, addressSerial |-> s.addressSerial, currentIndex |-> c, group |-> Group]
  BY StoreIs DEF Wrapped
<1>3. s.currentIndex < Group => Wrapped(s) = s BY StoreIs DEF Wrapped
<1> HIDE DEF c
<1>4. StoreOK(Wrapped(s)) BY <1>1, <1>2, StoreIs DEF StoreInv, StoreOK, HasLost
<1> QED BY <1>1, <1>2, <1>3, <1>4, StoreIs DEF StoreInv

(* No key pair is made: the serial is lost.                                *)
LEMMA SerialLostInv ==
  ASSUME NEW s, StoreInv(s), NeedsNew(Wrapped(s))
  PROVE  /\ StoreInv(SerialLost(s)) /\ SerialLost(s).list = s.list
         /\ SerialLost(s).addressSerial = s.addressSerial + 1
<1> DEFINE w == Wrapped(s)
           t == [list |-> w.list, addressSerial |-> w.addressSerial + 1, currentIndex |-> w.currentIndex, group |-> Group]
<1>1. StoreInv(w) /\ w.currentIndex < Group /\ w.list = s.list /\ w.addressSerial = s.addressSerial BY WrappedInv
<1> HIDE DEF w
<1>2. SerialLost(s) = t BY <1>1, StoreIs DEF SerialLost, WithSerialTaken, w
<1>3. w.addressSerial + 1 <= Group BY <1>1, StoreIs DEF NeedsNew, w
<1>4. t \in [list : Seq(Nat), addressSerial : Nat, currentIndex : Nat, group : {Group}] BY <1>1, StoreIs
<1>5. StoreOK(t)
  <2>1. StoreOK(w) BY <1>1 DEF StoreInv
  <2>2. \A i \in 1..Len(w.list) : w.list[i] < w.addressSerial + 1
    <3>1. \A i \in 1..Len(w.list) : w.list[i] \in Nat /\ w.list[i] < w.addressSerial BY <1>1, <2>1, StoreIs DEF StoreOK
    <3> QED BY <1>1, <3>1, StoreIs
  <2>3. \A i, j \in 1..Len(w.list) : i < j => w.list[i] < w.list[j] BY <2>1 DEF StoreOK
  <2>4. Len(w.list) < w.addressSerial + 1 BY <1>1, StoreIs
  <2> QED BY <1>1, <1>3, <2>2, <2>3, <2>4, StoreIs DEF StoreOK, HasLost
<1> QED BY <1>1, <1>2, <1>4, <1>5 DEF StoreInv

(* A new address takes the serial, which stands at the cursor.             *)
LEMMA PreparedInv ==
  ASSUME NEW s, StoreInv(s)
  PROVE  /\ StoreInv(Prepared(s)) /\ Prepared(s).currentIndex < Prepared(s).addressSerial
         /\ NeedsNew(Wrapped(s)) => /\ Prepared(s).addressSerial = s.addressSerial + 1
                                    /\ Prepared(s).currentIndex = s.addressSerial
                                    /\ Prepared(s).list = Append(s.list, s.addressSerial)
         /\ ~NeedsNew(Wrapped(s)) => Prepared(s) = Wrapped(s)
<1> DEFINE w == Wrapped(s)
<1>1. StoreInv(w) /\ w.currentIndex < Group /\ w.list = s.list /\ w.addressSerial = s.addressSerial BY WrappedInv
<1> HIDE DEF w
<1>2. /\ w = [list |-> w.list, addressSerial |-> w.addressSerial, currentIndex |-> w.currentIndex, group |-> Group]
      /\ w.list \in Seq(Nat) /\ w.addressSerial \in Nat /\ w.currentIndex \in Nat /\ w.group = Group
      /\ Len(w.list) \in Nat /\ Len(w.list) <= w.addressSerial /\ w.addressSerial <= Group
      /\ w.currentIndex <= w.addressSerial /\ Group \in Nat
  BY <1>1, StoreIs
<1>3. CASE NeedsNew(w)
  <2> DEFINE l == Append(w.list, w.addressSerial)
             q == [list |-> l, addressSerial |-> w.addressSerial + 1, currentIndex |-> w.currentIndex, group |-> Group]
  <2>1. Prepared(s) = q BY <1>2, <1>3 DEF Prepared, WithNew, WithSerialTaken, w
  <2>2. w.currentIndex = w.addressSerial /\ w.addressSerial + 1 <= Group BY <1>1, <1>2, <1>3 DEF NeedsNew
  <2>3. /\ l \in Seq(Nat) /\ Len(l) = Len(w.list) + 1 /\ l[Len(w.list) + 1] = w.addressSerial
        /\ \A i \in 1..Len(w.list) : l[i] = w.list[i]
    BY <1>2
  <2>4. l = Append(s.list, s.addressSerial) BY <1>1
  <2> HIDE DEF l
  <2>5. StoreOK(w) BY <1>1 DEF StoreInv
  <2>6. \A i \in 1..Len(l) : l[i] < w.addressSerial + 1 BY <1>2, <2>3, <2>5 DEF StoreOK
  <2>7. \A i, j \in 1..Len(l) : i < j => l[i] < l[j]
    <3> SUFFICES ASSUME NEW i \in 1..Len(l), NEW j \in 1..Len(l), i < j PROVE l[i] < l[j] OBVIOUS
    <3>1. CASE j = Len(w.list) + 1 BY <1>2, <2>3, <2>5, <3>1 DEF StoreOK
    <3>2. CASE j # Len(w.list) + 1
      <4>1. i \in 1..Len(w.list) /\ j \in 1..Len(w.list) BY <1>2, <2>3, <3>2
      <4>2. w.list[i] < w.list[j] BY <2>5, <4>1 DEF StoreOK
      <4> QED BY <2>3, <4>1, <4>2
    <3> QED BY <3>1, <3>2
  <2>8. ASSUME ~(Len(l) < w.addressSerial + 1) PROVE l = [i \in 1..w.addressSerial + 1 |-> i - 1]
    <3>1. Len(w.list) = w.addressSerial BY <1>2, <2>3, <2>8
    <3>2. w.list = [i \in 1..w.addressSerial |-> i - 1] BY <1>2, <2>5, <3>1 DEF StoreOK, HasLost
    <3>3. ASSUME NEW i \in 1..w.addressSerial + 1 PROVE l[i] = i - 1
      <4>1. CASE i = w.addressSerial + 1 BY <1>2, <2>3, <3>1, <4>1
      <4>2. CASE i # w.addressSerial + 1
        <5>1. i \in 1..w.addressSerial /\ i \in 1..Len(w.list) BY <1>2, <3>1, <4>2
        <5>2. w.list[i] = i - 1 BY <3>2, <5>1
        <5> QED BY <2>3, <5>1, <5>2
      <4> QED BY <4>1, <4>2
    <3>4. Len(l) = w.addressSerial + 1 BY <2>3, <3>1
    <3> QED BY <2>3, <3>3, <3>4
  <2>9. StoreOK(q) BY <1>2, <2>2, <2>3, <2>6, <2>7, <2>8 DEF StoreOK, HasLost
  <2> QED BY <1>1, <1>2, <1>3, <2>1, <2>2, <2>3, <2>4, <2>9 DEF StoreInv, w
<1>4. CASE ~NeedsNew(w)
  <2>1. Prepared(s) = w BY <1>4 DEF Prepared, w
  <2>2. w.currentIndex < w.addressSerial BY <1>1, <1>2, <1>4 DEF NeedsNew
  <2> QED BY <1>1, <1>4, <2>1, <2>2 DEF w
<1> QED BY <1>3, <1>4

(* The cursor moves on, and the address at it, if there is one, is listed. *)
LEMMA AdvancedInv ==
  ASSUME NEW s, StoreInv(s)
  PROVE  /\ StoreInv(Advanced(s)) /\ Advanced(s).addressSerial = Prepared(s).addressSerial
         /\ Advanced(s).list = Prepared(s).list /\ AtCursor(s) \subseteq Range(Prepared(s).list)
<1> DEFINE q == Prepared(s)
<1>1. StoreInv(q) /\ q.currentIndex < q.addressSerial BY PreparedInv
<1>2. ASSUME HasNextAddress(s) PROVE NextAddress(s) \in Range(q.list)
  <2>1. q.currentIndex + 1 \in 1..Len(q.list) BY <1>1, <1>2, StoreIs DEF HasNextAddress
  <2>2. DOMAIN q.list = 1..Len(q.list) BY <1>1, StoreIs
  <2> QED BY <2>1, <2>2 DEF NextAddress, Range
<1>3. Advanced(s) = [q EXCEPT !.currentIndex = @ + 1] BY DEF Advanced
<1> HIDE DEF q
<1>4. Advanced(s) = [list |-> q.list, addressSerial |-> q.addressSerial, currentIndex |-> q.currentIndex + 1, group |-> Group]
  BY <1>1, <1>3, StoreIs
<1>5. StoreInv(Advanced(s)) BY <1>1, <1>4, StoreIs DEF StoreInv, StoreOK, HasLost
<1> QED BY <1>2, <1>4, <1>5 DEF AtCursor, q

(* Every key pair is derived again from its serial, also one that the      *)
(* process before could not make.                                          *)
LEMMA RestoredInv ==
  ASSUME NEW m, MapInv(m), AllKeys \subseteq DOMAIN m
  PROVE  /\ StoreInv(Restored(m)) /\ Restored(m).addressSerial = m["adressSerial"]
         /\ Range(Restored(m).list) = 0..m["adressSerial"] - 1
<1>1. Group \in Nat /\ Group > 0 BY AddressesAssumption
<1>2. {"adressSerial", "currentIndex", "numgroup"} \subseteq DOMAIN m BY KeysAre
<1>3. /\ m["adressSerial"] \in 0..Group /\ m["currentIndex"] \in 0..m["adressSerial"] /\ m["numgroup"] = Group
  BY <1>2 DEF MapInv
<1> DEFINE n == m["adressSerial"]
           list == [i \in 1..n |-> i - 1]
<1>4. list \in Seq(Nat) /\ Len(list) = n /\ DOMAIN list = 1..n /\ \A i \in 1..n : list[i] = i - 1
  BY <1>1, <1>3
<1>5. Restored(m) = [list |-> list, addressSerial |-> n, currentIndex |-> m["currentIndex"], group |-> Group]
  BY <1>3 DEF Restored
<1>6. list = [i \in 1..n |-> i - 1] OBVIOUS
<1> HIDE DEF list, n
<1>7. StoreOK(Restored(m)) BY <1>1, <1>3, <1>4, <1>5, <1>6 DEF StoreOK, HasLost, n
<1>8. Range(list) = 0..n - 1
  <2>1. Range(list) = {list[i] : i \in 1..n} BY <1>4 DEF Range
  <2>2. n \in Nat BY <1>1, <1>3 DEF n
  <2>3. \A a \in 0..n - 1 : a + 1 \in 1..n /\ list[a + 1] = a BY <1>4, <2>2
  <2>4. 0..n - 1 \subseteq Range(list) BY <2>1, <2>3
  <2>5. Range(list) \subseteq 0..n - 1 BY <1>4, <2>1, <2>2
  <2> QED BY <2>4, <2>5
<1> QED BY <1>1, <1>3, <1>4, <1>5, <1>7, <1>8 DEF StoreInv, n

(* The store of a save takes no other serial when the save ends.           *)
LEMMA NextSaved ==
  ASSUME NEW s, StoreInv(s), s.addressSerial = s.currentIndex + 1
  PROVE  Prepared(s) = s
<1>1. s.currentIndex < Group BY StoreIs
<1>2. Wrapped(s) = s BY <1>1, WrappedInv
<1>3. ~NeedsNew(s) BY StoreIs DEF NeedsNew
<1> QED BY <1>2, <1>3 DEF Prepared

(* A value that is written fits the values written before it.              *)
LEMMA WritesInv ==
  ASSUME MapInv(map), NEW k \in AllKeys, NEW v, Writes(k, v),
         k = "adressSerial" =>
           v \in 0..Group /\ ("currentIndex" \in DOMAIN map => map["currentIndex"] \in 0..v),
         k = "currentIndex" => "adressSerial" \in DOMAIN map /\ v \in 0..map["adressSerial"],
         k = "numgroup" => v = Group,
         v \in 0..Group
  PROVE  /\ MapInv(map') /\ DOMAIN map' = DOMAIN map \cup {k}
         /\ map'[k] = v /\ \A j \in DOMAIN map : j # k => map'[j] = map[j]
<1>1. /\ DOMAIN map' = DOMAIN map \cup {k} /\ map' = [j \in DOMAIN map' |-> map'[j]]
      /\ map'[k] = v /\ \A j \in DOMAIN map : j # k => map'[j] = map[j]
  BY DEF Writes
<1>2. \A j \in DOMAIN map' : map'[j] \in 0..Group BY <1>1 DEF MapInv
<1>3. "currentIndex" \in DOMAIN map' =>
        "adressSerial" \in DOMAIN map' /\ map'["currentIndex"] \in 0..map'["adressSerial"]
  <2>1. CASE k = "adressSerial" BY <1>1, <2>1 DEF MapInv
  <2>2. CASE k = "currentIndex" BY <1>1, <2>2 DEF MapInv
  <2>3. CASE k \notin {"adressSerial", "currentIndex"} BY <1>1, <2>3 DEF MapInv
  <2> QED BY <2>1, <2>2, <2>3
<1>4. "numgroup" \in DOMAIN map' => map'["numgroup"] = Group BY <1>1 DEF MapInv
<1>5. DOMAIN map' \subseteq AllKeys BY <1>1 DEF MapInv
<1> QED BY <1>1, <1>2, <1>3, <1>4, <1>5 DEF MapInv

-----------------------------------------------------------------------------
(* The steps.                                                              *)

LEMMA InitAddressInv == Init => AddressInv
<1> SUFFICES ASSUME Init PROVE AddressInv OBVIOUS
<1>1. /\ file = Nothing /\ map = Nothing /\ loaded = Nothing /\ store = NoStore
      /\ call = [kind |-> "save", at |-> 1] /\ handed = {} /\ unsaved = {}
  BY DEF Init, AddressInit
<1>2. AddressKinds BY <1>1, NothingInv, NewStoreInv DEF AddressKinds
<1>3. MapFollows BY <1>1, NothingInv DEF MapFollows, Live, Saving, Loading
<1>4. NextIsNewest /\ HandedKept BY <1>1 DEF NextIsNewest, HandedKept
<1>5. MadeKept BY <1>1, NewStoreInv, NothingInv DEF MadeKept
<1> QED BY <1>2, <1>3, <1>4, <1>5 DEF AddressInv

(* A list with one more serial.                                            *)
LEMMA RangeWith ==
  ASSUME NEW l \in Seq(Nat), NEW a \in Nat
  PROVE  Range(Append(l, a)) = Range(l) \cup {a}
<1>1. Append(l, a) \in Seq(Nat) /\ Len(Append(l, a)) = Len(l) + 1 OBVIOUS
<1>2. DOMAIN l = 1..Len(l) /\ DOMAIN Append(l, a) = 1..Len(l) + 1 /\ Len(l) \in Nat BY <1>1
<1>3. (\A i \in 1..Len(l) : Append(l, a)[i] = l[i]) /\ Append(l, a)[Len(l) + 1] = a OBVIOUS
<1>4. 1..Len(l) + 1 = (1..Len(l)) \cup {Len(l) + 1} BY <1>2
<1> HIDE DEF Range
<1> QED BY <1>2, <1>3, <1>4 DEF Range

(* A call that makes no key pair, or needs none: the list stays, and what  *)
(* is handed out is in it.                                                 *)
LEMMA SameList ==
  ASSUME AddressInv, call = Idle, call' = call, StoreInv(store'), store'.list = store.list,
         store'.addressSerial >= store.addressSerial,
         file' = file, map' = map, loaded' = loaded, unsaved' = unsaved,
         NEW H, H \subseteq Range(store.list), handed' = handed \cup H
  PROVE  AddressInv'
<1> USE DEF AddressInv
<1>1. /\ Live /\ ~Saving /\ ~Loading /\ Live' /\ ~Saving' /\ ~Loading' /\ call.kind # "next"
  BY DEF Live, Saving, Loading, Idle
<1>2. StoreInv(store) BY DEF AddressKinds
<1>3. H \subseteq 0..Group - 1
  <2> SUFFICES ASSUME NEW a \in H PROVE a \in 0..Group - 1 OBVIOUS
  <2>1. a \in Range(store.list) OBVIOUS
  <2>2. a \in Nat /\ a < store.addressSerial /\ store.addressSerial <= Group /\ store.addressSerial \in Nat /\ Group \in Nat
    BY <1>2, <2>1, StoreIs
  <2> QED BY <2>2
<1>4. AddressKinds'
  <2>1. handed' \subseteq 0..Group - 1 BY <1>3 DEF AddressKinds
  <2> QED BY <2>1, Zenon DEF AddressKinds
<1>5. MapFollows'
  <2>1. "adressSerial" \in DOMAIN map => map["adressSerial"] \in Nat /\ map["adressSerial"] <= store.addressSerial
    BY <1>1, AddressesAssumption DEF MapFollows, AddressKinds, MapInv
  <2>2. store.addressSerial \in Nat /\ store'.addressSerial \in Nat BY <1>2, StoreIs
  <2> QED BY <1>1, <2>1, <2>2 DEF MapFollows
<1>6. NextIsNewest' BY <1>1 DEF NextIsNewest
<1>7. \A a \in Range(store.list) : a \in unsaved \/ (KeptIn(file, a) /\ KeptIn(map, a)) BY <1>1 DEF MadeKept
<1>8. HandedKept'
  <2> SUFFICES ASSUME NEW a \in handed' \ unsaved' PROVE KeptIn(file, a) /\ KeptIn(map, a) /\ a \in Range(store.list)
    BY <1>1 DEF HandedKept, KeptIn
  <2>1. CASE a \in handed BY <1>1, <2>1 DEF HandedKept
  <2>2. CASE a \in H BY <1>7, <2>2
  <2> QED BY <2>1, <2>2
<1>9. MadeKept' BY <1>7 DEF MadeKept, KeptIn
<1> QED BY <1>4, <1>5, <1>6, <1>8, <1>9

LEMMA GetNextChangeAddressStep ==
  ASSUME AddressInv, GetNextChangeAddress
  PROVE  AddressInv'
<1> USE DEF AddressInv
<1>1. /\ call = Idle /\ StoreInv(store) /\ store.addressSerial \in Nat /\ store.list \in Seq(Nat)
      /\ file' = file /\ map' = map /\ loaded' = loaded /\ unsaved' = unsaved
  <2>1. StoreInv(store) BY DEF AddressKinds
  <2> QED BY <2>1, StoreIs DEF GetNextChangeAddress
<1>2. CASE NeedsNew(Wrapped(store)) /\ store' = Prepared(store) /\ call' = [kind |-> "next", at |-> 1] /\ handed' = handed
  <2>1. /\ StoreInv(store') /\ store'.addressSerial = store.addressSerial + 1
        /\ store'.currentIndex = store.addressSerial /\ store'.list = Append(store.list, store.addressSerial)
    BY <1>1, <1>2, PreparedInv
  <2>2. AddressKinds'
    <3>1. [kind |-> "next", at |-> 1] \in [kind : {"save", "next"}, at : 1..5] OBVIOUS
    <3> QED BY <1>1, <1>2, <2>1, <3>1, Zenon DEF AddressKinds
  <2>3. MapFollows'
    <3>1. "adressSerial" \in DOMAIN map => map["adressSerial"] \in Nat /\ map["adressSerial"] <= store.addressSerial
      BY <1>1, AddressesAssumption DEF MapFollows, AddressKinds, MapInv, Live, Idle
    <3> QED BY <1>1, <1>2, <2>1, <3>1 DEF MapFollows, Live, Idle, Saving, Loading
  <2>4. NextIsNewest' BY <1>1, <1>2, <2>1 DEF NextIsNewest
  <2>5. Range(store'.list) = Range(store.list) \cup {store.addressSerial} BY <1>1, <2>1, RangeWith
  <2>6. store.addressSerial \in Newest(store')
    <3> DEFINE l == Append(store.list, store.addressSerial)
    <3>1. Len(l) = Len(store.list) + 1 /\ l[Len(store.list) + 1] = store.addressSerial /\ l # <<>>
      BY <1>1
    <3>2. store'.list = l BY <2>1
    <3> HIDE DEF l
    <3> QED BY <3>1, <3>2 DEF Newest
  <2>7. HandedKept' BY <1>1, <1>2, <2>5 DEF HandedKept, Live, Idle, Loading, KeptIn
  <2>8. MadeKept'
    <3>1. \A a \in Range(store.list) : a \in unsaved \/ (KeptIn(file, a) /\ KeptIn(map, a))
      BY <1>1 DEF MadeKept, Live, Saving, Idle
    <3> QED BY <1>1, <1>2, <2>5, <2>6, <3>1 DEF MadeKept, Saving, KeptIn
  <2> QED BY <2>2, <2>3, <2>4, <2>7, <2>8
<1>3. CASE NeedsNew(Wrapped(store)) /\ store' = SerialLost(store) /\ call' = call /\ handed' = handed
  <2>1. StoreInv(store') /\ store'.list = store.list /\ store'.addressSerial = store.addressSerial + 1
    BY <1>1, <1>3, SerialLostInv
  <2>2. store'.addressSerial >= store.addressSerial /\ handed' = handed \cup {} BY <1>1, <1>3, <2>1
  <2> QED BY <1>1, <1>3, <2>1, <2>2, SameList
<1>4. CASE ~NeedsNew(Wrapped(store)) /\ store' = Advanced(store) /\ handed' = handed \cup AtCursor(store) /\ call' = call
  <2>1. Prepared(store).list = store.list /\ Prepared(store).addressSerial = store.addressSerial
    BY <1>1, <1>4, PreparedInv, WrappedInv
  <2>2. /\ StoreInv(store') /\ store'.list = store.list /\ store'.addressSerial = store.addressSerial
        /\ AtCursor(store) \subseteq Range(store.list)
    BY <1>1, <1>4, <2>1, AdvancedInv
  <2>3. store'.addressSerial >= store.addressSerial BY <1>1, <2>2
  <2> QED BY <1>1, <1>4, <2>2, <2>3, SameList
<1> QED BY <1>1, <1>2, <1>3, <1>4 DEF GetNextChangeAddress

(* Whatever a process leaves behind when it ends, or its load throws.      *)
LEMMA DownStep ==
  ASSUME AddressInv, call' = Down, map' = Nothing, StoreInv(store'), file' = file, loaded' = loaded,
         handed' = handed, unsaved \subseteq unsaved', unsaved' \subseteq 0..Group - 1
  PROVE  AddressInv'
<1> USE DEF AddressInv
<1>1. AddressKinds' BY NothingInv, Zenon DEF AddressKinds
<1>2. MapFollows' /\ NextIsNewest' /\ MadeKept'
  BY DEF MapFollows, NextIsNewest, MadeKept, Live, Saving, Loading, Down
<1>3. HandedKept' BY NothingInv DEF HandedKept, Live, Loading, Down, KeptIn
<1> QED BY <1>1, <1>2, <1>3

LEMMA NewestIs ==
  ASSUME NEW s, StoreInv(s)
  PROVE  Newest(s) \subseteq 0..Group - 1
<1>1. CASE s.list = <<>> BY <1>1 DEF Newest
<1>2. CASE s.list # <<>>
  <2>1. Len(s.list) \in 1..Len(s.list) /\ DOMAIN s.list = 1..Len(s.list) BY <1>2, StoreIs
  <2>2. s.list[Len(s.list)] \in Range(s.list) BY <2>1 DEF Range
  <2> DEFINE a == s.list[Len(s.list)]
  <2>4. a \in Range(s.list) BY <2>2
  <2> HIDE DEF a
  <2>5. a \in Nat /\ a < s.addressSerial /\ s.addressSerial <= Group /\ s.addressSerial \in Nat /\ Group \in Nat
    BY <2>4, StoreIs
  <2>3. s.list[Len(s.list)] \in 0..Group - 1 BY <2>5 DEF a
  <2> QED BY <1>2, <2>3 DEF Newest
<1> QED BY <1>1, <1>2

(* What the map of a process is after it added a value of its store.       *)
LEMMA SavedMap ==
  ASSUME AddressInv, Saving, Writes(Keys[call.at], ValueOf(store, Keys[call.at]))
  PROVE  /\ MapInv(map') /\ DOMAIN map \subseteq DOMAIN map'
         /\ "adressSerial" \in DOMAIN map' => map'["adressSerial"] <= store.addressSerial
         /\ call.at >= 3 => "adressSerial" \in DOMAIN map' /\ map'["adressSerial"] = store.addressSerial
         /\ \A a \in Nat : a < store.addressSerial /\ KeptIn(map, a) => KeptIn(map', a)
<1> USE DEF AddressInv
<1> DEFINE k == Keys[call.at]
           v == ValueOf(store, k)
<1>1. call.at \in 1..5 BY DEF AddressKinds, Saving, Down, Idle
<1>2. /\ MapInv(map) /\ Group \in Nat /\ store.addressSerial \in 0..Group
      /\ store.currentIndex \in 0..store.addressSerial /\ store.group = Group
  <2>1. StoreInv(store) BY DEF AddressKinds
  <2> QED BY <2>1, StoreIs DEF AddressKinds
<1>3. "adressSerial" \in DOMAIN map =>
        map["adressSerial"] \in 0..Group /\ map["adressSerial"] <= store.addressSerial
  BY <1>2 DEF MapFollows, Live, Saving, MapInv
<1>4. call.at > 3 => "adressSerial" \in DOMAIN map /\ map["adressSerial"] = store.addressSerial
  BY DEF MapFollows
<1>5. k \in AllKeys /\ (k = "adressSerial" <=> call.at = 3) BY <1>1, KeysAre
<1>6. k = "adressSerial" =>
        v \in 0..Group /\ ("currentIndex" \in DOMAIN map => map["currentIndex"] \in 0..v)
  <2>1. k = "adressSerial" => v = store.addressSerial BY DEF ValueOf
  <2> QED BY <1>2, <1>3, <2>1 DEF MapInv
<1>7. k = "currentIndex" => "adressSerial" \in DOMAIN map /\ v \in 0..map["adressSerial"]
  <2>1. k = "currentIndex" => v = store.currentIndex /\ call.at = 4 BY <1>1, KeysAre DEF ValueOf
  <2> QED BY <1>2, <1>4, <2>1
<1>8. k = "numgroup" => v = Group BY <1>2 DEF ValueOf
<1>9. k = "adressSerial" => v = store.addressSerial BY DEF ValueOf
<1>17. v \in 0..Group BY <1>2 DEF ValueOf
<1> HIDE DEF k, v
<1>10. Writes(k, v) BY DEF k, v
<1>11. /\ MapInv(map') /\ DOMAIN map' = DOMAIN map \cup {k}
       /\ map'[k] = v /\ \A j \in DOMAIN map : j # k => map'[j] = map[j]
  BY <1>2, <1>5, <1>6, <1>7, <1>8, <1>10, <1>17, WritesInv
<1>12. call.at = 3 => "adressSerial" \in DOMAIN map' /\ map'["adressSerial"] = store.addressSerial
  BY <1>5, <1>9, <1>11
<1>13. call.at # 3 => /\ "adressSerial" \in DOMAIN map' <=> "adressSerial" \in DOMAIN map
                      /\ "adressSerial" \in DOMAIN map => map'["adressSerial"] = map["adressSerial"]
  BY <1>5, <1>11
<1>14. "adressSerial" \in DOMAIN map' => map'["adressSerial"] <= store.addressSerial
  BY <1>2, <1>3, <1>12, <1>13
<1>15. call.at >= 3 => "adressSerial" \in DOMAIN map' /\ map'["adressSerial"] = store.addressSerial
  BY <1>1, <1>4, <1>12, <1>13
<1>16. \A a \in Nat : a < store.addressSerial /\ KeptIn(map, a) => KeptIn(map', a)
  BY <1>12, <1>13 DEF KeptIn
<1> QED BY <1>11, <1>14, <1>15, <1>16

(* A save that throws gives nobody its address.                            *)
LEMMA ThrownSave ==
  ASSUME AddressInv, Saving, SaveThrows, file' = file,
         MapInv(map'), DOMAIN map \subseteq DOMAIN map',
         "adressSerial" \in DOMAIN map' => map'["adressSerial"] <= store.addressSerial,
         \A a \in Nat : a < store.addressSerial /\ KeptIn(map, a) => KeptIn(map', a)
  PROVE  AddressInv'
<1> USE DEF AddressInv
<1>1. /\ call' = Idle /\ unsaved' = unsaved \cup Newest(store) /\ loaded' = loaded /\ store' = store
      /\ handed' = handed /\ Live
  BY DEF SaveThrows, Live, Saving
<1>2. StoreInv(store) BY DEF AddressKinds
<1>3. Newest(store) \subseteq 0..Group - 1 BY <1>2, NewestIs
<1>9. \A a \in Range(store.list) : a \in Nat /\ a < store.addressSerial BY <1>2, StoreIs
<1>4. AddressKinds' BY <1>1, <1>3, Zenon DEF AddressKinds
<1>5. MapFollows' BY <1>1 DEF MapFollows, Saving, Loading, Idle
<1>6. NextIsNewest' BY <1>1 DEF NextIsNewest, Idle
<1>7. HandedKept'
  <2> SUFFICES ASSUME NEW a \in handed \ unsaved'
               PROVE  KeptIn(file', a) /\ KeptIn(map', a) /\ a \in Range(store'.list)
    BY <1>1 DEF HandedKept, Loading, Idle, Live
  <2>1. KeptIn(file, a) /\ KeptIn(map, a) /\ a \in Range(store.list) BY <1>1 DEF HandedKept
  <2> QED BY <1>1, <1>9, <2>1 DEF KeptIn
<1>8. MadeKept'
  <2> SUFFICES ASSUME NEW a \in Range(store.list), a \notin unsaved'
               PROVE  KeptIn(file', a) /\ KeptIn(map', a)
    BY <1>1 DEF MadeKept
  <2>1. a \notin unsaved /\ a \notin Newest(store) BY <1>1
  <2>2. KeptIn(file, a) /\ KeptIn(map, a) BY <1>1, <2>1 DEF MadeKept
  <2> QED BY <1>9, <2>2 DEF KeptIn
<1> QED BY <1>4, <1>5, <1>6, <1>7, <1>8

(* One value of a save: it throws, or the file has the map of the process. *)
LEMMA SaveValueStep ==
  ASSUME AddressInv, SaveValue
  PROVE  AddressInv'
<1> USE DEF AddressInv
<1> DEFINE k == Keys[call.at]
<1>1. /\ Saving /\ Live /\ ~Loading /\ call.at \in 1..5 /\ StoreInv(store) /\ store.addressSerial \in 0..Group
      /\ Group \in Nat
      /\ \A a \in Range(store.list) : a \in Nat /\ a < store.addressSerial
  <2>1. StoreInv(store) BY DEF AddressKinds
  <2>2. store.addressSerial \in 0..Group /\ Group \in Nat BY <2>1, StoreIs
  <2>3. \A a \in Range(store.list) : a \in Nat /\ a < store.addressSerial BY <2>1, StoreIs
  <2> QED BY <2>1, <2>2, <2>3 DEF SaveValue, AddressKinds, Saving, Live, Loading, Down, Idle
<1>2. CASE map' = map /\ file' = file /\ SaveThrows
  <2>1. MapInv(map) BY DEF AddressKinds
  <2>2. "adressSerial" \in DOMAIN map => map["adressSerial"] <= store.addressSerial BY <1>1 DEF MapFollows
  <2> QED BY <1>1, <1>2, <2>1, <2>2, ThrownSave
<1>3. CASE Writes(k, ValueOf(store, k)) /\ file' = file /\ SaveThrows
  BY <1>1, <1>3, SavedMap, ThrownSave
<1>4. CASE /\ Writes(k, ValueOf(store, k)) /\ file' = map' /\ loaded' = loaded /\ unsaved' = unsaved
           /\ IF call.at < 5
              THEN call' = [call EXCEPT !.at = @ + 1] /\ store' = store /\ handed' = handed
              ELSE /\ call' = Idle /\ store' = IF call.kind = "next" THEN Advanced(store) ELSE store
                   /\ handed' = IF call.kind = "next" THEN handed \cup AtCursor(store) ELSE handed
  <2>1. /\ MapInv(map')
        /\ "adressSerial" \in DOMAIN map' => map'["adressSerial"] <= store.addressSerial
        /\ call.at >= 3 => "adressSerial" \in DOMAIN map' /\ map'["adressSerial"] = store.addressSerial
        /\ \A a \in Nat : a < store.addressSerial /\ KeptIn(map, a) => KeptIn(map', a)
    BY <1>1, <1>4, SavedMap
  <2>2. \A a \in handed \ unsaved : a \in Range(store.list) /\ KeptIn(map', a)
    <3>1. \A a \in handed \ unsaved : a \in Range(store.list) /\ KeptIn(map, a) BY <1>1 DEF HandedKept
    <3> QED BY <1>1, <2>1, <3>1
  <2>3. \A a \in Range(store.list) : a \in unsaved \/ (call.at <= 3 /\ a \in Newest(store)) \/ KeptIn(map', a)
    <3>1. \A a \in Range(store.list) : a \in unsaved \/ (call.at <= 3 /\ a \in Newest(store)) \/ KeptIn(map, a)
      BY <1>1 DEF MadeKept
    <3> QED BY <1>1, <2>1, <3>1
  <2>4. call.at >= 3 => \A a \in Range(store.list) : KeptIn(map', a)
    BY <1>1, <2>1 DEF KeptIn
  <2>5. CASE call.at < 5 /\ call' = [call EXCEPT !.at = @ + 1] /\ store' = store /\ handed' = handed
    <3>1. /\ call' \in [kind : {"save", "next"}, at : 1..5] /\ call'.kind = call.kind /\ call'.at = call.at + 1
      <4>1. call \in [kind : {"save", "next"}, at : 1..5]
        BY <1>1 DEF AddressKinds, Saving, Down, Idle
      <4>2. call' = [kind |-> call.kind, at |-> call.at + 1] BY <4>1, <2>5
      <4>3. call.at + 1 \in 1..5 BY <1>1, <2>5
      <4> QED BY <4>1, <4>2, <4>3
    <3>2. Saving' /\ Live' /\ ~Loading' BY <1>1, <3>1 DEF Saving, Live, Loading
    <3>3. AddressKinds' BY <1>4, <2>1, <2>5, <3>1, Zenon DEF AddressKinds
    <3>4. MapFollows' BY <1>1, <1>4, <2>1, <2>5, <3>1, <3>2 DEF MapFollows
    <3>5. NextIsNewest' BY <2>5, <3>1 DEF NextIsNewest
    <3>6. HandedKept' BY <1>4, <2>2, <2>5, <3>2 DEF HandedKept
    <3>7. MadeKept'
      <4> SUFFICES ASSUME NEW a \in Range(store.list)
                   PROVE  \/ a \in unsaved
                          \/ call.at + 1 <= 3 /\ a \in Newest(store)
                          \/ KeptIn(map', a)
        BY <1>4, <2>5, <3>1, <3>2 DEF MadeKept
      <4> QED BY <1>1, <2>3, <2>4
    <3> QED BY <3>3, <3>4, <3>5, <3>6, <3>7
  <2>6. CASE /\ ~(call.at < 5) /\ call' = Idle
             /\ store' = IF call.kind = "next" THEN Advanced(store) ELSE store
             /\ handed' = IF call.kind = "next" THEN handed \cup AtCursor(store) ELSE handed
    <3>1. /\ StoreInv(store') /\ store'.addressSerial = store.addressSerial /\ store'.list = store.list
          /\ \E H \in SUBSET Range(store.list) : handed' = handed \cup H
      <4>1. CASE call.kind = "next"
        <5>1. Prepared(store) = store BY <1>1, <4>1, NextSaved DEF NextIsNewest
        <5>2. AtCursor(store) \in SUBSET Range(store.list) BY <1>1, <5>1, AdvancedInv
        <5> QED BY <1>1, <2>6, <4>1, <5>1, <5>2, AdvancedInv
      <4>2. CASE call.kind # "next"
        <5>1. handed' = handed \cup {} BY <2>6, <4>2
        <5> QED BY <1>1, <2>6, <4>2, <5>1
      <4> QED BY <4>1, <4>2
    <3>2. \A a \in Range(store.list) : KeptIn(map', a) BY <1>1, <2>4, <2>6
    <3>3. handed' \subseteq 0..Group - 1
      <4>1. handed \subseteq 0..Group - 1 BY DEF AddressKinds
      <4>2. Range(store.list) \subseteq 0..Group - 1 BY <1>1
      <4> QED BY <3>1, <4>1, <4>2
    <3>4. AddressKinds' BY <1>4, <2>1, <2>6, <3>1, <3>3, Zenon DEF AddressKinds
    <3>5. Live' /\ ~Saving' /\ ~Loading' BY <2>6 DEF Live, Saving, Loading, Idle
    <3>6. MapFollows' BY <1>4, <2>1, <3>1, <3>5 DEF MapFollows
    <3>7. NextIsNewest' BY <2>6 DEF NextIsNewest, Idle
    <3>8. HandedKept' BY <1>4, <2>2, <3>1, <3>2, <3>5 DEF HandedKept
    <3>9. MadeKept' BY <1>4, <3>1, <3>2 DEF MadeKept
    <3> QED BY <3>4, <3>6, <3>7, <3>8, <3>9
  <2> QED BY <1>4, <2>5, <2>6
<1> QED BY <1>1, <1>2, <1>3, <1>4, KeysAre DEF SaveValue, WriteFails

(* A new process begins to load.                                           *)
LEMMA BeginLoadStep ==
  ASSUME AddressInv, BeginLoad
  PROVE  AddressInv'
<1> USE DEF AddressInv
<1>1. /\ loaded' = file /\ map' = Nothing /\ call' = [kind |-> "load", at |-> 1] /\ file' = file
      /\ store' = store /\ handed' = handed /\ unsaved' = unsaved
  BY DEF BeginLoad
<1>2. Loading' /\ ~Live' /\ ~Saving' BY <1>1 DEF Loading, Live, Saving
<1>3. AddressKinds'
  <2>1. call' \in [kind : {"load"}, at : 1..6] BY <1>1
  <2> QED BY <1>1, <2>1, NothingInv, Zenon DEF AddressKinds
<1>4. MapFollows' BY <1>1, <1>2, NothingInv DEF MapFollows
<1>5. NextIsNewest' /\ MadeKept' BY <1>1, <1>2 DEF NextIsNewest, MadeKept
<1>6. HandedKept' BY <1>1, <1>2, NothingInv DEF HandedKept
<1> QED BY <1>3, <1>4, <1>5, <1>6

LEMMA LoadValueStep ==
  ASSUME AddressInv, LoadValue
  PROVE  AddressInv'
<1> USE DEF AddressInv
<1> DEFINE k == Keys[call.at]
           v == loaded[k]
<1>1. Loading /\ call.at \in 1..5 /\ MapInv(map) /\ MapInv(loaded)
  BY DEF LoadValue, AddressKinds, Loading, Down, Idle, Keys
<1>2. /\ DOMAIN map \subseteq DOMAIN loaded /\ \A j \in DOMAIN map : map[j] = loaded[j]
      /\ call.at > 3 /\ "adressSerial" \in DOMAIN loaded => "adressSerial" \in DOMAIN map
  BY <1>1 DEF MapFollows
<1>3. k \in AllKeys /\ (k = "adressSerial" <=> call.at = 3) /\ (k = "currentIndex" => call.at = 4)
  BY <1>1, KeysAre
<1>4. CASE ToLoad(k) /\ Writes(k, v) /\ WriteFails /\ Threw
  <2>1. unsaved' \subseteq 0..Group - 1 /\ StoreInv(store') BY <1>4 DEF Threw, AddressKinds
  <2> QED BY <1>4, <2>1, DownStep DEF Threw, WriteFails
<1>5. ASSUME /\ call' = [call EXCEPT !.at = @ + 1] /\ loaded' = loaded /\ store' = store
             /\ handed' = handed /\ unsaved' = unsaved,
             MapInv(map'), DOMAIN map' \subseteq DOMAIN loaded, \A j \in DOMAIN map' : map'[j] = loaded[j],
             DOMAIN map' = {} \/ file' = map',
             file' = map' \/ file' = file,
             call.at = 3 /\ "adressSerial" \in DOMAIN loaded => "adressSerial" \in DOMAIN map',
             DOMAIN map \subseteq DOMAIN map'
      PROVE  AddressInv'
  <2>1. call' \in [kind : {"load"}, at : 1..6] /\ call'.kind = "load" /\ call'.at = call.at + 1
    <3>1. call \in [kind : {"load"}, at : 1..6] BY <1>1 DEF AddressKinds, Loading, Down, Idle
    <3>2. call' = [kind |-> "load", at |-> call.at + 1] BY <1>5, <3>1
    <3>3. call.at + 1 \in 1..6 BY <1>1
    <3> QED BY <3>2, <3>3
  <2>2. Loading' /\ ~Live' /\ ~Saving' BY <2>1 DEF Loading, Live, Saving
  <2>3. MapInv(file') BY <1>5 DEF AddressKinds
  <2>4. AddressKinds' BY <1>5, <2>1, <2>3, Zenon DEF AddressKinds
  <2>5. MapFollows'
    <3>1. call'.at > 3 /\ "adressSerial" \in DOMAIN loaded' => "adressSerial" \in DOMAIN map'
      BY <1>1, <1>2, <1>5, <2>1
    <3> QED BY <1>5, <2>2, <3>1 DEF MapFollows
  <2>6. NextIsNewest' /\ MadeKept' BY <2>1, <2>2 DEF NextIsNewest, MadeKept
  <2>7. HandedKept'
    <3>1. \A a \in handed \ unsaved : KeptIn(loaded, a) /\ KeptIn(file, a) BY <1>1 DEF HandedKept
    <3>2. \A a \in handed \ unsaved : KeptIn(map', a) BY <1>5, <3>1 DEF KeptIn
    <3>3. \A a \in handed \ unsaved : KeptIn(file', a) BY <1>5, <3>1, <3>2
    <3> QED BY <1>5, <2>2, <3>1, <3>2, <3>3 DEF HandedKept
  <2> QED BY <2>4, <2>5, <2>6, <2>7
<1>6. CASE /\ ToLoad(k) /\ Writes(k, v) /\ file' = map' /\ call' = [call EXCEPT !.at = @ + 1]
           /\ loaded' = loaded /\ store' = store /\ handed' = handed /\ unsaved' = unsaved
  <2>1. k \in DOMAIN loaded BY <1>6 DEF ToLoad
  <2>2. k = "adressSerial" =>
          v \in 0..Group /\ ("currentIndex" \in DOMAIN map => map["currentIndex"] \in 0..v)
    <3>1. "currentIndex" \in DOMAIN map =>
            "currentIndex" \in DOMAIN loaded /\ map["currentIndex"] = loaded["currentIndex"]
      BY <1>2
    <3> QED BY <1>1, <2>1, <3>1 DEF MapInv
  <2>3. k = "currentIndex" => "adressSerial" \in DOMAIN map /\ v \in 0..map["adressSerial"]
    <3>1. "currentIndex" \in DOMAIN loaded =>
            "adressSerial" \in DOMAIN loaded /\ loaded["currentIndex"] \in 0..loaded["adressSerial"]
      BY <1>1 DEF MapInv
    <3> QED BY <1>2, <1>3, <2>1, <3>1
  <2>4. (k = "numgroup" => v = Group) /\ v \in 0..Group BY <1>1, <2>1 DEF MapInv
  <2> HIDE DEF k, v
  <2>5. /\ MapInv(map') /\ DOMAIN map' = DOMAIN map \cup {k}
        /\ map'[k] = v /\ \A j \in DOMAIN map : j # k => map'[j] = map[j]
    BY <1>1, <1>3, <1>6, <2>2, <2>3, <2>4, WritesInv
  <2>6. \A j \in DOMAIN map' : map'[j] = loaded[j] BY <1>2, <2>5 DEF v
  <2>7. DOMAIN map' \subseteq DOMAIN loaded /\ DOMAIN map \subseteq DOMAIN map'
    BY <1>2, <2>1, <2>5
  <2>8. call.at = 3 => "adressSerial" \in DOMAIN map' BY <1>3, <2>5
  <2> QED BY <1>5, <1>6, <2>5, <2>6, <2>7, <2>8
<1>7. CASE /\ ~ToLoad(k) /\ call' = [call EXCEPT !.at = @ + 1] /\ map' = map /\ file' = file
           /\ loaded' = loaded /\ store' = store /\ handed' = handed /\ unsaved' = unsaved
  <2>1. DOMAIN map = {} \/ file = map BY <1>1 DEF MapFollows
  <2>2. call.at = 3 => "adressSerial" \notin DOMAIN loaded BY <1>3, <1>7 DEF ToLoad
  <2> QED BY <1>1, <1>2, <1>5, <1>7, <2>1, <2>2
<1> QED BY <1>4, <1>6, <1>7 DEF LoadValue

LEMMA EndLoadStep ==
  ASSUME AddressInv, EndLoad
  PROVE  AddressInv' /\ (call' = Idle => file' = loaded)
<1> USE DEF AddressInv
<1>1. Loading /\ file' = file /\ MapInv(map) /\ MapInv(loaded) BY DEF EndLoad, AddressKinds
<1>2. CASE Threw
  <2>1. unsaved' \subseteq 0..Group - 1 /\ StoreInv(store') BY <1>2 DEF Threw, AddressKinds
  <2> QED BY <1>1, <1>2, <2>1, DownStep DEF Threw, Down, Idle
<1>3. CASE /\ AllKeys \subseteq DOMAIN map /\ store' = Restored(map) /\ call' = Idle
           /\ map' = map /\ loaded' = loaded /\ handed' = handed /\ unsaved' = unsaved
  <2>1. /\ StoreInv(store') /\ store'.addressSerial = map["adressSerial"]
        /\ Range(store'.list) = 0..map["adressSerial"] - 1
    BY <1>1, <1>3, RestoredInv
  <2>2. "adressSerial" \in DOMAIN map /\ map["adressSerial"] \in Nat
    BY <1>1, <1>3, KeysAre, AddressesAssumption DEF MapInv
  <2>3. file = map
    <3>1. DOMAIN map = {} \/ file = map BY <1>1 DEF MapFollows
    <3> QED BY <2>2, <3>1
  <2>4. map = loaded
    <3>1. DOMAIN map = DOMAIN loaded BY <1>1, <1>3 DEF MapFollows, MapInv
    <3>2. \A j \in DOMAIN map : map[j] = loaded[j] BY <1>1 DEF MapFollows
    <3>3. map = [j \in DOMAIN map |-> map[j]] /\ loaded = [j \in DOMAIN loaded |-> loaded[j]]
      BY <1>1 DEF MapInv
    <3> QED BY <3>1, <3>2, <3>3
  <2>5. Live' /\ ~Saving' /\ ~Loading' BY <1>3 DEF Live, Saving, Loading, Idle
  <2>6. AddressKinds' BY <1>1, <1>3, <2>1, Zenon DEF AddressKinds
  <2>7. MapFollows' BY <1>1, <1>3, <2>1, <2>2, <2>3, <2>5 DEF MapFollows
  <2>8. NextIsNewest' BY <1>3 DEF NextIsNewest, Idle
  <2>9. HandedKept'
    <3>1. handed \subseteq 0..Group - 1 BY DEF AddressKinds
    <3>2. \A a \in handed \ unsaved : a \in Nat /\ KeptIn(file, a) /\ KeptIn(map, a)
      BY <3>1, AddressesAssumption DEF HandedKept
    <3>3. \A a \in handed \ unsaved : a \in 0..map["adressSerial"] - 1 BY <2>2, <3>2 DEF KeptIn
    <3> QED BY <1>1, <1>3, <2>1, <2>5, <3>2, <3>3 DEF HandedKept, KeptIn
  <2>10. MadeKept' BY <1>1, <1>3, <2>1, <2>2, <2>3 DEF MadeKept, KeptIn
  <2> QED BY <1>1, <2>3, <2>4, <2>6, <2>7, <2>8, <2>9, <2>10
<1> QED BY <1>2, <1>3 DEF EndLoad

(* A crash loses what was being saved.                                     *)
LEMMA CrashStep ==
  ASSUME AddressInv, Crash
  PROVE  AddressInv'
<1> USE DEF AddressInv
<1>1. StoreInv(store) /\ unsaved \subseteq 0..Group - 1 BY DEF AddressKinds
<1>2. /\ call' = Down /\ map' = Nothing /\ store' = NoStore /\ file' = file /\ loaded' = loaded
      /\ handed' = handed /\ unsaved' = IF Saving THEN unsaved \cup Newest(store) ELSE unsaved
  BY DEF Crash
<1>3. unsaved \subseteq unsaved' /\ unsaved' \subseteq 0..Group - 1 BY <1>1, <1>2, NewestIs
<1> QED BY <1>2, <1>3, NewStoreInv, DownStep

LEMMA NextAddressInv == AddressInv /\ [Next]_vars => AddressInv'
<1> SUFFICES ASSUME AddressInv, [Next]_vars PROVE AddressInv' OBVIOUS
<1>1. CASE AddressNext
  BY <1>1, GetNextChangeAddressStep, SaveValueStep, BeginLoadStep, LoadValueStep, EndLoadStep DEF AddressNext
<1>2. CASE Crash BY <1>2, CrashStep
<1>3. CASE UNCHANGED addressVars
  BY <1>3 DEF addressVars, AddressInv, AddressKinds, MapFollows, NextIsNewest, HandedKept, MadeKept,
              Live, Saving, Loading
<1> QED BY <1>1, <1>2, <1>3 DEF Next, vars

-----------------------------------------------------------------------------
(* Whatever the bounds, the settings on disk, the map of the process and   *)
(* its store stay in step as AddressInv says, through saves and loads that *)
(* fail or are cut off between any two of their writes, and through calls  *)
(* in which no key pair can be made for the serial that was taken.         *)
THEOREM AddressesInStep == Spec => []AddressInv
<1>1. Init => AddressInv BY InitAddressInv
<1>2. AddressInv /\ [Next]_vars => AddressInv' BY NextAddressInv
<1> QED BY <1>1, <1>2, PTL DEF Spec

(* A change address that was handed out, and whose save did not fail, has  *)
(* its key pair in every process that has loaded the account.              *)
THEOREM AddressesAreRecovered == Spec => []AddressesRecovered
<1>1. AddressInv => AddressesRecovered
  BY DEF AddressInv, HandedKept, Live, AddressesRecovered
<1> QED BY <1>1, AddressesInStep, PTL

(* Settings are lost only in a load that did not end.                      *)
THEOREM SettingsAreKept == Spec => SettingsKept
<1> DEFINE StepKeeps == /\ ~Loading => DOMAIN file \subseteq DOMAIN file'
                        /\ Loading /\ call' = Idle => file' = loaded
<1>1. AddressInv /\ [Next]_vars => [StepKeeps]_<<file, loaded, call>>
  <2> SUFFICES ASSUME AddressInv, [Next]_vars PROVE [StepKeeps]_<<file, loaded, call>> OBVIOUS
  <2>1. CASE GetNextChangeAddress BY <2>1 DEF GetNextChangeAddress, Loading, Idle
  <2>2. CASE SaveValue
    <3>1. Saving /\ ~Loading /\ Live BY <2>2 DEF SaveValue, Saving, Loading, Live
    <3>2. DOMAIN file \subseteq DOMAIN map BY <3>1 DEF AddressInv, MapFollows
    <3>3. DOMAIN file \subseteq DOMAIN file'
      <4>1. CASE file' = file BY <4>1
      <4>2. CASE Writes(Keys[call.at], ValueOf(store, Keys[call.at])) /\ file' = map'
        BY <3>1, <3>2, <4>2, SavedMap
      <4> QED BY <2>2, <4>1, <4>2 DEF SaveValue, WriteFails
    <3> QED BY <3>1, <3>3
  <2>3. CASE BeginLoad BY <2>3 DEF BeginLoad, Down, Loading
  <2>4. CASE LoadValue
    <3>1. Loading BY <2>4 DEF LoadValue
    <3>2. call' # Idle
      <4>1. call \in [kind : {"load"}, at : 1..6] BY <3>1 DEF AddressInv, AddressKinds, Loading, Down, Idle
      <4>2. CASE call' = [call EXCEPT !.at = @ + 1] BY <4>1, <4>2 DEF Idle
      <4>3. CASE call' = Down BY <4>3 DEF Down, Idle
      <4> QED BY <2>4, <4>2, <4>3 DEF LoadValue, Threw
    <3> QED BY <3>1, <3>2
  <2>5. CASE EndLoad BY <2>5, EndLoadStep DEF EndLoad
  <2>6. CASE Crash BY <2>6 DEF Crash, Down, Idle
  <2>7. CASE UNCHANGED addressVars BY <2>7 DEF addressVars
  <2> QED BY <2>1, <2>2, <2>3, <2>4, <2>5, <2>6, <2>7 DEF Next, AddressNext, vars
<1> QED BY <1>1, AddressesInStep, PTL DEF Spec, SettingsKept

-----------------------------------------------------------------------------
(* The inductive invariant of the coins.                                   *)

Jobs == [trx : Trxs, at : Nat \ {0}, half : BOOLEAN, imported : BOOLEAN]

Lists == \A a \in 0..Group - 1 : \A i \in DOMAIN byAddress[a] : Pays[byAddress[a][i]] = a

RepositoryKinds ==
  /\ byAddress \in [0..Group - 1 -> Seq(Trxs)] /\ Lists
  /\ byId \in [Trxs -> Int] /\ \A u \in Trxs : byId[u] \in {None, Freed, Pays[u]}
  /\ trxs \subseteq Trxs /\ damaged \subseteq Trxs /\ completed \subseteq Trxs /\ late \subseteq Trxs
  /\ job \in {NoJob} \cup Jobs
  /\ Importing => job.at <= Len(Refs) + 2 /\ call = Idle

(* Between its two writes, a coin that is removed is not in the tree by    *)
(* address any more, and one that is put is in it already.                 *)
HalfMeans ==
  job.half => IF job.at <= Len(Refs) THEN ~Listed(Refs[job.at]) ELSE job.at = Len(Refs) + 1 /\ Listed(job.trx)

(* What an import has referred to is out of the account's coins, ...       *)
Processed(i) == i < job.at \/ (i = job.at /\ job.half)
ReferredGone ==
  Importing => \A i \in DOMAIN Refs : Processed(i) => (Listed(Refs[i]) => Refs[i] \in late \cup damaged)

(* ... what it puts back after it was spent is known to be late, ...       *)
LateKnown == Importing => ((\E s \in completed : job.trx \in Range(Spends[s])) => job.trx \in late)

(* ... and when it comes to the transaction it has put what pays to the    *)
(* account into both trees.                                                *)
OutputKept ==
  Importing /\ job.at = Len(Refs) + 2 =>
    \/ Pays[job.trx] \notin Range(store.list)
    \/ Listed(job.trx) /\ byId[job.trx] = Pays[job.trx] /\ job.imported

RepositoryInv ==
  RepositoryKinds /\ HalfMeans /\ TreesAgree /\ ReferredGone /\ LateKnown /\ OutputKept /\ SpentStaysSpent

-----------------------------------------------------------------------------
(* The trees.                                                              *)

LEMMA PaysIs == \A u \in Trxs : Pays[u] \in 0..Group - 1 /\ Pays[u] \in Int /\ Pays[u] # None /\ Pays[u] # Freed
BY AddressesAssumption, RepositoryAssumption DEF None, Freed

LEMMA JobIs ==
  ASSUME RepositoryKinds, Importing
  PROVE  /\ job \in Jobs /\ job.trx \in Trxs /\ job.at \in Nat \ {0} /\ job.half \in BOOLEAN /\ job.imported \in BOOLEAN
         /\ Refs \in Seq(Trxs) /\ Len(Refs) \in Nat /\ DOMAIN Refs = 1..Len(Refs)
         /\ job.at <= Len(Refs) => job.at \in DOMAIN Refs /\ Refs[job.at] \in Trxs
         /\ job.trx \notin Range(Refs)
<1>1. job \in Jobs BY DEF RepositoryKinds, Importing
<1>2. job.trx \in Trxs /\ job.at \in Nat \ {0} /\ job.half \in BOOLEAN /\ job.imported \in BOOLEAN
  BY <1>1 DEF Jobs
<1>3. Refs \in Seq(Trxs) /\ job.trx \notin Range(Refs) BY <1>2, RepositoryAssumption DEF Refs
<1>4. Len(Refs) \in Nat /\ DOMAIN Refs = 1..Len(Refs) BY <1>3
<1>5. job.at <= Len(Refs) => job.at \in DOMAIN Refs /\ Refs[job.at] \in Trxs BY <1>2, <1>3, <1>4
<1> QED BY <1>1, <1>2, <1>3, <1>4, <1>5

(* A list of coins in which one is replaced by another list.               *)
LEMMA ListedElsewhere ==
  ASSUME byAddress \in [0..Group - 1 -> Seq(Trxs)], NEW u \in Trxs, NEW s \in Seq(Trxs),
         byAddress' = [byAddress EXCEPT ![Pays[u]] = s], Lists,
         \A w \in Range(s) : Pays[w] = Pays[u]
  PROVE  /\ byAddress' \in [0..Group - 1 -> Seq(Trxs)] /\ Lists'
         /\ byAddress'[Pays[u]] = s
         /\ \A w \in Trxs : Pays[w] # Pays[u] => byAddress'[Pays[w]] = byAddress[Pays[w]]
<1>1. Pays[u] \in 0..Group - 1 BY PaysIs
<1>2. byAddress' \in [0..Group - 1 -> Seq(Trxs)] /\ byAddress'[Pays[u]] = s BY <1>1
<1>3. \A w \in Trxs : Pays[w] # Pays[u] => byAddress'[Pays[w]] = byAddress[Pays[w]] BY PaysIs
<1>4. ASSUME NEW a \in 0..Group - 1, NEW i \in DOMAIN byAddress'[a] PROVE Pays[byAddress'[a][i]] = a
  <2>1. CASE a = Pays[u] BY <1>2, <1>4, <2>1 DEF Range
  <2>2. CASE a # Pays[u]
    <3>1. byAddress'[a] = byAddress[a] BY <2>2
    <3> QED BY <1>4, <3>1 DEF Lists
  <2> QED BY <2>1, <2>2
<1> QED BY <1>2, <1>3, <1>4 DEF Lists

(* A coin that is taken out leaves every other one where it is.            *)
LEMMA WithoutIs ==
  ASSUME RepositoryKinds, TreesAgree, NEW u \in Trxs, byAddress' = Without(u)
  PROVE  /\ byAddress' \in [0..Group - 1 -> Seq(Trxs)] /\ Lists'
         /\ \A w \in Trxs : IsInjective(byAddress'[Pays[w]])
         /\ \A w \in Trxs : Listed(w)' <=> Listed(w) /\ w # u
<1> DEFINE s == byAddress[Pays[u]]
           r == RemoveFirst(s, u)
<1>1. Pays[u] \in 0..Group - 1 BY PaysIs
<1>2. s \in Seq(Trxs) /\ byAddress \in [0..Group - 1 -> Seq(Trxs)] /\ Lists BY <1>1 DEF RepositoryKinds
<1>3. IsInjective(s) BY DEF TreesAgree
<1>4. byAddress' = [byAddress EXCEPT ![Pays[u]] = r] BY DEF Without
<1> HIDE DEF s
<1>5. /\ r \in Seq(Trxs) /\ IsInjective(r) /\ u \notin Range(r)
      /\ \A x \in Range(r) : x \in Range(s)
      /\ \A x \in Range(s) : x # u => x \in Range(r)
  BY <1>2, <1>3, RemoveFirstIs
<1>6. \A w \in Range(s) : Pays[w] = Pays[u] BY <1>1, <1>2 DEF Lists, Range, s
<1> HIDE DEF r
<1>9. \A w \in Range(r) : Pays[w] = Pays[u] BY <1>5, <1>6
<1>7. /\ byAddress' \in [0..Group - 1 -> Seq(Trxs)] /\ Lists'
      /\ byAddress'[Pays[u]] = r
      /\ \A w \in Trxs : Pays[w] # Pays[u] => byAddress'[Pays[w]] = byAddress[Pays[w]]
  BY <1>2, <1>4, <1>5, <1>9, ListedElsewhere
<1>8. ASSUME NEW w \in Trxs PROVE IsInjective(byAddress'[Pays[w]]) /\ (Listed(w)' <=> Listed(w) /\ w # u)
  <2>1. CASE Pays[w] = Pays[u] BY <1>5, <1>7, <2>1 DEF Listed, s
  <2>2. CASE Pays[w] # Pays[u]
    <3>1. IsInjective(byAddress[Pays[w]]) BY DEF TreesAgree
    <3> QED BY <1>7, <2>2, <3>1 DEF Listed
  <2> QED BY <2>1, <2>2
<1> QED BY <1>7, <1>8

(* So does one that is put.                                                *)
LEMMA WithIs ==
  ASSUME RepositoryKinds, TreesAgree, NEW u \in Trxs, byAddress' = With(u)
  PROVE  /\ byAddress' \in [0..Group - 1 -> Seq(Trxs)] /\ Lists'
         /\ \A w \in Trxs : IsInjective(byAddress'[Pays[w]])
         /\ \A w \in Trxs : Listed(w)' <=> Listed(w) \/ w = u
<1> DEFINE s == byAddress[Pays[u]]
           r == IF Listed(u) THEN s ELSE Append(s, u)
<1>1. Pays[u] \in 0..Group - 1 BY PaysIs
<1>2. s \in Seq(Trxs) /\ byAddress \in [0..Group - 1 -> Seq(Trxs)] /\ Lists BY <1>1 DEF RepositoryKinds
<1>3. IsInjective(s) BY DEF TreesAgree
<1>4. byAddress' = [byAddress EXCEPT ![Pays[u]] = r] BY DEF With
<1>5. Listed(u) <=> u \in Range(s) BY DEF Listed
<1>6. \A w \in Range(s) : Pays[w] = Pays[u] BY <1>1, <1>2 DEF Lists, Range
<1> HIDE DEF s
<1>7. r \in Seq(Trxs) /\ IsInjective(r) /\ \A x : x \in Range(r) <=> x \in Range(s) \/ x = u
  <2>1. CASE Listed(u) BY <1>2, <1>3, <1>5, <2>1
  <2>2. CASE ~Listed(u)
    <3>1. /\ r \in Seq(Trxs) /\ DOMAIN r = 1..Len(s) + 1 /\ DOMAIN s = 1..Len(s) /\ Len(s) \in Nat
          /\ \A i \in 1..Len(s) : r[i] = s[i]
          /\ r[Len(s) + 1] = u
      BY <1>2, <2>2
    <3> HIDE DEF r
    <3>2. \A x : x \in Range(r) <=> x \in Range(s) \/ x = u BY <3>1 DEF Range
    <3>3. IsInjective(r) BY <1>3, <1>5, <2>2, <3>1 DEF IsInjective, Range
    <3> QED BY <3>1, <3>2, <3>3
  <2> QED BY <2>1, <2>2
<1> HIDE DEF r
<1>8. /\ byAddress' \in [0..Group - 1 -> Seq(Trxs)] /\ Lists'
      /\ byAddress'[Pays[u]] = r
      /\ \A w \in Trxs : Pays[w] # Pays[u] => byAddress'[Pays[w]] = byAddress[Pays[w]]
  BY <1>2, <1>4, <1>6, <1>7, ListedElsewhere
<1>9. ASSUME NEW w \in Trxs PROVE IsInjective(byAddress'[Pays[w]]) /\ (Listed(w)' <=> Listed(w) \/ w = u)
  <2>1. CASE Pays[w] = Pays[u] BY <1>7, <1>8, <2>1 DEF Listed, s
  <2>2. CASE Pays[w] # Pays[u]
    <3>1. IsInjective(byAddress[Pays[w]]) BY DEF TreesAgree
    <3> QED BY <1>8, <2>2, <3>1 DEF Listed
  <2> QED BY <2>1, <2>2
<1> QED BY <1>8, <1>9

-----------------------------------------------------------------------------
(* The steps of an import.                                                 *)

LEMMA InitRepositoryInv == Init => RepositoryInv
<1> SUFFICES ASSUME Init PROVE RepositoryInv OBVIOUS
<1>1. /\ byAddress = [a \in 0..Group - 1 |-> <<>>] /\ byId = [u \in Trxs |-> None] /\ trxs = {}
      /\ job = NoJob /\ damaged = {} /\ completed = {} /\ late = {}
  BY DEF Init, RepositoryInit
<1>2. ~Importing /\ ~job.half BY <1>1 DEF Importing, NoJob
<1>3. RepositoryKinds
  <2>1. byAddress \in [0..Group - 1 -> Seq(Trxs)] /\ Lists BY <1>1 DEF Lists
  <2>2. byId \in [Trxs -> Int] /\ \A u \in Trxs : byId[u] \in {None, Freed, Pays[u]} BY <1>1 DEF None
  <2> QED BY <1>1, <1>2, <2>1, <2>2 DEF RepositoryKinds
<1>4. \A u \in Trxs : byAddress[Pays[u]] = <<>> BY <1>1, PaysIs
<1>5. TreesAgree
  <2> SUFFICES ASSUME NEW u \in Trxs PROVE IsInjective(byAddress[Pays[u]]) /\ ~Listed(u) /\ byId[u] # Pays[u]
    BY DEF TreesAgree
  <2>1. DOMAIN byAddress[Pays[u]] = {} BY <1>4
  <2> QED BY <1>1, <2>1, PaysIs DEF IsInjective, Listed, Range
<1> QED BY <1>1, <1>2, <1>3, <1>5 DEF RepositoryInv, HalfMeans, ReferredGone, LateKnown, OutputKept, SpentStaysSpent

(* An import that ends, by a return or a throw.                            *)
LEMMA ImportEnds ==
  ASSUME RepositoryInv, job' = NoJob, byAddress' = byAddress,
         trxs' \subseteq Trxs, completed' \subseteq Trxs, late' = late, damaged \subseteq damaged', damaged' \subseteq Trxs,
         byId' \in [Trxs -> Int], \A u \in Trxs : byId'[u] \in {None, Freed, Pays[u]},
         \A u \in Trxs : u \notin damaged' => byId'[u] = byId[u] /\ ~InHand(u),
         SpentStaysSpent'
  PROVE  RepositoryInv'
<1>1. ~Importing' /\ ~job'.half BY DEF Importing, NoJob
<1>2. RepositoryKinds' BY <1>1 DEF RepositoryInv, RepositoryKinds, Lists
<1>3. TreesAgree' BY <1>1 DEF RepositoryInv, TreesAgree, InHand, Listed
<1> QED BY <1>1, <1>2, <1>3 DEF RepositoryInv, HalfMeans, ReferredGone, LateKnown, OutputKept

LEMMA ImportThrows ==
  ASSUME RepositoryInv, JobThrows, byAddress' = byAddress, byId' = byId, damaged' = damaged, ~job.half
  PROVE  RepositoryInv'
<1>1. job' = NoJob /\ trxs' = trxs /\ completed' = completed /\ late' = late BY DEF JobThrows
<1>2. SpentStaysSpent' BY <1>1 DEF RepositoryInv, SpentStaysSpent, Listed
<1> QED BY <1>1, <1>2, ImportEnds DEF RepositoryInv, RepositoryKinds, InHand

(* An import that goes on to its next item, or to the second half of one.  *)
LEMMA NextItemIs ==
  ASSUME RepositoryInv, Importing, NEW b \in BOOLEAN, NextItem(b)
  PROVE  /\ job' \in Jobs /\ Importing' /\ Refs' = Refs /\ job'.trx = job.trx
         /\ job'.at = job.at + 1 /\ job'.half = FALSE /\ job'.imported = (job.imported \/ b)
<1>1. job \in Jobs /\ job.trx \in Trxs /\ job.at + 1 \in Nat \ {0} BY JobIs DEF RepositoryInv
<1>2. job' = [trx |-> job.trx, at |-> job.at + 1, half |-> FALSE, imported |-> job.imported \/ b]
  BY <1>1 DEF NextItem, Jobs
<1>3. job' \in Jobs BY <1>1, <1>2 DEF Jobs
<1>4. job'.at # NoJob.at BY <1>1, <1>2 DEF NoJob
<1> QED BY <1>2, <1>3, <1>4 DEF Importing, Refs

LEMMA HalfDoneIs ==
  ASSUME RepositoryInv, Importing, HalfDone
  PROVE  /\ job' \in Jobs /\ Importing' /\ Refs' = Refs /\ job'.trx = job.trx
         /\ job'.at = job.at /\ job'.half = TRUE
<1>1. job \in Jobs /\ job.trx \in Trxs /\ job.at \in Nat \ {0} BY JobIs DEF RepositoryInv
<1>2. job' = [trx |-> job.trx, at |-> job.at, half |-> TRUE, imported |-> job.imported]
  BY <1>1 DEF HalfDone, Jobs
<1>3. job' \in Jobs BY <1>1, <1>2 DEF Jobs
<1>4. job'.at # NoJob.at BY <1>1, <1>2 DEF NoJob
<1> QED BY <1>2, <1>3, <1>4 DEF Importing, Refs

LEMMA BeginImportStep ==
  ASSUME RepositoryInv, NEW t \in Trxs, BeginImport(t), call' = call
  PROVE  RepositoryInv'
<1>1. /\ call = Idle /\ ~Importing /\ job' = [trx |-> t, at |-> 1, half |-> FALSE, imported |-> FALSE]
      /\ byAddress' = byAddress /\ byId' = byId /\ trxs' = trxs /\ damaged' = damaged /\ completed' = completed
      /\ late' = IF \E s \in completed : t \in Range(Spends[s]) THEN late \cup {t} ELSE late
  BY DEF BeginImport
<1>2. RepositoryKinds /\ TreesAgree /\ SpentStaysSpent /\ ~job.half BY <1>1 DEF RepositoryInv, Importing, NoJob
<1>3. Refs' = Spends[t] /\ Len(Spends[t]) \in Nat BY <1>1, RepositoryAssumption DEF Refs
<1>4. job' \in Jobs BY <1>1 DEF Jobs
<1>5. late \subseteq late' /\ late' \subseteq Trxs BY <1>1, <1>2 DEF RepositoryKinds
<1>6. RepositoryKinds' BY <1>1, <1>2, <1>3, <1>4, <1>5 DEF RepositoryKinds, Lists
<1>7. TreesAgree' BY <1>1, <1>2 DEF TreesAgree, InHand, Listed
<1>8. DOMAIN Refs' = 1..Len(Refs') BY <1>3, RepositoryAssumption
<1>9. HalfMeans' /\ ReferredGone' /\ OutputKept' BY <1>1, <1>3, <1>8 DEF HalfMeans, ReferredGone, Processed, OutputKept
<1>10. LateKnown' BY <1>1 DEF LateKnown
<1>11. SpentStaysSpent' BY <1>1, <1>2, <1>5 DEF SpentStaysSpent, Listed
<1> QED BY <1>6, <1>7, <1>9, <1>10, <1>11 DEF RepositoryInv

LEMMA SpendCoinStep ==
  ASSUME RepositoryInv, SpendCoin, call' = call, store' = store
  PROVE  RepositoryInv'
<1> DEFINE u == Refs[job.at]
           strict == job.trx \in Strict
<1>1. Importing /\ job.at <= Len(Refs) /\ ~job.half /\ byId' = byId /\ damaged' = damaged BY DEF SpendCoin
<1>2. RepositoryKinds /\ TreesAgree BY DEF RepositoryInv
<1>3. /\ job.trx \in Trxs /\ job.at \in Nat \ {0} /\ Len(Refs) \in Nat /\ DOMAIN Refs = 1..Len(Refs)
      /\ u \in Trxs /\ job.at \in DOMAIN Refs
  BY <1>1, <1>2, JobIs
<1>4. CASE JobThrows /\ byAddress' = byAddress BY <1>1, <1>4, ImportThrows
<1>5. CASE /\ "missing" \in Lookups(u, strict) /\ NextItem(FALSE)
           /\ byAddress' = byAddress /\ trxs' = trxs /\ completed' = completed /\ late' = late
  <2>2. /\ job' \in Jobs /\ Importing' /\ Refs' = Refs /\ job'.trx = job.trx
        /\ job'.at = job.at + 1 /\ job'.half = FALSE
    BY <1>1, <1>5, NextItemIs
  <2>3. Listed(u) => u \in damaged
    <3>1. ~Listed(u) \/ byId[u] = None BY <1>5 DEF Lookups, AtAddress
    <3>2. ~InHand(u) BY <1>1 DEF InHand
    <3> QED BY <1>2, <1>3, <3>1, <3>2, PaysIs DEF TreesAgree
  <2> HIDE DEF u
  <2>4. RepositoryKinds' BY <1>1, <1>2, <1>3, <1>5, <2>2 DEF RepositoryKinds, Lists
  <2>5. TreesAgree' BY <1>1, <1>2, <1>5, <2>2 DEF TreesAgree, InHand, Listed
  <2>6. HalfMeans' BY <2>2 DEF HalfMeans
  <2>7. ReferredGone'
    <3> SUFFICES ASSUME NEW i \in DOMAIN Refs, i < job.at + 1, Listed(Refs[i])
                 PROVE  Refs[i] \in late \cup damaged
      BY <1>1, <1>5, <2>2 DEF ReferredGone, Processed, Listed
    <3>1. CASE i < job.at BY <1>1, <3>1 DEF RepositoryInv, ReferredGone, Processed
    <3>2. CASE i = job.at BY <2>3, <3>2 DEF u
    <3> QED BY <1>3, <3>1, <3>2
  <2>8. LateKnown' BY <1>1, <1>5, <2>2 DEF RepositoryInv, LateKnown
  <2>9. OutputKept' BY <1>1, <1>3, <2>2 DEF OutputKept
  <2>10. SpentStaysSpent' BY <1>1, <1>5 DEF RepositoryInv, SpentStaysSpent, Listed
  <2> QED BY <2>4, <2>5, <2>6, <2>7, <2>8, <2>9, <2>10 DEF RepositoryInv
<1>6. CASE byAddress' = Without(u) /\ HalfDone /\ trxs' = trxs /\ completed' = completed /\ late' = late
  <2>2. /\ job' \in Jobs /\ Importing' /\ Refs' = Refs /\ job'.trx = job.trx
        /\ job'.at = job.at /\ job'.half = TRUE
    BY <1>1, <1>6, HalfDoneIs
  <2>3. /\ byAddress' \in [0..Group - 1 -> Seq(Trxs)] /\ Lists'
        /\ \A w \in Trxs : IsInjective(byAddress'[Pays[w]])
        /\ \A w \in Trxs : Listed(w)' <=> Listed(w) /\ w # u
    BY <1>2, <1>3, <1>6, WithoutIs
  <2> HIDE DEF u
  <2>4. RepositoryKinds' BY <1>1, <1>2, <1>6, <2>2, <2>3 DEF RepositoryKinds
  <2>5. TreesAgree'
    <3> SUFFICES ASSUME NEW w \in Trxs, w \notin damaged, ~InHand(w)'
                 PROVE  Listed(w)' <=> byId[w] = Pays[w]
      BY <1>1, <2>3 DEF TreesAgree
    <3>1. w # u BY <1>1, <2>2 DEF InHand, u
    <3>2. ~InHand(w) BY <1>1 DEF InHand
    <3> QED BY <1>2, <2>3, <3>1, <3>2 DEF TreesAgree
  <2>6. HalfMeans' BY <1>1, <1>3, <2>2, <2>3 DEF HalfMeans, u, Listed
  <2>7. ReferredGone'
    <3> SUFFICES ASSUME NEW i \in DOMAIN Refs, i <= job.at, Listed(Refs[i])'
                 PROVE  Refs[i] \in late \cup damaged
      BY <1>1, <1>3, <1>6, <2>2 DEF ReferredGone, Processed, Listed
    <3>1. Refs[i] \in Trxs BY <1>1, <1>2, JobIs
    <3>2. Refs[i] # u /\ Listed(Refs[i]) BY <2>2, <2>3, <3>1 DEF Listed
    <3>3. i < job.at BY <1>3, <3>2 DEF u
    <3> QED BY <1>1, <3>2, <3>3 DEF RepositoryInv, ReferredGone, Processed
  <2>8. LateKnown' BY <1>1, <1>6, <2>2 DEF RepositoryInv, LateKnown
  <2>9. OutputKept' BY <1>1, <1>3, <2>2 DEF OutputKept
  <2>10. SpentStaysSpent'
    <3> SUFFICES ASSUME NEW s \in completed, NEW w \in Range(Spends[s]), Listed(w)' PROVE w \in late \cup damaged
      BY <1>1, <1>6 DEF SpentStaysSpent, Listed
    <3>1. w \in Trxs BY <1>2, RepositoryAssumption DEF RepositoryKinds, Range
    <3> QED BY <2>3, <3>1 DEF RepositoryInv, SpentStaysSpent
  <2> QED BY <2>4, <2>5, <2>6, <2>7, <2>8, <2>9, <2>10 DEF RepositoryInv
<1> QED BY <1>1, <1>4, <1>5, <1>6 DEF SpendCoin

LEMMA ForgetCoinStep ==
  ASSUME RepositoryInv, ForgetCoin, call' = call, store' = store
  PROVE  RepositoryInv'
<1> DEFINE u == Refs[job.at]
<1>1. Importing /\ job.at <= Len(Refs) /\ job.half /\ byAddress' = byAddress BY DEF ForgetCoin
<1>2. RepositoryKinds /\ TreesAgree /\ HalfMeans BY DEF RepositoryInv
<1>3. /\ job.trx \in Trxs /\ job.at \in Nat \ {0} /\ Len(Refs) \in Nat /\ DOMAIN Refs = 1..Len(Refs)
      /\ u \in Trxs /\ job.at \in DOMAIN Refs
  BY <1>1, <1>2, JobIs
<1>4. \A w : InHand(w) <=> w = u BY <1>1 DEF InHand
<1>5. ~Listed(u) BY <1>1, <1>2 DEF HalfMeans
<1> HIDE DEF u
<1>6. CASE damaged' = damaged \cup {u} /\ JobThrows /\ byId' = byId
  <2>1. job' = NoJob /\ trxs' = trxs /\ completed' = completed /\ late' = late BY <1>6 DEF JobThrows
  <2>2. SpentStaysSpent' BY <1>1, <1>6, <2>1 DEF RepositoryInv, SpentStaysSpent, Listed
  <2>3. \A w \in Trxs : w \notin damaged' => byId'[w] = byId[w] /\ ~InHand(w) BY <1>4, <1>6
  <2> QED BY <1>1, <1>2, <1>3, <1>6, <2>1, <2>2, <2>3, ImportEnds DEF RepositoryKinds
<1>7. CASE /\ byId' = [byId EXCEPT ![u] = None] /\ NextItem(TRUE)
           /\ damaged' = damaged /\ trxs' = trxs /\ completed' = completed /\ late' = late
  <2>1. /\ job' \in Jobs /\ Importing' /\ Refs' = Refs /\ job'.trx = job.trx
        /\ job'.at = job.at + 1 /\ job'.half = FALSE
    BY <1>1, <1>7, NextItemIs
  <2>2. byId' \in [Trxs -> Int] /\ \A w \in Trxs : byId'[w] \in {None, Freed, Pays[w]}
    BY <1>2, <1>3, <1>7 DEF RepositoryKinds, None
  <2>3. RepositoryKinds' BY <1>1, <1>2, <1>3, <1>7, <2>1, <2>2 DEF RepositoryKinds, Lists
  <2>4. TreesAgree'
    <3> SUFFICES ASSUME NEW w \in Trxs
                 PROVE  /\ IsInjective(byAddress[Pays[w]])
                        /\ w \notin damaged => (Listed(w) <=> byId'[w] = Pays[w])
      BY <1>1, <1>7 DEF TreesAgree, Listed
    <3>1. CASE w = u
      <4>1. byId'[w] # Pays[w] BY <1>2, <1>3, <1>7, <3>1, PaysIs DEF RepositoryKinds
      <4> QED BY <1>2, <1>5, <3>1, <4>1 DEF TreesAgree
    <3>2. CASE w # u
      <4>1. byId'[w] = byId[w] BY <1>2, <1>7, <3>2 DEF RepositoryKinds
      <4> QED BY <1>2, <1>4, <3>2, <4>1 DEF TreesAgree
    <3> QED BY <3>1, <3>2
  <2>5. HalfMeans' BY <2>1 DEF HalfMeans
  <2>6. ReferredGone'
    <3> SUFFICES ASSUME NEW i \in DOMAIN Refs, i < job.at + 1, Listed(Refs[i])
                 PROVE  Refs[i] \in late \cup damaged
      BY <1>1, <1>7, <2>1 DEF ReferredGone, Processed, Listed
    <3>1. i < job.at \/ i = job.at BY <1>3
    <3> QED BY <1>1, <3>1 DEF RepositoryInv, ReferredGone, Processed
  <2>7. LateKnown' BY <1>1, <1>7, <2>1 DEF RepositoryInv, LateKnown
  <2>8. OutputKept' BY <1>1, <1>3, <2>1 DEF OutputKept
  <2>9. SpentStaysSpent' BY <1>1, <1>7 DEF RepositoryInv, SpentStaysSpent, Listed
  <2> QED BY <2>3, <2>4, <2>5, <2>6, <2>7, <2>8, <2>9 DEF RepositoryInv
<1> QED BY <1>1, <1>6, <1>7 DEF ForgetCoin, u

LEMMA AddCoinStep ==
  ASSUME RepositoryInv, AddCoin, call' = call, store' = store
  PROVE  RepositoryInv'
<1> DEFINE u == job.trx
<1>1. Importing /\ job.at = Len(Refs) + 1 /\ ~job.half /\ byId' = byId /\ damaged' = damaged BY DEF AddCoin
<1>2. RepositoryKinds /\ TreesAgree BY DEF RepositoryInv
<1>3. /\ u \in Trxs /\ Len(Refs) \in Nat /\ DOMAIN Refs = 1..Len(Refs) /\ Refs \in Seq(Trxs) /\ u \notin Range(Refs)
  BY <1>1, <1>2, JobIs
<1>4. \A w : ~InHand(w) BY <1>1 DEF InHand
<1>5. \A i \in DOMAIN Refs : Refs[i] \in Trxs /\ Refs[i] # u /\ Processed(i) /\ i < job.at + 1
  BY <1>1, <1>3 DEF Processed, Range
<1>6. CASE JobThrows /\ byAddress' = byAddress BY <1>1, <1>6, ImportThrows
<1>7. CASE /\ Pays[u] \notin Range(store.list) /\ NextItem(FALSE)
           /\ byAddress' = byAddress /\ trxs' = trxs /\ completed' = completed /\ late' = late
  <2>1. /\ job' \in Jobs /\ Importing' /\ Refs' = Refs /\ job'.trx = job.trx
        /\ job'.at = job.at + 1 /\ job'.half = FALSE
    BY <1>1, <1>7, NextItemIs
  <2>2. RepositoryKinds' BY <1>1, <1>2, <1>3, <1>7, <2>1 DEF RepositoryKinds, Lists
  <2>3. TreesAgree' BY <1>1, <1>2, <1>4, <1>7 DEF TreesAgree, Listed
  <2>4. HalfMeans' BY <2>1 DEF HalfMeans
  <2>5. ReferredGone' BY <1>1, <1>5, <1>7, <2>1 DEF RepositoryInv, ReferredGone, Listed
  <2>6. LateKnown' BY <1>1, <1>7, <2>1 DEF RepositoryInv, LateKnown
  <2>7. OutputKept' BY <1>7, <2>1 DEF OutputKept
  <2>8. SpentStaysSpent' BY <1>1, <1>7 DEF RepositoryInv, SpentStaysSpent, Listed
  <2> QED BY <2>2, <2>3, <2>4, <2>5, <2>6, <2>7, <2>8 DEF RepositoryInv
<1>8. CASE byAddress' = With(u) /\ HalfDone /\ trxs' = trxs /\ completed' = completed /\ late' = late
  <2>1. /\ job' \in Jobs /\ Importing' /\ Refs' = Refs /\ job'.trx = job.trx
        /\ job'.at = job.at /\ job'.half = TRUE
    BY <1>1, <1>8, HalfDoneIs
  <2>2. /\ byAddress' \in [0..Group - 1 -> Seq(Trxs)] /\ Lists'
        /\ \A w \in Trxs : IsInjective(byAddress'[Pays[w]])
        /\ \A w \in Trxs : Listed(w)' <=> Listed(w) \/ w = u
    BY <1>2, <1>3, <1>8, WithIs
  <2> HIDE DEF u
  <2>3. RepositoryKinds' BY <1>1, <1>2, <1>8, <2>1, <2>2 DEF RepositoryKinds
  <2>4. TreesAgree'
    <3> SUFFICES ASSUME NEW w \in Trxs, w \notin damaged, ~InHand(w)'
                 PROVE  Listed(w)' <=> byId[w] = Pays[w]
      BY <1>1, <2>2 DEF TreesAgree
    <3>1. w # u BY <1>1, <1>3, <2>1 DEF InHand, u
    <3> QED BY <1>2, <1>4, <2>2, <3>1 DEF TreesAgree
  <2>5. HalfMeans'
    <3>1. Listed(job.trx)' BY <1>3, <2>1, <2>2 DEF Listed, u
    <3> QED BY <1>1, <1>3, <2>1, <3>1 DEF HalfMeans
  <2>6. ReferredGone'
    <3> SUFFICES ASSUME NEW i \in DOMAIN Refs, Listed(Refs[i])'
                 PROVE  Refs[i] \in late \cup damaged
      BY <1>1, <1>8, <2>1 DEF ReferredGone
    <3>1. Listed(Refs[i]) BY <1>5, <2>1, <2>2 DEF Listed
    <3> QED BY <1>1, <1>5, <3>1 DEF RepositoryInv, ReferredGone
  <2>7. LateKnown' BY <1>1, <1>8, <2>1 DEF RepositoryInv, LateKnown
  <2>8. OutputKept' BY <1>1, <1>3, <2>1 DEF OutputKept
  <2>9. SpentStaysSpent'
    <3> SUFFICES ASSUME NEW s \in completed, NEW w \in Range(Spends[s]), Listed(w)' PROVE w \in late \cup damaged
      BY <1>1, <1>8 DEF SpentStaysSpent, Listed
    <3>1. w \in Trxs BY <1>2, RepositoryAssumption DEF RepositoryKinds, Range
    <3>2. CASE w = u BY <1>1, <3>2 DEF RepositoryInv, LateKnown, u
    <3>3. CASE w # u BY <2>2, <3>1, <3>3 DEF RepositoryInv, SpentStaysSpent
    <3> QED BY <3>2, <3>3
  <2> QED BY <2>3, <2>4, <2>5, <2>6, <2>7, <2>8, <2>9 DEF RepositoryInv
<1> QED BY <1>1, <1>6, <1>7, <1>8 DEF AddCoin

LEMMA IndexCoinStep ==
  ASSUME RepositoryInv, IndexCoin, call' = call, store' = store
  PROVE  RepositoryInv'
<1> DEFINE u == job.trx
<1>1. Importing /\ job.at = Len(Refs) + 1 /\ job.half /\ byAddress' = byAddress BY DEF IndexCoin
<1>2. RepositoryKinds /\ TreesAgree /\ HalfMeans BY DEF RepositoryInv
<1>3. /\ u \in Trxs /\ Len(Refs) \in Nat /\ DOMAIN Refs = 1..Len(Refs) /\ Refs \in Seq(Trxs) /\ u \notin Range(Refs)
  BY <1>1, <1>2, JobIs
<1>4. Listed(u) BY <1>1, <1>2, <1>3 DEF HalfMeans
<1>5. \A w : InHand(w) <=> w = u BY <1>1, <1>3 DEF InHand
<1>6. \A i \in DOMAIN Refs : Refs[i] \in Trxs /\ Refs[i] # u /\ Processed(i) BY <1>1, <1>3 DEF Processed, Range
<1>7. CASE damaged' = damaged \cup {u} /\ JobThrows /\ byId' = [byId EXCEPT ![u] = IF @ = None THEN None ELSE Freed]
  <2>1. job' = NoJob /\ trxs' = trxs /\ completed' = completed /\ late' = late BY <1>7 DEF JobThrows
  <2> HIDE DEF u
  <2>2. SpentStaysSpent' BY <1>1, <1>7, <2>1 DEF RepositoryInv, SpentStaysSpent, Listed
  <2>3. byId' \in [Trxs -> Int] /\ \A w \in Trxs : byId'[w] \in {None, Freed, Pays[w]}
    BY <1>2, <1>3, <1>7 DEF RepositoryKinds, None, Freed
  <2>4. \A w \in Trxs : w \notin damaged' => byId'[w] = byId[w] /\ ~InHand(w)
    BY <1>2, <1>5, <1>7 DEF RepositoryKinds
  <2> QED BY <1>1, <1>2, <1>3, <1>7, <2>1, <2>2, <2>3, <2>4, ImportEnds DEF RepositoryKinds
<1>8. CASE /\ byId' = [byId EXCEPT ![u] = Pays[u]] /\ damaged' = damaged \ {u} /\ NextItem(TRUE)
           /\ trxs' = trxs /\ completed' = completed /\ late' = late
  <2>1. /\ job' \in Jobs /\ Importing' /\ Refs' = Refs /\ job'.trx = job.trx
        /\ job'.at = job.at + 1 /\ job'.half = FALSE /\ job'.imported
    BY <1>1, <1>8, NextItemIs
  <2>2. OutputKept' BY <1>2, <1>3, <1>4, <1>1, <1>8, <2>1 DEF OutputKept, Listed, RepositoryKinds
  <2> HIDE DEF u
  <2>3. byId' \in [Trxs -> Int] /\ \A w \in Trxs : byId'[w] \in {None, Freed, Pays[w]}
    BY <1>2, <1>3, <1>8, PaysIs DEF RepositoryKinds
  <2>4. RepositoryKinds' BY <1>1, <1>2, <1>3, <1>8, <2>1, <2>3 DEF RepositoryKinds, Lists
  <2>5. TreesAgree'
    <3> SUFFICES ASSUME NEW w \in Trxs
                 PROVE  /\ IsInjective(byAddress[Pays[w]])
                        /\ w \notin damaged' => (Listed(w) <=> byId'[w] = Pays[w])
      BY <1>1 DEF TreesAgree, Listed
    <3>1. CASE w = u
      <4>1. byId'[w] = Pays[w] BY <1>2, <1>3, <1>8, <3>1 DEF RepositoryKinds
      <4> QED BY <1>2, <1>3, <1>4, <3>1, <4>1 DEF TreesAgree
    <3>2. CASE w # u
      <4>1. byId'[w] = byId[w] BY <1>2, <1>8, <3>2 DEF RepositoryKinds
      <4> QED BY <1>2, <1>5, <1>8, <3>2, <4>1 DEF TreesAgree
    <3> QED BY <3>1, <3>2
  <2>6. HalfMeans' BY <2>1 DEF HalfMeans
  <2>7. ReferredGone' BY <1>1, <1>6, <1>8, <2>1 DEF RepositoryInv, ReferredGone, Listed
  <2>8. LateKnown' BY <1>1, <1>8, <2>1 DEF RepositoryInv, LateKnown
  <2>9. SpentStaysSpent'
    <3> SUFFICES ASSUME NEW s \in completed, NEW w \in Range(Spends[s]), Listed(w) PROVE w \in late \cup damaged'
      BY <1>1, <1>8 DEF SpentStaysSpent, Listed
    <3>1. CASE w = u BY <1>1, <3>1 DEF RepositoryInv, LateKnown, u
    <3>2. CASE w # u BY <1>8, <3>2 DEF RepositoryInv, SpentStaysSpent
    <3> QED BY <3>1, <3>2
  <2> QED BY <2>2, <2>4, <2>5, <2>6, <2>7, <2>8, <2>9 DEF RepositoryInv
<1> QED BY <1>1, <1>7, <1>8 DEF IndexCoin

LEMMA StoreTransactionStep ==
  ASSUME RepositoryInv, StoreTransaction
  PROVE  RepositoryInv'
<1>1. /\ Importing /\ job.at = Len(Refs) + 2 /\ byAddress' = byAddress /\ byId' = byId /\ damaged' = damaged
  BY DEF StoreTransaction
<1>2. /\ job.trx \in Trxs /\ Len(Refs) \in Nat /\ DOMAIN Refs = 1..Len(Refs)
      /\ job.half => job.at <= Len(Refs) + 1
  BY <1>1, JobIs DEF RepositoryInv, HalfMeans
<1>3. ~job.half BY <1>1, <1>2
<1>4. CASE JobThrows BY <1>1, <1>3, <1>4, ImportThrows
<1>5. CASE /\ trxs' = IF job.imported THEN trxs \cup {job.trx} ELSE trxs
           /\ completed' = completed \cup {job.trx} /\ job' = NoJob /\ late' = late
  <2>1. SpentStaysSpent'
    <3> SUFFICES ASSUME NEW s \in completed \cup {job.trx}, NEW w \in Range(Spends[s]), Listed(w)
                 PROVE  w \in late \cup damaged
      BY <1>1, <1>5 DEF SpentStaysSpent, Listed
    <3>1. CASE s \in completed BY <3>1 DEF RepositoryInv, SpentStaysSpent
    <3>2. CASE s = job.trx
      <4>1. PICK i \in DOMAIN Refs : w = Refs[i] BY <3>2 DEF Refs, Range
      <4>2. i < job.at BY <1>1, <1>2
      <4> QED BY <1>1, <4>1, <4>2 DEF RepositoryInv, ReferredGone, Processed
    <3> QED BY <3>1, <3>2
  <2>2. trxs' \subseteq Trxs /\ completed' \subseteq Trxs
    BY <1>2, <1>5 DEF RepositoryInv, RepositoryKinds
  <2> QED BY <1>1, <1>3, <1>5, <2>1, <2>2, ImportEnds DEF RepositoryInv, RepositoryKinds, InHand
<1> QED BY <1>4, <1>5 DEF StoreTransaction

LEMMA RemoveTransactionStep ==
  ASSUME RepositoryInv, NEW t \in Trxs, RemoveTransaction(t)
  PROVE  RepositoryInv'
<1>1. /\ ~Importing /\ trxs' = trxs \ {t} /\ byAddress' = byAddress /\ byId' = byId /\ job' = job
      /\ damaged' = damaged /\ completed' = completed /\ late' = late
  BY DEF RemoveTransaction
<1>2. job' = NoJob /\ ~job.half BY <1>1 DEF Importing, NoJob
<1>3. SpentStaysSpent' BY <1>1 DEF RepositoryInv, SpentStaysSpent, Listed
<1> QED BY <1>1, <1>2, <1>3, ImportEnds DEF RepositoryInv, RepositoryKinds, InHand

(* The addresses stand still while an import runs, and no other step of    *)
(* theirs concerns the coins.                                              *)
LEMMA AddressesMove ==
  ASSUME RepositoryInv, ~Importing, UNCHANGED repositoryVars
  PROVE  RepositoryInv'
<1>1. job = NoJob /\ job' = job /\ byAddress' = byAddress /\ byId' = byId /\ trxs' = trxs /\ damaged' = damaged
      /\ completed' = completed /\ late' = late
  BY DEF Importing, repositoryVars
<1>2. SpentStaysSpent' BY <1>1 DEF RepositoryInv, SpentStaysSpent, Listed
<1>3. ~job.half BY <1>1 DEF NoJob
<1> QED BY <1>1, <1>2, <1>3, ImportEnds DEF RepositoryInv, RepositoryKinds, InHand

LEMMA NextRepositoryInv == RepositoryInv /\ [Next]_vars => RepositoryInv'
<1> SUFFICES ASSUME RepositoryInv, [Next]_vars PROVE RepositoryInv' OBVIOUS
<1>1. CASE ~Importing /\ UNCHANGED repositoryVars BY <1>1, AddressesMove
<1>2. CASE Untouched /\ UNCHANGED repositoryVars BY <1>2, AddressesMove DEF Untouched, Importing
<1>3. CASE (RepositoryNext \/ \E t \in Trxs : ImportTransaction(t)) /\ UNCHANGED addressVars
  <2>1. call' = call /\ store' = store BY <1>3 DEF addressVars
  <2>2. CASE RepositoryNext
    BY <2>1, <2>2, RemoveTransactionStep, SpendCoinStep, ForgetCoinStep, AddCoinStep, IndexCoinStep,
       StoreTransactionStep DEF RepositoryNext
  <2>3. CASE \E t \in Trxs : ImportTransaction(t)
    BY <2>1, <2>3, BeginImportStep DEF ImportTransaction
  <2> QED BY <1>3, <2>2, <2>3
<1>4. CASE UNCHANGED vars
  BY <1>4 DEF vars, addressVars, repositoryVars, RepositoryInv, RepositoryKinds, Lists, HalfMeans, TreesAgree,
              ReferredGone, LateKnown, OutputKept, SpentStaysSpent, Importing, Refs, Processed, Listed, InHand
<1> QED BY <1>1, <1>2, <1>3, <1>4 DEF Next

-----------------------------------------------------------------------------
(* The scenario and the bounds.                                            *)

Bounds ==
  /\ scenario \in [shorts : BOOLEAN, binaries : BOOLEAN, utxos : BOOLEAN, imports : BOOLEAN]
  /\ crashes \in 0..MaxCrashes /\ failures \in 0..MaxFailures

LEMMA InitBounds == Init => Bounds
BY AddressesAssumption DEF Init, AddressInit, Bounds

LEMMA NextBounds == Bounds /\ [Next]_vars => Bounds'
<1> SUFFICES ASSUME Bounds, [Next]_vars PROVE Bounds' OBVIOUS
<1>1. scenario' = scenario BY DEF Next, vars, addressVars
<1>2. failures' = failures \/ (failures < MaxFailures /\ failures' = failures + 1)
  <2>1. CASE AddressNext
    BY <2>1 DEF AddressNext, GetNextChangeAddress, SaveValue, BeginLoad, LoadValue, EndLoad, WriteFails
  <2>2. CASE RepositoryNext
    BY <2>2 DEF RepositoryNext, RemoveTransaction, SpendCoin, ForgetCoin, AddCoin, IndexCoin,
                StoreTransaction, WriteFailed
  <2>3. ASSUME NEW t \in Trxs, ImportTransaction(t) PROVE failures' = failures
    BY <2>3 DEF ImportTransaction, BeginImport
  <2> QED BY <2>1, <2>2, <2>3 DEF Next, Crash, vars
<1>3. crashes' = crashes \/ (crashes < MaxCrashes /\ crashes' = crashes + 1)
  <2>1. CASE AddressNext
    BY <2>1 DEF AddressNext, GetNextChangeAddress, SaveValue, BeginLoad, LoadValue, EndLoad, SaveThrows, Threw
  <2> QED BY <2>1 DEF Next, Crash, vars, addressVars
<1> QED BY <1>1, <1>2, <1>3, AddressesAssumption DEF Bounds

LEMMA AddressTypesHold == AddressInv /\ Bounds => AddressTypes
<1> SUFFICES ASSUME AddressInv, Bounds PROVE AddressTypes OBVIOUS
<1>1. AddressKinds BY DEF AddressInv
<1>2. \A m \in {file, map, loaded} : DOMAIN m \subseteq AllKeys /\ Range(m) \subseteq 0..Group
  <2> SUFFICES ASSUME NEW m, MapInv(m) PROVE DOMAIN m \subseteq AllKeys /\ Range(m) \subseteq 0..Group
    BY <1>1 DEF AddressKinds
  <2> QED BY DEF MapInv, Range
<1>3. call.kind \in {"down", "idle", "save", "next", "load"} /\ call.at \in 1..Len(Keys) + 1
  <2>1. Len(Keys) + 1 = 6 BY KeysAre
  <2> QED BY <1>1, <2>1 DEF AddressKinds, Down, Idle
<1>4. StoreOK(store) BY <1>1 DEF AddressKinds, StoreInv
<1>5. handed \subseteq 0..Group - 1 /\ unsaved \subseteq 0..Group - 1 BY <1>1 DEF AddressKinds
<1> QED BY <1>2, <1>3, <1>4, <1>5 DEF AddressTypes, Bounds

LEMMA RepositoryTypesHold == RepositoryInv => RepositoryTypes
<1> SUFFICES ASSUME RepositoryInv PROVE RepositoryTypes OBVIOUS
<1>1. RepositoryKinds BY DEF RepositoryInv
<1>2. DOMAIN byAddress = 0..Group - 1 BY <1>1 DEF RepositoryKinds
<1>3. Importing => job.trx \in Trxs /\ job.at \in 1..Len(Refs) + 2
  <2> SUFFICES ASSUME Importing PROVE job.trx \in Trxs /\ job.at \in 1..Len(Refs) + 2 OBVIOUS
  <2> QED BY <1>1, JobIs DEF RepositoryKinds
<1> QED BY <1>1, <1>2, <1>3 DEF RepositoryKinds, RepositoryTypes, Lists

-----------------------------------------------------------------------------
(* Whatever the group, the transactions and what they refer to, through    *)
(* any number of imports that fail between any two of their writes: what   *)
(* an import has done so far is what RepositoryInv says.                   *)
THEOREM ImportsInStep == Spec => []RepositoryInv
<1>1. Init => RepositoryInv BY InitRepositoryInv
<1>2. RepositoryInv /\ [Next]_vars => RepositoryInv' BY NextRepositoryInv
<1> QED BY <1>1, <1>2, PTL DEF Spec

(* The state has its types, and a coin is in both of the account's trees   *)
(* or in none, and once, unless a write failed between the two.            *)
THEOREM AccountIsConsistent == Spec => []AccountConsistent
<1>1. Init => Bounds BY InitBounds
<1>2. Bounds /\ [Next]_vars => Bounds' BY NextBounds
<1>3. AddressInv /\ Bounds /\ RepositoryInv => AccountConsistent
  BY AddressTypesHold, RepositoryTypesHold DEF AccountConsistent, TypeOK, RepositoryInv
<1> QED BY <1>1, <1>2, <1>3, AddressesInStep, ImportsInStep, PTL DEF Spec

(* A coin that an imported transaction spends is not offered again, unless *)
(* its own import began after that or a write of it failed half way.       *)
THEOREM SpentCoinsStaySpent == Spec => []SpentStaysSpent
<1>1. RepositoryInv => SpentStaysSpent BY DEF RepositoryInv
<1> QED BY <1>1, ImportsInStep, PTL

(* An import a handler makes and that returns has stored what pays to an   *)
(* address that was handed out and saved, in both trees and with its       *)
(* transaction.  WalletAccount.importTransaction, as the code stands,      *)
(* makes the handler and never calls it, so that none begins there.        *)
THEOREM PaymentsAreFound == Spec => PaymentsFound
<1> DEFINE Found == \A t \in completed' \ completed :
                      Pays[t] \in handed \ unsaved => t \in trxs' /\ Listed(t)' /\ byId'[t] = Pays[t]
<1>1. RepositoryInv /\ AddressesRecovered /\ [Next]_vars => [Found]_vars
  <2> SUFFICES ASSUME RepositoryInv, AddressesRecovered, [Next]_vars,
                      NEW t \in completed' \ completed, Pays[t] \in handed \ unsaved
               PROVE  t \in trxs' /\ Listed(t)' /\ byId'[t] = Pays[t]
    OBVIOUS
  <2>1. StoreTransaction /\ t = job.trx
    <3>1. completed' # completed OBVIOUS
    <3>2. RepositoryNext
      <4>1. ASSUME NEW u \in Trxs, ImportTransaction(u) PROVE FALSE
        BY <3>1, <4>1 DEF ImportTransaction, BeginImport
      <4> QED BY <3>1, <4>1 DEF Next, vars, repositoryVars
    <3>3. StoreTransaction
      BY <3>1, <3>2 DEF RepositoryNext, RemoveTransaction, SpendCoin, ForgetCoin, AddCoin, IndexCoin, JobThrows
    <3>4. completed' = completed \cup {job.trx} BY <3>1, <3>3 DEF StoreTransaction, JobThrows
    <3> QED BY <3>3, <3>4
  <2>2. Importing /\ job.at = Len(Refs) + 2 /\ byAddress' = byAddress /\ byId' = byId
    BY <2>1 DEF StoreTransaction
  <2>3. call = Idle BY <2>2 DEF RepositoryInv, RepositoryKinds
  <2>4. Pays[t] \in Range(store.list) BY <2>3 DEF AddressesRecovered, Idle
  <2>5. Listed(job.trx) /\ byId[job.trx] = Pays[job.trx] /\ job.imported
    BY <2>1, <2>2, <2>4 DEF RepositoryInv, OutputKept
  <2>6. trxs' = trxs \cup {job.trx} BY <2>1, <2>5 DEF StoreTransaction, JobThrows
  <2> QED BY <2>1, <2>2, <2>5, <2>6 DEF Listed
<1> QED BY <1>1, ImportsInStep, AddressesAreRecovered, PTL DEF Spec, PaymentsFound
=============================================================================
