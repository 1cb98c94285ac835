---------------------------- MODULE AddressStores ----------------------------
(***************************************************************************)
(* The change addresses of an account (bc_wallet/AbstractAddressStore,     *)
(* ChangeAddressStore), as operators on the record of one store:           *)
(*   list           the serial every address was derived from              *)
(*   addressSerial  the next serial                                        *)
(*   currentIndex   the cursor that rotates through the group              *)
(*   group          numAddressInThisGroup                                  *)
(* A key pair is a function of the seed, the zone and the serial, so that  *)
(* an address is its serial.                                               *)
(***************************************************************************)
EXTENDS Integers, Sequences

NewChangeStore(group) == [list |-> <<>>, addressSerial |-> 0, currentIndex |-> 0, group |-> group]

\* getNextChangeAddress, step by step: the cursor wraps ...
Wrapped(s) == IF s.currentIndex >= s.group THEN [s EXCEPT !.currentIndex = 0] ELSE s
\* ... while the group is not full a serial is taken, a key pair is made from it, listed, and saved ...
NeedsNew(s) == s.currentIndex >= s.addressSerial /\ Len(s.list) < s.group
WithSerialTaken(s) == [s EXCEPT !.addressSerial = @ + 1]
WithNew(s) == [WithSerialTaken(s) EXCEPT !.list = Append(@, s.addressSerial)]
Prepared(s) == LET w == Wrapped(s) IN IF NeedsNew(w) THEN WithNew(w) ELSE w
\* ... and the address at the cursor is handed out, if there is one.  The cursor moves in any case.
HasNextAddress(s) == Prepared(s).currentIndex < Len(Prepared(s).list)
NextAddress(s) == Prepared(s).list[Prepared(s).currentIndex + 1]
\* A slip the checks must notice: the cursor stays where it is.
Unmoved(s) == Prepared(s)
Advanced(s) == [Prepared(s) EXCEPT !.currentIndex = @ + 1]

\* The stores a call that throws may leave: no key pair is made (the seed is missing or cannot be decoded) and the
\* serial is lost; the pair is listed and saving it fails; there is no address at the cursor.
SerialLost(s) == WithSerialTaken(Wrapped(s))
AfterThrow(s) == {t \in {SerialLost(s), Prepared(s)} : NeedsNew(Wrapped(s))} \cup {t \in {Advanced(s)} : ~HasNextAddress(s)}

\* A serial was taken and no key pair made from it.
HasLost(s) == Len(s.list) < s.addressSerial

\* The store in memory is consistent: each serial is derived once, in order, and all of them unless one was lost.
StoreOK(s) == /\ \A i \in 1..Len(s.list) : s.list[i] < s.addressSerial
              /\ \A i, j \in 1..Len(s.list) : i < j => s.list[i] < s.list[j]
              /\ Len(s.list) <= s.addressSerial
              /\ ~HasLost(s) => s.list = [i \in 1..s.addressSerial |-> i - 1]
              /\ s.addressSerial \in 0..s.group
              /\ s.currentIndex \in 0..s.addressSerial
=============================================================================
