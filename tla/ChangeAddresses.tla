--------------------------- MODULE ChangeAddresses ---------------------------
(***************************************************************************)
(* The change addresses of an account on disk: ChangeAddressStore and      *)
(* AbstractAddressStore (bc_wallet) over StatusStore, the key-value file   *)
(* of bc_base_conf_store.                                                  *)
(*                                                                         *)
(* Every value added to a StatusStore rewrites the file with the whole map *)
(* of the process: one save is five rewrites, and so is one load, which    *)
(* adds what it reads to the map of a new process.  The process may die    *)
(* between two of them, and a rewrite may fail.  One rewrite happens or    *)
(* not: the file is opened, written in its cache and closed, and never     *)
(* gets shorter.                                                           *)
(*                                                                         *)
(* addShortValue calls itself and a binary value throws when it is         *)
(* written, always, and WalletAccount.importTransaction never calls the    *)
(* handler it makes: scenario.shorts, scenario.binaries and                *)
(* scenario.imports say whether they work, which as the code stands is     *)
(* FALSE for all of them.                                                  *)
(***************************************************************************)
EXTENDS AddressStores, FiniteSets, SequencesExt

CONSTANTS
  Group,        \* numAddressInThisGroup
  MaxCrashes, MaxFailures  \* bounds of the model

ASSUME AddressesAssumption == Group \in Nat \ {0} /\ MaxCrashes \in Nat /\ MaxFailures \in Nat

VARIABLES
  scenario,   \* [shorts, binaries, utxos, imports]: what works
  file,       \* what the status file holds: a function from some of the keys
  map,        \* StatusStore.map of the process
  loaded,     \* what load() read
  store,      \* the ChangeAddressStore of the process (see AddressStores)
  call,       \* what runs: "down" no process, "idle", "save", "next" or "load" at one of the keys
  crashes, failures,
  handed,     \* history: serials of the addresses handed out
  unsaved     \* history: serials whose save failed, or was not finished when the process died

addressVars == <<file, map, loaded, store, call, crashes, handed, unsaved>>

Keys == <<"zone", "encryptedSeed", "adressSerial", "currentIndex", "numgroup">>
AllKeys == Range(Keys)
Nothing == [k \in {} |-> 0]

\* the values that tell stores apart; zone and seed are the account's
ValueOf(s, k) ==
  CASE k = "adressSerial" -> s.addressSerial [] k = "currentIndex" -> s.currentIndex
    [] k = "numgroup" -> s.group [] OTHER -> 0

NoStore == NewChangeStore(Group)
Down == [kind |-> "down", at |-> 1]
Idle == [kind |-> "idle", at |-> 1]
Running == call.kind # "down"
Saving == call.kind \in {"save", "next"}
Loading == call.kind = "load"

-----------------------------------------------------------------------------
(* The last address made is in the list when its save fails.               *)
Newest(s) == IF s.list = <<>> THEN {} ELSE {s.list[Len(s.list)]}

\* what is handed out: nothing when there is no address at the cursor
AtCursor(s) == IF HasNextAddress(s) THEN {NextAddress(s)} ELSE {}

\* StatusStore.__nlk_addValue: the map is set, then written; writing throws on a binary value
\* that cannot be written, whichever value was added
Writes(k, v) == map' = [j \in DOMAIN map \cup {k} |-> IF j = k THEN v ELSE map[j]]
WriteOK == "encryptedSeed" \in DOMAIN map' => scenario.binaries
\* A slip the checks must notice: the file is emptied before it is written.
WriteEmpties == failures < MaxFailures /\ failures' = failures + 1 /\ file' = Nothing

\* nothing of a rewrite that fails reaches the file
WriteFails == failures < MaxFailures /\ failures' = failures + 1 /\ file' = file

AddressInit ==
  /\ file = Nothing /\ map = Nothing /\ loaded = Nothing /\ store = NoStore
  /\ call = [kind |-> "save", at |-> 1]  \* initChangeAddressStore
  /\ crashes = 0 /\ failures = 0 /\ handed = {} /\ unsaved = {}

\* getNextChangeAddress up to its save, or to its end when there is none: it throws when no key pair can be made,
\* and when there is no address at the cursor
GetNextChangeAddress ==
  /\ call = Idle
  /\ \/ /\ NeedsNew(Wrapped(store))
        /\ \/ store' = Prepared(store) /\ call' = [kind |-> "next", at |-> 1]
           \/ store' = SerialLost(store) /\ UNCHANGED call
        /\ UNCHANGED handed
     \/ /\ ~NeedsNew(Wrapped(store))
        /\ store' = Advanced(store) /\ handed' = handed \cup AtCursor(store) /\ UNCHANGED call
  /\ UNCHANGED <<file, map, loaded, crashes, failures, unsaved>>

\* save() throws: nobody gets the address, and the store keeps it
SaveThrows ==
  /\ call' = Idle /\ unsaved' = unsaved \cup Newest(store) /\ UNCHANGED <<loaded, store, crashes, handed>>

\* save(), one value; after the last the address is handed out
SaveValue ==
  LET k == Keys[call.at] IN
  /\ Saving
  /\ \/ k = "zone" /\ ~scenario.shorts /\ UNCHANGED <<map, file, failures>> /\ SaveThrows
     \/ /\ k = "zone" => scenario.shorts
        /\ Writes(k, ValueOf(store, k))
        /\ \/ ~WriteOK /\ UNCHANGED <<file, failures>> /\ SaveThrows
           \/ WriteFails /\ SaveThrows
           \/ /\ WriteOK /\ file' = map' /\ UNCHANGED <<loaded, crashes, failures, unsaved>>
              /\ IF call.at < Len(Keys)
                 THEN call' = [call EXCEPT !.at = @ + 1] /\ UNCHANGED <<store, handed>>
                 ELSE /\ call' = Idle
                      /\ store' = IF call.kind = "next" THEN Advanced(store) ELSE store
                      /\ handed' = IF call.kind = "next" THEN handed \cup AtCursor(store) ELSE handed

\* a new process loads the account: the whole file is read first
BeginLoad ==
  /\ call = Down
  /\ loaded' = file /\ map' = Nothing /\ call' = [kind |-> "load", at |-> 1]
  /\ UNCHANGED <<file, store, crashes, failures, handed, unsaved>>

Threw == call' = Down /\ map' = Nothing /\ UNCHANGED <<loaded, store, crashes, handed, unsaved>>

ToLoad(k) == k \in DOMAIN loaded

\* load(), one value: added as it was saved, and the file rewritten with those read so far
LoadValue ==
  LET k == Keys[call.at] IN
  /\ Loading /\ call.at <= Len(Keys)
  /\ \/ ToLoad(k) /\ Writes(k, loaded[k]) /\ WriteFails /\ Threw
     \/ /\ ToLoad(k) /\ Writes(k, loaded[k]) /\ file' = map' /\ call' = [call EXCEPT !.at = @ + 1]
        /\ UNCHANGED <<loaded, store, crashes, failures, handed, unsaved>>
     \/ /\ ~ToLoad(k) /\ call' = [call EXCEPT !.at = @ + 1]
        /\ UNCHANGED <<file, map, loaded, store, crashes, failures, handed, unsaved>>

\* A slip the checks must notice: the last key pair is not derived again.
RestoredShort(m) == [list |-> [i \in 1..(m["adressSerial"] - 1) |-> i - 1], addressSerial |-> m["adressSerial"],
                     currentIndex |-> m["currentIndex"], group |-> m["numgroup"]]

\* the store after load(): the key pairs are derived again from their serials
Restored(m) == [list |-> [i \in 1..m["adressSerial"] |-> i - 1], addressSerial |-> m["adressSerial"],
                currentIndex |-> m["currentIndex"], group |-> m["numgroup"]]

\* __load and the rest of load(): it throws when a key is missing or a key pair cannot be made
EndLoad ==
  /\ Loading /\ call.at > Len(Keys)
  /\ UNCHANGED <<file, failures>>
  /\ \/ (AllKeys \subseteq DOMAIN map => map["adressSerial"] > 0) /\ Threw
     \/ /\ AllKeys \subseteq DOMAIN map
        /\ store' = Restored(map) /\ call' = Idle /\ UNCHANGED <<map, loaded, crashes, handed, unsaved>>

\* the process dies, or ends
Crash ==
  /\ Running /\ crashes < MaxCrashes /\ crashes' = crashes + 1
  /\ call' = Down /\ map' = Nothing /\ store' = NoStore
  /\ unsaved' = IF Saving THEN unsaved \cup Newest(store) ELSE unsaved
  /\ UNCHANGED <<file, loaded, failures, handed>>

AddressNext == GetNextChangeAddress \/ SaveValue \/ BeginLoad \/ LoadValue \/ EndLoad

-----------------------------------------------------------------------------
AddressTypes ==
  /\ scenario \in [shorts : BOOLEAN, binaries : BOOLEAN, utxos : BOOLEAN, imports : BOOLEAN]
  /\ \A m \in {file, map, loaded} : DOMAIN m \subseteq AllKeys /\ Range(m) \subseteq 0..Group
  /\ call.kind \in {"down", "idle", "save", "next", "load"} /\ call.at \in 1..Len(Keys) + 1
  /\ call.kind # "load" => StoreOK(store)
  /\ crashes \in 0..MaxCrashes /\ failures \in 0..MaxFailures
  /\ handed \subseteq 0..Group - 1 /\ unsaved \subseteq 0..Group - 1

\* Every change address that was handed out has a key pair in every later process that loads the
\* account, so that what is paid to it can be signed for; those whose save failed do not: the
\* address stays in the list of the process, which hands it out at the next call.
AddressesRecovered == call.kind \in {"idle", "save", "next"} => handed \ unsaved \subseteq Range(store.list)

\* Settings are lost only in a load that did not end: whatever else happens a key that is in the
\* file stays, and a load that ends leaves the file as it was when it began.
SettingsKept ==
  [][/\ ~Loading => DOMAIN file \subseteq DOMAIN file'
     /\ Loading /\ call' = Idle => file' = loaded]_<<file, loaded, call>>
=============================================================================
