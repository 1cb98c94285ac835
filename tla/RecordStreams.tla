---------------------------- MODULE RecordStreams ---------------------------
(***************************************************************************)
(* Writing a record and reading it back.  A record is built, measured,     *)
(* written into a buffer of that size and read from it, or copied; each    *)
(* step may throw.  Module Records gives each class's binary form; here is *)
(* what measuring, writing, reading and copying do with one, and what      *)
(* every class must satisfy.                                               *)
(*                                                                         *)
(* A buffer is a sequence of cells, one per call of a put method of        *)
(* db/base_io/ByteBuffer.ts.  A get of the width of the cell at the        *)
(* position returns it; a get of another width would return a mixture of   *)
(* neighbouring bytes: the reader is lost from there on.                   *)
(*                                                                         *)
(* In mode "code" a writer that throws stops there, as the program does.   *)
(* Several writers of this code always throw (NoReturn in Records): in     *)
(* mode "whole" the throw is passed over and the buffer is as large as it  *)
(* takes, so that everything else about the classes they are part of can   *)
(* be checked too.                                                         *)
(***************************************************************************)
EXTENDS RecordFields, FiniteSets, SequencesExt, TLC

CONSTANTS
  Codec,      \* the binary form of every class (module Records)
  Factory,    \* what every factory makes of the type it reads
  MaxList,    \* bound of the model: elements of a list of the outermost record
  MaxByte     \* the largest count a one-byte field holds (127 in the code)

ASSUME BoundsAssumption == MaxList \in Nat /\ MaxByte \in Nat

VARIABLES
  mode,       \* "code" or "whole"
  phase,      \* "new", "built", "measured", "written", "read", "copied", "thrown", "lost"
  subject,    \* the record
  size,       \* what binarySize() returned
  cells,      \* what toBinary() put into the buffer
  back        \* what fromBinary() or copyData() returned

vars == <<mode, phase, subject, size, cells, back>>

Classes == DOMAIN Codec
Null == [class |-> "null", data |-> <<>>]

\* What the constructor leaves in a field.
Unread == <<"default">>
Nothing == [class |-> "default", data |-> <<>>]
Default(f) == CASE f.kind \in {"num", "byte"} -> Unread
                [] f.kind = "blob" -> [len |-> 0, path |-> Unread]
                [] f.kind = "list" -> <<>>
                [] OTHER -> Nothing

Fields(form) == form.size \o form.write \o form.hash
NamesOf(fs) == {fs[i].name : i \in DOMAIN fs} \ {""}
Named(fs, x) == fs[CHOOSE i \in DOMAIN fs : fs[i].name = x]
Names(c) == NamesOf(Fields(Codec[c]))
FieldOf(c, x) == Named(Fields(Codec[c]), x)

\* The nonce of a UTXO is hashed into its id and not written.
Transient(c) == IF c \in {"BalanceUtxo", "TicketUtxo", "TicketVotedUtxo", "RemoteBalanceUtxo"} THEN {"nonce"} ELSE {}

(***************************************************************************)
(* The records that are tried: every number is told apart by its place,    *)
(* lists get shorter as records nest, optional parts are all there or all  *)
(* missing (and then bytes exceed 127), a variant field goes through its   *)
(* classes, and of two blobs one is shorter, equal or longer.              *)
(***************************************************************************)
Elements(n, depth) == IF n > depth THEN n - depth ELSE 0
Length(x, n) == IF x \in {"e", "publicKey"} THEN n + 1 ELSE 2

RECURSIVE Options(_), Sample(_, _, _, _), SampleValue(_, _, _, _)
Sample(c, path, depth, s) ==
  [class |-> c, data |-> [x \in Names(c) |-> SampleValue(FieldOf(c, x), Append(path, x), depth, s)]]
SampleValue(f, path, depth, s) ==
  CASE f.kind = "num" -> path
    [] f.kind = "byte" -> <<IF s.present THEN "low" ELSE "high">> \o path
    [] f.kind = "blob" -> [len |-> Length(f.name, s.n), path |-> path]
    [] f.kind = "record" -> Sample(f.of, path, depth + 1, s)
    [] f.kind = "variant" -> Sample(f.of.classes[((s.pick + depth) % Len(f.of.classes)) + 1], path, depth + 1, s)
    [] f.kind = "option" -> IF s.present THEN SampleValue(f.of, path, depth, s) ELSE Null
    [] f.kind = "list" -> [i \in 1..Elements(s.n, depth) |->
         SampleValue(f.of, Append(path, ToString(i)), depth, [s EXCEPT !.pick = @ + i])]

Options(f) == IF f.kind \in {"list", "option"} THEN Options(f.of)
              ELSE IF f.kind = "variant" THEN Len(f.of.classes) ELSE 1
Picks(c) == Max({1} \union {Options(FieldOf(c, x)) : x \in Names(c)})

\* The record just made by its constructor: what must be set is not.
Blank(o) == [o EXCEPT !.data = [x \in DOMAIN @ |-> IF x \in Codec[o.class].needs THEN Null ELSE @[x]]]

(***************************************************************************)
(* Measuring, writing, reading, copying.                                   *)
(***************************************************************************)
Unset(o) == \E x \in Codec[o.class].needs : o.data[x] = Null

RECURSIVE Total(_)
Total(ns) == IF ns = <<>> THEN 0 ELSE Head(ns) + Total(Tail(ns))

RECURSIVE Measure(_), MeasureField(_, _)
\* The size of the fields fs of record o.
MeasureAll(fs, o) == Total([i \in DOMAIN fs |-> MeasureField(fs[i], IF fs[i].name = "" THEN Null ELSE o.data[fs[i].name])])
Measure(o) == MeasureAll(Codec[o.class].size, o)
MeasureField(f, v) ==
  CASE f.kind \in {"num", "byte", "tag"} -> f.width
    [] f.kind = "raise" -> 0
    [] f.kind = "blob" -> f.width + v.len
    [] f.kind \in {"record", "variant"} -> Measure(v)
    [] f.kind = "option" -> f.width + (IF v = Null THEN 0 ELSE MeasureField(f.of, v))
    [] f.kind = "list" -> f.width + Total([i \in DOMAIN v |-> MeasureField(f.of, v[i])])

Cell(width, num, path) == [width |-> width, num |-> num, path |-> path]
Payload == -1
Count(width, n) == <<Cell(width, n, <<>>)>>
Throw == <<Cell(0, Payload, <<"throw">>)>>

\* What a writer puts, with a Throw where it throws.
RECURSIVE Script(_), ScriptField(_, _)
ScriptAll(fs, o) == FlattenSeq([i \in DOMAIN fs |-> ScriptField(fs[i], IF fs[i].name = "" THEN Null ELSE o.data[fs[i].name])])
Script(o) == ScriptAll(Codec[o.class].write, o)
ScriptField(f, v) ==
  CASE f.kind = "num" -> <<Cell(f.width, Payload, v)>>
    [] f.kind = "byte" -> (IF Head(v) = "high" THEN Throw ELSE <<>>) \o <<Cell(1, Payload, v)>>
    [] f.kind = "tag" -> Count(f.width, f.of)
    [] f.kind = "raise" -> Throw
    [] f.kind = "blob" -> Count(f.width, v.len) \o <<Cell(v.len, Payload, v.path)>>
    [] f.kind \in {"record", "variant"} -> Script(v)
    [] f.kind = "option" -> IF v = Null THEN Count(1, 0) ELSE Count(1, 1) \o ScriptField(f.of, v)
    [] f.kind = "list" -> (IF f.width = 1 /\ Len(v) > MaxByte THEN Throw ELSE <<>>)
         \o (IF f.width = 0 THEN <<>> ELSE Count(f.width, Len(v))) \o FlattenSeq([i \in DOMAIN v |-> ScriptField(f.of, v[i])])

Put(script) == SelectSeq(script, LAMBDA c : <<c>> # Throw)
Bytes(cs) == Total([i \in DOMAIN cs |-> cs[i].width])

\* A writer is stopped by a throw and by the end of a buffer of the given capacity.
Stopped(script, capacity) == \/ \E i \in DOMAIN script : <<script[i]>> = Throw
                             \/ Bytes(Put(script)) > capacity

Lost == [at |-> 0, value |-> Null]

\* What is read with field f from cell i of cs on, or with the fields fs: its value (or values) and the next cell.
Prepend(v, rest) == IF rest = Lost THEN Lost ELSE [at |-> rest.at, value |-> <<v>> \o rest.value]

RECURSIVE Read(_, _, _), ReadField(_, _, _), ReadAll(_, _, _), ReadRest(_, _, _)
ReadField(f, cs, i) ==
  LET here == IF i \in DOMAIN cs THEN cs[i] ELSE Cell(0, Payload, <<"end">>)
      control == here.width = f.width /\ here.num # Payload
      at == i + 1
  IN
  CASE f.kind \in {"num", "byte", "skip"} ->
         IF here.width # f.width \/ here.num # Payload THEN Lost
         ELSE [at |-> at, value |-> IF f.kind = "skip" THEN Unread ELSE here.path]
    [] f.kind = "tag" -> IF control /\ here.num = f.of THEN [at |-> at, value |-> Null] ELSE Lost
    [] f.kind = "blob" ->
         IF control /\ at \in DOMAIN cs /\ cs[at].width = here.num /\ cs[at].num = Payload
         THEN [at |-> at + 1, value |-> [len |-> here.num, path |-> cs[at].path]] ELSE Lost
    [] f.kind = "record" -> Read(f.of, cs, i)
    [] f.kind = "variant" ->
         LET g == Factory[f.of.factory] IN
         IF here.width = g.width /\ here.num \in DOMAIN g.types THEN Read(g.types[here.num], cs, at) ELSE Lost
    [] f.kind = "option" ->
         IF ~control THEN Lost ELSE IF here.num = 0 THEN [at |-> at, value |-> Null] ELSE ReadField(f.of, cs, at)
    [] f.kind = "list" -> IF control THEN ReadAll([k \in 1..here.num |-> f.of], cs, at) ELSE Lost
ReadAll(fs, cs, i) ==
  IF fs = <<>> THEN [at |-> i, value |-> <<>>] ELSE ReadRest(ReadField(Head(fs), cs, i), Tail(fs), cs)
ReadRest(first, fs, cs) == IF first = Lost THEN Lost ELSE Prepend(first.value, ReadAll(fs, cs, first.at))

\* The record of class c whose fields fs were read with result r; the reader leaves the others as they were.
Assemble(c, fs, r) ==
  LET ValueOf(x) == LET ks == {k \in DOMAIN fs : fs[k].name = x} IN
                    IF ks = {} THEN Default(FieldOf(c, x)) ELSE r.value[CHOOSE k \in ks : TRUE]
  IN IF r = Lost THEN Lost ELSE [at |-> r.at, value |-> [class |-> c, data |-> [x \in Names(c) |-> ValueOf(x)]]]
Read(c, cs, i) == Assemble(c, Codec[c].read, ReadAll(Codec[c].read, cs, i))

\* Records told apart by a factory are read through it.
Factories(c) == {f \in DOMAIN Factory : \E t \in DOMAIN Factory[f].types : Factory[f].types[t] = c}
Load(c, cs) == IF Factories(c) = {} THEN Read(c, cs, 1)
               ELSE ReadField(Var(CHOOSE f \in Factories(c) : TRUE, <<c>>, ""), cs, 1)

\* copyData(): through the binary form where AbstractUtxoReference, AbstractBlockchainTransaction
\* and BlockHeader define it so, field by field otherwise.
ViaBinary(c) == "AbstractUtxoReference" \in Factories(c) \/ "AbstractBlockchainTransaction" \in Factories(c) \/ c = "BlockHeader"
RECURSIVE CopyOf(_), CopyField(_, _, _), CopyValue(_, _)
CopyOf(o) == [o EXCEPT !.data = [x \in DOMAIN @ |-> CopyField(FieldOf(o.class, x), x \in Codec[o.class].loses, @[x])]]
CopyField(f, lost, v) == IF lost THEN Default(f) ELSE CopyValue(f, v)
CopyValue(f, v) ==
  CASE f.kind \in {"record", "variant"} -> IF ViaBinary(v.class) THEN Load(v.class, Put(Script(v))).value ELSE CopyOf(v)
    [] f.kind = "option" -> IF v = Null THEN Null ELSE CopyValue(f.of, v)
    [] f.kind = "list" -> [i \in DOMAIN v |-> CopyValue(f.of, v[i])]
    [] OTHER -> v

\* What the ids of a record are the hash of.
IdScript(o) == ScriptAll(Codec[o.class].nonce, o) \o ScriptAll(Codec[o.class].hash, o)
IdSize(o) == MeasureAll(Codec[o.class].nonce, o) + MeasureAll(Codec[o.class].hash, o)

(***************************************************************************)
(* The steps.                                                              *)
(***************************************************************************)
Init ==
  /\ mode \in {"code", "whole"}
  /\ phase = "new" /\ size = 0 /\ cells = <<>> /\ back = Null
  /\ \E c \in Classes : \E n \in 0..MaxList, present, blank \in BOOLEAN, pick \in 1..Picks(c) :
       LET o == Sample(c, <<>>, 0, [n |-> n, present |-> present, pick |-> pick])
       IN subject = IF blank THEN Blank(o) ELSE o

\* build(), buildHeaderId(), buildCommandId(): the id is computed once the fields are set.
Build ==
  /\ phase = "new" /\ ~Unset(subject)
  /\ phase' = IF mode = "code" /\ Stopped(IdScript(subject), IdSize(subject)) THEN "thrown" ELSE "built"
  /\ UNCHANGED <<mode, subject, size, cells, back>>

MeasureRecord ==
  /\ phase \in {"new", "built"} /\ (phase = "new" => Unset(subject))
  /\ IF Unset(subject) THEN phase' = "thrown" /\ size' = size
                       ELSE phase' = "measured" /\ size' = Measure(subject)
  /\ UNCHANGED <<mode, subject, cells, back>>

Write ==
  /\ phase = "measured"
  /\ LET script == Script(subject) IN
     IF mode = "code" /\ Stopped(script, size) THEN phase' = "thrown" /\ cells' = cells
     ELSE phase' = "written" /\ cells' = Put(script)
  /\ UNCHANGED <<mode, subject, size, back>>

ReadBack ==
  /\ phase = "written"
  /\ LET r == Load(subject.class, cells) IN
     /\ phase' = IF r.at = Len(cells) + 1 THEN "read" ELSE "lost"
     /\ back' = r.value
  /\ UNCHANGED <<mode, subject, size, cells>>

Copy ==
  /\ phase = "built" /\ mode = "whole"
  /\ LET v == CopyValue(Rec(subject.class, ""), subject) IN
     /\ phase' = IF v = Null THEN "lost" ELSE "copied"
     /\ back' = v
  /\ UNCHANGED <<mode, subject, size, cells>>

Next == Build \/ MeasureRecord \/ Write \/ ReadBack \/ Copy
Spec == Init /\ [][Next]_vars

-----------------------------------------------------------------------------
\* The classes a record is made of.
RECURSIVE Parts(_), PartsOf(_, _)
Parts(o) == {o.class} \union UNION {PartsOf(FieldOf(o.class, x), o.data[x]) : x \in DOMAIN o.data}
PartsOf(f, v) ==
  CASE f.kind \in {"record", "variant"} -> IF v = Null THEN {} ELSE Parts(v)
    [] f.kind = "option" -> IF v = Null THEN {} ELSE PartsOf(f.of, v)
    [] f.kind = "list" -> UNION {PartsOf(f.of, v[i]) : i \in DOMAIN v}
    [] OTHER -> {}
Free(cs) == Parts(subject) \intersect cs = {}

\* A record without what its binary form leaves out.
RECURSIVE Stored(_), StoredValue(_, _)
Stored(o) == [o EXCEPT !.data = [x \in DOMAIN @ |-> IF x \in Transient(o.class) THEN Unread ELSE StoredValue(FieldOf(o.class, x), @[x])]]
StoredValue(f, v) ==
  CASE f.kind \in {"record", "variant"} -> IF v = Nothing THEN Nothing ELSE Stored(v)
    [] f.kind = "option" -> IF v = Null THEN Null ELSE StoredValue(f.of, v)
    [] f.kind = "list" -> [i \in DOMAIN v |-> StoredValue(f.of, v[i])]
    [] OTHER -> v

(***************************************************************************)
(* Properties.                                                             *)
(***************************************************************************)
\* A buffer of binarySize() bytes is filled by toBinary() to the last byte, whatever the record is made of:
\* the writers put into exactly sized buffers and the readers take what they find.  Two classes of this code
\* count wrongly and are left out: SchnorrSignature (e twice) and InputUtxoCollection (one byte for two).
SizeIsExact ==
  phase \in {"written", "read"} /\ Free({"SchnorrSignature", "InputUtxoCollection"}) => Bytes(cells) = size

\* What was written is read back: the same class, the same fields, to the end of the buffer.  Left out are the
\* three classes whose reader does not match their writer: SchnorrSignature, BlockMerkleRoot (so every header
\* and block) and VoteBlockTransaction.
ReadRestores ==
  phase \in {"read", "lost"} /\ cells # <<>> /\ Free({"SchnorrSignature", "BlockMerkleRoot", "VoteBlockTransaction"})
    => phase = "read" /\ Stored(back) = Stored(subject)

\* The id the reader rebuilds is the id the writer computed: nothing that is hashed is left out of the binary form.
IdSurvives ==
  phase = "read" /\ Codec[subject.class].rebuilt /\ Free({"SchnorrSignature", "BlockMerkleRoot", "VoteBlockTransaction"})
    => IdScript(back) = IdScript(subject)

\* A copy is the record it was made of.  Left out is BalanceUtxo (and RemoteBalanceUtxo), whose copy has neither
\* the id nor the nonce of the original, and what cannot be read back.
CopyIsSame ==
  phase \in {"copied", "lost"} /\ cells = <<>>
    /\ Free({"BalanceUtxo", "RemoteBalanceUtxo", "SchnorrSignature", "BlockMerkleRoot", "VoteBlockTransaction"})
    => phase = "copied" /\ Stored(back) = Stored(subject)
=============================================================================
