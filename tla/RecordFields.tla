---------------------------- MODULE RecordFields ----------------------------
(***************************************************************************)
(* The vocabulary in which module Records states the binary form of every  *)
(* record class: what binarySize() counts, what toBinary() puts into its   *)
(* ByteBuffer and what fromBinary() takes out of one, field by field.      *)
(*                                                                         *)
(* A field is [kind, width, of, name].  Bytes are not modelled: a number   *)
(* is one cell of its width, a block of bytes a cell of its length.        *)
(***************************************************************************)
EXTENDS Integers, Sequences

Field(kind, width, of, name) == [kind |-> kind, width |-> width, of |-> of, name |-> name]

\* A number of a fixed width, or a block of bytes of a fixed length.
Num(width, name) == Field("num", width, <<>>, name)

\* A number kept in one unsigned byte and put with put(), which takes a signed one.
Byte(name) == Field("byte", 1, <<>>, name)

\* Bytes preceded by their length.
Blob(width, name) == Field("blob", width, <<>>, name)

\* A constant that says what follows.
Tag(width, type) == Field("tag", width, type, "")

\* A record of class c; a record of one of the classes cs, told apart by factory f.
Rec(c, name) == Field("record", 0, c, name)
Var(f, cs, name) == Field("variant", 0, [factory |-> f, classes |-> cs], name)

\* A count and that many times element e; a flag and, if it is 1, field e.
Many(width, e, name) == Field("list", width, e, name)
Opt(e, name) == Field("option", 1, e, name)

\* Bytes a reader passes over without keeping them; a writer's throw.
Skip(width, name) == Field("skip", width, <<>>, name)
Raise == Field("raise", 0, <<>>, "")

(***************************************************************************)
(* The binary form of a class: the fields measured, written and read, the  *)
(* fields that must be set before it can be measured, the ones copyData()  *)
(* leaves out, and what its id is the hash of: nonce for the ids of the    *)
(* UTXOs it makes, hash for its own.  An id that is rebuilt when the       *)
(* record is read is not written.                                          *)
(***************************************************************************)
Plain(fs) == [size |-> fs, write |-> fs, read |-> fs, needs |-> {}, loses |-> {},
              nonce |-> <<>>, hash |-> <<>>, rebuilt |-> FALSE]

\* The writer puts the type, which the factory has read when fromBinary() begins.
Tagged(width, type, fs) == LET tag == <<Tag(width, type)>> IN
  [Plain(fs) EXCEPT !.size = tag \o @, !.write = tag \o @]

Needs(c, names) == [c EXCEPT !.needs = @ \union names]
Loses(c, names) == [c EXCEPT !.loses = names]

\* toBinary() ends in the throw of its null guard, which no return precedes.
NoReturn(c) == [c EXCEPT !.write = Append(@, Raise)]

\* A subclass adds fields to those of its superclass.
Then(c, fs) == [c EXCEPT !.size = @ \o fs, !.write = @ \o fs, !.read = @ \o fs]

Hashed(c, hash) == [c EXCEPT !.hash = hash]
Rebuilt(c, nonce, hash) == [c EXCEPT !.nonce = nonce, !.hash = hash, !.rebuilt = TRUE]
=============================================================================
