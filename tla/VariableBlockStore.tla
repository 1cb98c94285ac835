------------------------- MODULE VariableBlockStore -------------------------
(***************************************************************************)
(* A file store for objects of any length                                  *)
(* (filestore_variable_block/VariableBlockFileStore, -Header, -FileBody,   *)
(* VariableBlock, VariableBlockHandle; free list: LongRangeList).          *)
(*                                                                         *)
(* The body file is cut into units of blockUnitSize bytes.  A block is a   *)
(* run of units that begins with HEADER_SIZE bytes: how many bytes it uses *)
(* and the position of the next block of the same object, 0 for none.  An  *)
(* object is a chain of blocks, known by the position of the first; how    *)
(* many units a block has is worked out from the bytes it uses.  The free  *)
(* units are kept as the set that LongRangeList implements: its ranges are *)
(* the longest runs of the set, the first one being the lowest.  They are  *)
(* saved in the header file by every sync.                                 *)
(*                                                                         *)
(* Positions are counted in units.  An allocation takes one step per       *)
(* fragment; a block's bytes are all the same value, which is what the     *)
(* unit's cell says they hold.                                             *)
(***************************************************************************)
EXTENDS Integers, Sequences, FiniteSets, Sums, LongRanges

CONSTANTS
  UnitSize,     \* blockUnitSize
  InitUnits,    \* defaultSize / blockUnitSize
  ExtendUnits,  \* extendBlocks
  MaxUnits,     \* bound: the file does not grow past this many units
  MaxUsed,      \* what a block's 16-bit used field can hold (32767)
  Sizes,        \* lengths of the objects allocated and written
  Values, Zero, \* contents of objects, and that of a new one
  KeepFirst,    \* environment: the object at position 0 is never removed
  EnoughRoom    \* environment: calls ask for what the free ranges can give

HEADER_SIZE == 10

ASSUME StoreAssumption ==
  /\ UnitSize \in Nat /\ UnitSize > HEADER_SIZE
  /\ InitUnits \in Nat \ {0} /\ ExtendUnits \in Nat \ {0}
  /\ MaxUnits \in Nat /\ InitUnits <= MaxUnits
  /\ MaxUsed \in Nat /\ Sizes \subseteq Nat
  /\ Zero \in Values
  /\ KeepFirst \in BOOLEAN /\ EnoughRoom \in BOOLEAN

Units == 0 .. MaxUnits - 1

VARIABLES
  opened,     \* the store is open
  available,  \* VariableBlockHeader.availableArea: the free units
  removed,    \* the range whose removal emptied the list: ArrayList.get(0)
              \* goes on returning it
  numBlocks,  \* VariableBlockHeader.numBlocks
  saved,      \* the header file: the list and numBlocks
  disk,       \* the body file: what each unit holds
  handles,    \* the positions of the objects that clients have
  call        \* the allocation in progress

memory == <<available, removed, numBlocks>>
vars == <<opened, memory, saved, disk, handles, call>>

-----------------------------------------------------------------------------
NoCall == [kind |-> "none"]
Hung   == [kind |-> "hung"]
Idle   == call = NoCall /\ opened

NoRange == LongRange(0, -1)

(* The range of the list that holds u, from u on, and the first one.       *)
RangeFrom(free, u) ==
  LongRange(u, CHOOSE max \in free :
                 u <= max /\ u .. max \subseteq free /\ max + 1 \notin free)
FirstRange(free) == RangeFrom(free, CHOOSE u \in free : \A w \in free : u <= w)

(* A unit that begins a block holds its header; one inside a block has     *)
(* data where the header would be.                                         *)
Inside == -1
Cell(used, next, val) == [used |-> used, next |-> next, val |-> val]

Minimum(a, b) == IF a < b THEN a ELSE b

(* Slips the checks must notice: one unit too few when the bytes fill the  *)
(* last one exactly; a header for each unit.                               *)
NumAllocationBlocksShort(size) ==
  LET remain == size - (UnitSize - HEADER_SIZE)
  IN  IF remain <= 0 THEN 1 ELSE remain \div UnitSize + 1
ToBlockUnitsLoose(used) ==
  LET total == used + HEADER_SIZE IN total \div UnitSize + 1

(* VariableBlockHeader.getNumAllocationBlocks: units for size bytes.       *)
NumAllocationBlocks(size) ==
  LET remain == size - (UnitSize - HEADER_SIZE)
  IN  IF remain <= 0 THEN 1
      ELSE remain \div UnitSize + (IF remain % UnitSize = 0 THEN 1 ELSE 2)

(* VariableBlock.toBlockSize: units of a block that uses used bytes.       *)
ToBlockUnits(used) ==
  LET total == used + HEADER_SIZE
  IN  total \div UnitSize + (IF total % UnitSize = 0 THEN 0 ELSE 1)

(* A slip the checks must notice: the headers are not counted.             *)
CapacityWithHeaders(free) == Cardinality(free) * UnitSize

(* Bytes that a block of n units has for data, and availableCapacity: what *)
(* the ranges have, each with one header.                                  *)
DataSize(n) == n * UnitSize - HEADER_SIZE
Capacity(free) ==
  Cardinality(free) * UnitSize
    - Cardinality({u \in free : u - 1 \notin free}) * HEADER_SIZE

-----------------------------------------------------------------------------
(* Blocks as a sequence of [pos, units, used]: getBlockList follows the    *)
(* next positions until it reads 0.                                        *)
Loaded(d, u) == [pos |-> u, units |-> ToBlockUnits(d[u].used), used |-> d[u].used]

BlockList(d, u) ==
  LET Pos[n \in 1 .. MaxUnits] == IF n = 1 THEN u ELSE d[Pos[n - 1]].next
      len == CHOOSE n \in 1 .. MaxUnits :
               /\ d[Pos[n]].next = 0 \/ n = MaxUnits
               /\ \A m \in 1 .. n - 1 : d[Pos[m]].next # 0
  IN  [n \in 1 .. len |-> Loaded(d, Pos[n])]

UnitsOf(b) == b.pos .. b.pos + b.units - 1

(* VariableBlock.writeBack of the blocks in turn, filled with val and each *)
(* pointing to the next; a block whose used field overflows ends it.       *)
Storable(blocks) ==
  {k \in DOMAIN blocks : \A j \in 1 .. k : blocks[j].used <= MaxUsed}

Failing(blocks) == Storable(blocks) # DOMAIN blocks

WriteBack(d, blocks, val) ==
  [u \in Units |->
     LET ks == {k \in Storable(blocks) : u \in UnitsOf(blocks[k])}
     IN  IF ks = {} THEN d[u]
         ELSE LET k == CHOOSE k \in ks : \A j \in ks : j <= k
                  next == IF k < Len(blocks) THEN blocks[k + 1].pos ELSE 0
              IN  IF u = blocks[k].pos THEN Cell(blocks[k].used, next, val)
                  ELSE Cell(Inside, 0, val)]

AvailableSize(blocks) == Total([k \in DOMAIN blocks |-> DataSize(blocks[k].units)])

(* VariableBlockHandle.needRealloc: the bytes do not fit, or they leave    *)
(* room for a unit or more.                                                *)
NeedRealloc(blocks, length) ==
  length > AvailableSize(blocks) \/ AvailableSize(blocks) - length >= UnitSize

(* VariableBlockHandle.write: each block takes what it has room for.       *)
Filled(blocks, length) ==
  [k \in DOMAIN blocks |->
     LET before == AvailableSize(SubSeq(blocks, 1, k - 1))
         room   == DataSize(blocks[k].units)
         rest   == IF length > before THEN length - before ELSE 0
     IN  [blocks[k] EXCEPT !.used = Minimum(rest, room)]]

(* freeBlock of each block: its units are free again, and its header is    *)
(* filled with zeros.                                                      *)
Freed(free, blocks) == free \cup UNION {UnitsOf(blocks[k]) : k \in DOMAIN blocks}

HeadersReset(d, blocks) ==
  [u \in Units |-> IF \E k \in DOMAIN blocks : blocks[k].pos = u
                   THEN Cell(0, 0, d[u].val) ELSE d[u]]

(* extendFile, which alloc and realloc call when the free ranges together  *)
(* hold too little: one extension, however much is asked for.              *)
Short(free, size) == free = {} \/ Capacity(free) < size

Extended(free, size) ==
  IF Short(free, size) THEN free \cup (numBlocks .. numBlocks + ExtendUnits - 1) ELSE free

NumExtended(free, size) ==
  IF Short(free, size) THEN numBlocks + ExtendUnits ELSE numBlocks

-----------------------------------------------------------------------------
(* createStore: one range of free units, saved; the body file is zeros.    *)
Init ==
  /\ opened = TRUE
  /\ available = 0 .. InitUnits - 1
  /\ removed = NoRange
  /\ numBlocks = InitUnits
  /\ saved = [available |-> 0 .. InitUnits - 1, numBlocks |-> InitUnits]
  /\ disk = [u \in Units |-> Cell(0, 0, Zero)]
  /\ handles = {}
  /\ call = NoCall

(* alloc() and realloc() begin: the file is extended, and that is saved,   *)
(* if the free units hold too little; otherwise the header file stays at   *)
(* file.  spare is what the environment leaves unused: a reallocation may  *)
(* cut a range in two, and then needs a header that availableCapacity did  *)
(* not count.                                                              *)
Begin(free, file, size, spare, next) ==
  \E extended \in {Extended(free, size)} :
    /\ NumExtended(free, size) <= MaxUnits
    /\ EnoughRoom => Capacity(extended) >= size + spare
    /\ available' = extended /\ removed' = NoRange
    /\ numBlocks' = NumExtended(free, size)
    /\ saved' = IF Short(free, size)
                THEN [available |-> available', numBlocks |-> numBlocks'] ELSE file
    /\ call' = next

Alloc(size) ==
  /\ Idle
  /\ Begin(available, saved, size, 0,
           [kind |-> "alloc", fpos |-> -1, size |-> size, val |-> Zero,
            remain |-> size, blocks |-> <<>>, old |-> [size |-> size, val |-> Zero]])
  /\ UNCHANGED <<opened, disk, handles>>

(* One turn of the loop of alloc and realloc: allocMaxFragment on the      *)
(* first free range, or reallocFirstMaxFragment on the range that holds    *)
(* the object's old position, from there on.  A range too small is taken   *)
(* whole.  When no range is left, get(0) returns the one removed last,     *)
(* and removing all of it again makes the list's size -1, so that the      *)
(* sync at the end loops for ever.                                         *)
TakeFragment ==
  /\ call.kind \in {"alloc", "realloc"}
  /\ call.remain > 0 \/ call.blocks = <<>>
  /\ LET range == IF available = {} THEN removed
                  ELSE IF call.kind = "realloc" /\ call.blocks = <<>>
                  THEN RangeFrom(available, call.fpos)
                  ELSE FirstRange(available)
         all   == call.remain > DataSize(Width(range))
         units == IF all THEN Width(range) ELSE NumAllocationBlocks(call.remain)
         used  == IF all THEN DataSize(units) ELSE call.remain
         block == [pos |-> range.min, units |-> units, used |-> used]
     IN
     /\ available' = available \ UnitsOf(block)
     /\ removed' = IF available = {} THEN LongRange(range.min + units, range.max)
                   ELSE IF available' = {} THEN FirstRange(available) ELSE NoRange
     /\ call' = IF available = {} /\ units = Width(range) THEN Hung
                ELSE [call EXCEPT !.remain = @ - used, !.blocks = Append(@, block)]
  /\ UNCHANGED <<opened, numBlocks, saved, disk, handles>>

(* A slip the checks must notice: sync does not write the header file.     *)
SyncedNot == UNCHANGED saved

Synced == saved' = [available |-> available, numBlocks |-> numBlocks]

(* The end of alloc(): the blocks are written back, then the store is      *)
(* synced; or a used field overflows, and the caller gets an exception.    *)
FinishAlloc ==
  /\ call.kind = "alloc" /\ call.remain <= 0 /\ call.blocks # <<>>
  /\ disk' = WriteBack(disk, call.blocks, Zero)
  /\ call' = NoCall
  /\ \/ /\ ~Failing(call.blocks)
        /\ handles' = handles \cup {call.blocks[1].pos}
        /\ Synced
     \/ /\ Failing(call.blocks)
        /\ UNCHANGED <<handles, saved>>
  /\ UNCHANGED <<opened, memory>>

(* handle.write() of size bytes val, where the blocks still fit: they are  *)
(* filled and written back, with no sync.                                  *)
WriteInPlace(u, size, val) ==
  LET blocks == BlockList(disk, u)  filled == Filled(blocks, size) IN
  /\ Idle /\ u \in handles
  /\ ~NeedRealloc(blocks, size)
  /\ disk' = WriteBack(disk, filled, val)
  /\ UNCHANGED <<opened, memory, saved, handles, call>>

(* ... and where they do not: removeBlocks frees them and syncs, then      *)
(* realloc begins at the same position.                                    *)
ObjectAt(d, u) ==
  LET blocks == BlockList(d, u)
      vals == UNION {{d[w].val : w \in UnitsOf(blocks[k]) \cap Units} :
                       k \in {k \in DOMAIN blocks : blocks[k].used > 0}}
  IN  [size |-> Total([k \in DOMAIN blocks |-> blocks[k].used]),
       val  |-> IF \E v \in Values : vals = {v} THEN CHOOSE v \in vals : TRUE ELSE "mixed"]

BeginRewrite(u, size, val) ==
  LET blocks == BlockList(disk, u) IN
  /\ Idle /\ u \in handles
  /\ NeedRealloc(blocks, size)
  /\ disk' = HeadersReset(disk, blocks)
  /\ Begin(Freed(available, blocks),
           [available |-> Freed(available, blocks), numBlocks |-> numBlocks],
           size, HEADER_SIZE,
           [kind |-> "realloc", fpos |-> u, size |-> size, val |-> val,
            remain |-> size, blocks |-> <<>>, old |-> ObjectAt(disk, u)])
  /\ UNCHANGED <<opened, handles>>

(* The end of that write(): realloc writes empty blocks and syncs, write() *)
(* reads the chain back, fills the blocks and writes them again.  A client *)
(* that gets an exception gives the object up.                             *)
FinishRewrite ==
  /\ call.kind = "realloc" /\ call.remain <= 0 /\ call.blocks # <<>>
  /\ LET empty  == WriteBack(disk, call.blocks, Zero)
         filled == Filled(BlockList(empty, call.fpos), call.size)
     IN
     \/ /\ ~Failing(call.blocks)
        /\ disk' = WriteBack(empty, filled, call.val)
        /\ Synced /\ UNCHANGED handles
     \/ /\ Failing(call.blocks)
        /\ disk' = empty
        /\ handles' = handles \ {call.fpos}
        /\ UNCHANGED saved
  /\ call' = NoCall
  /\ UNCHANGED <<opened, memory>>

(* handle.removeBlocks().                                                  *)
RemoveBlocks(u) ==
  LET blocks == BlockList(disk, u) IN
  /\ Idle /\ u \in handles
  /\ KeepFirst => u # 0
  /\ available' = Freed(available, blocks)
  /\ removed' = NoRange
  /\ saved' = [available |-> available', numBlocks |-> numBlocks]
  /\ disk' = HeadersReset(disk, blocks)
  /\ handles' = handles \ {u}
  /\ UNCHANGED <<opened, numBlocks, call>>

Close ==
  /\ Idle
  /\ opened' = FALSE
  /\ available' = {} /\ removed' = NoRange /\ numBlocks' = 0
  /\ UNCHANGED <<saved, disk, handles, call>>

(* open(): loadFromFile reads the list back (LongRangeList!Reload).        *)
Open ==
  /\ ~opened
  /\ opened' = TRUE
  /\ available' = saved.available
  /\ numBlocks' = saved.numBlocks
  /\ UNCHANGED <<removed, saved, disk, handles, call>>

Next ==
  \/ \E size \in Sizes : Alloc(size)
  \/ \E u \in Units :
       \/ \E size \in Sizes, val \in Values :
            WriteInPlace(u, size, val) \/ BeginRewrite(u, size, val)
       \/ RemoveBlocks(u)
  \/ TakeFragment \/ FinishAlloc \/ FinishRewrite
  \/ Close \/ Open

Spec == Init /\ [][Next]_vars

(* The loops of a synchronous call run on until it returns.                *)
Fairness == WF_vars(TakeFragment \/ FinishAlloc \/ FinishRewrite)

FairSpec == Spec /\ Fairness

-----------------------------------------------------------------------------
InCall == call.kind \in {"alloc", "realloc"}

(* Used bytes, next positions and free units stay within the file, and the *)
(* bytes left to place within the object (VariableBlock, allocMaxFragment).*)
TypeOK ==
  /\ opened \in BOOLEAN
  /\ available \subseteq Units /\ numBlocks \in 0 .. MaxUnits
  /\ \A u \in Units : disk[u].used \in Nat \cup {Inside} /\ disk[u].next \in Units
                      /\ disk[u].val \in Values
  /\ handles \subseteq Units
  /\ InCall => call.remain \in Nat /\ call.size \in Sizes

(* The objects on disk that are not being rewritten, and all the chains:   *)
(* theirs, and the one that the call in progress has taken so far.         *)
Settled == IF InCall THEN handles \ {call.fpos} ELSE handles

Chains == {BlockList(disk, u) : u \in Settled}
            \cup (IF InCall THEN {call.blocks} ELSE {})

Holds(c) == UNION {UnitsOf(c[k]) : k \in DOMAIN c}

(* No unit belongs to two objects, twice to one, or to one and the free    *)
(* list: neither fragmentation, nor growth and shrinking of objects in     *)
(* place or by moving, nor merging of freed ranges ever hands a unit out   *)
(* twice (allocMaxFragment, freeBlock, LongRangeList).                     *)
NothingShared ==
  opened =>
    /\ \A c \in Chains : /\ Holds(c) \cap available = {}
                         /\ \A j, k \in DOMAIN c : j # k => UnitsOf(c[j]) \cap UnitsOf(c[k]) = {}
    /\ \A c, d \in Chains : c # d => Holds(c) \cap Holds(d) = {}

(* No unit is lost: whatever is not free belongs to an object, so that a   *)
(* block's units, worked out from the bytes it uses, are those that were   *)
(* taken for it.                                                           *)
NothingLost ==
  opened => available \cup UNION {Holds(c) : c \in Chains} = 0 .. numBlocks - 1

(* Between calls the header file agrees with memory, so that closing or    *)
(* losing the process there loses no free unit and frees no taken one.     *)
HeaderIsCurrent == Idle => saved = [available |-> available, numBlocks |-> numBlocks]

(* The free list is never asked for a range it does not have: get(0) would *)
(* give a range out twice, or the sync loop for ever (LongRangeList.size). *)
NeverHangs == call # Hung

(* Every unit has one owner, in memory and in the header file, through     *)
(* fragmentation, growth, shrinking and moving of objects.                 *)
StoreConsistent == TypeOK /\ NothingShared /\ NothingLost /\ HeaderIsCurrent /\ NeverHangs

(* Reading an object returns what was last written to it, wherever its     *)
(* bytes had to move, and whatever happened to the other objects.          *)
Abstract == INSTANCE BlockStore
  WITH Positions <- Units,
       objects <- [u \in handles |->
                     IF call.kind = "realloc" /\ u = call.fpos THEN call.old
                     ELSE ObjectAt(disk, u)]

ImplementsBlockStore == Abstract!Spec

(* Every allocation and every write ends.                                  *)
EveryCallReturns == InCall ~> call = NoCall
=============================================================================
