-------------------------- MODULE RandomAccessFile --------------------------
(***************************************************************************)
(* Random access files over a shared, bounded page cache                   *)
(* (random_access_file/RandomAccessFile, MMapSegments, MMapSegment,        *)
(* DiskCacheManager, over osenv/Os and osenv/FileDescriptor).              *)
(*                                                                         *)
(* A file is cut into segments of SegmentPages pages.  MMapSegments loads  *)
(* a segment into memory on its first use and keeps it in segIndex;        *)
(* DiskCacheManager keeps the segments of EVERY open file in one list,     *)
(* most recently used first, and when the bytes it holds reach maxCache it *)
(* takes the last one out.  That only asks the owning MMapSegments to drop *)
(* the segment (removeList): it stays in segIndex, perhaps dirty, until    *)
(* the owner's next operation writes it back and forgets it.               *)
(*                                                                         *)
(* Lengths and positions are counted in pages.  A page beyond the end of a *)
(* file holds Zero.  One call runs at a time; the loops of read() and      *)
(* write() take one step per iteration, so that the process may die        *)
(* between two of them.                                                    *)
(***************************************************************************)
EXTENDS Integers, Sequences, FiniteSets

CONSTANTS
  Files,         \* the files that share the DiskCacheManager
  MaxPages,      \* bound: no file grows past this many pages
  MaxCount,      \* bound: pages read or written by one call
  SegmentPages,  \* RandomAccessFile.PAGE_NUM_CACHE
  MaxCache,      \* DiskCacheManager.maxCache
  Values, Zero,  \* contents of a page, and the content of an unwritten one
  Null,          \* buffer of a page that is not in memory
  GrowthAtEnd    \* environment: files only grow while the descriptor is at
                 \* their end (what setLength needs, see Resize below)

ASSUME FileAssumption ==
  /\ MaxPages \in Nat \ {0}
  /\ SegmentPages \in 1 .. MaxPages
  /\ MaxCount \in 1 .. MaxPages
  /\ MaxCache \in Nat
  /\ Zero \in Values
  /\ Null \notin Values
  /\ GrowthAtEnd \in BOOLEAN

Pages == 0 .. MaxPages - 1
SegmentNos == 0 .. MaxPages - 1
SegmentOf(p) == p \div SegmentPages

VARIABLES
  disk,        \* disk[f][p]: page p of the file, as the OS has it
  diskLen,     \* diskLen[f]: length of the file, as the OS has it
  opened,      \* RandomAccessFile.fd is open
  fileSize,    \* RandomAccessFile.fileSize (and MMapSegments.fileSize)
  position,    \* FileDescriptor.position: where the last transfer ended
  buffer,      \* buffer[f][p]: page p in MMapSegment.buffer, or Null
  dirty,       \* dirty[f]: segments whose MMapSegment.dirty is set
  removeList,  \* MMapSegments.removeList: evicted, not yet dropped
  lru,         \* DiskCacheManager.cache: <<file, segment>>, last used first
  cacheSize,   \* DiskCacheManager.currentSize
  call,        \* the read or write in progress
  buff,        \* what that read has returned so far
  pending      \* history: what each page may hold if the process dies now

fileVars  == <<disk, diskLen, opened, fileSize, position>>
segVars   == <<buffer, dirty, removeList>>
cacheVars == <<lru, cacheSize>>
vars == <<fileVars, segVars, cacheVars, call, buff, pending>>

-----------------------------------------------------------------------------
(* The call in progress.  A hung call is a loop that never ends.           *)
NoCall == [kind |-> "none"]
Hung   == [kind |-> "hung"]
Calls  == [kind : {"read", "write", "copy"}, file : Files,
           pos : 0 .. MaxPages, remain : 1 .. MaxPages, val : Values]

Idle == call = NoCall

(* Segments: the pages of segment i, the segments of f held in memory and  *)
(* the number of pages each maps.                                          *)
PagesOf(i) == {p \in Pages : SegmentOf(p) = i}
MappedPages(f, i) == {p \in PagesOf(i) : buffer[f][p] # Null}
InIndex(f) == {i \in SegmentNos : MappedPages(f, i) # {}}
SegmentSize(f, i) == Cardinality(MappedPages(f, i))
SegmentEnd(f, i) == i * SegmentPages + SegmentSize(f, i)
NumSegments(n) == (n + SegmentPages - 1) \div SegmentPages

(* What a read would return: the segment in memory if there is one.        *)
View(f) == [p \in Pages |-> IF buffer[f][p] # Null THEN buffer[f][p] ELSE disk[f][p]]

Evicted(f) == {removeList[f][k] : k \in DOMAIN removeList[f]}

-----------------------------------------------------------------------------
(* Slips the checks must notice: evicted segments are not written back;    *)
(* nothing is; list elements stay linked.                                  *)
FlushedButEvicted(f, S, base) ==
  [p \in Pages |-> IF SegmentOf(p) \in (S \cap dirty[f]) \ Evicted(f) /\ buffer[f][p] # Null
                   THEN buffer[f][p] ELSE base[p]]
FlushedNever(f, S, base) == base
WithoutNothing(S) == lru

(* Writing the segments of S back to base and dropping them from memory.   *)
Flushed(f, S, base) ==
  [p \in Pages |-> IF SegmentOf(p) \in S \cap dirty[f] /\ buffer[f][p] # Null
                   THEN buffer[f][p] ELSE base[p]]

Dropped(f, S) == [p \in Pages |-> IF SegmentOf(p) \in S THEN Null ELSE buffer[f][p]]

(* The descriptor's position after the dirty segments of list were written *)
(* back in that order, starting from pos.                                  *)
AfterWriteBack(f, list, pos) ==
  LET written == {k \in DOMAIN list : list[k] \in dirty[f]}
  IN  IF written = {} THEN pos
      ELSE SegmentEnd(f, list[CHOOSE k \in written : \A j \in written : j <= k])

(* The list without the elements of S (RawLinkedList.removeElement): kept  *)
(* is what stays of its first k elements.                                  *)
Without(S) ==
  LET kept[k \in 0 .. Len(lru)] ==
        IF k = 0 THEN <<>>
        ELSE IF lru[k] \in S THEN kept[k - 1] ELSE Append(kept[k - 1], lru[k])
  IN  kept[Len(lru)]

-----------------------------------------------------------------------------
Init ==
  /\ disk = [f \in Files |-> [p \in Pages |-> Zero]]
  /\ diskLen = [f \in Files |-> 0]
  /\ opened = [f \in Files |-> FALSE]
  /\ fileSize = [f \in Files |-> 0]
  /\ position = [f \in Files |-> 0]
  /\ buffer = [f \in Files |-> [p \in Pages |-> Null]]
  /\ dirty = [f \in Files |-> {}]
  /\ removeList = [f \in Files |-> <<>>]
  /\ lru = <<>>
  /\ cacheSize = 0
  /\ call = NoCall
  /\ buff = [p \in Pages |-> Zero]
  /\ pending = [f \in Files |-> [p \in Pages |-> {Zero}]]

(***************************************************************************)
(* open(): a fresh descriptor at position 0, an empty segment index, and   *)
(* for an empty file a first length of one segment (setLength, sync).      *)
(***************************************************************************)
Open(f) ==
  LET n == IF diskLen[f] = 0 THEN SegmentPages ELSE diskLen[f] IN
  /\ Idle /\ ~opened[f]
  /\ opened' = [opened EXCEPT ![f] = TRUE]
  /\ diskLen' = [diskLen EXCEPT ![f] = n]
  /\ fileSize' = [fileSize EXCEPT ![f] = n]
  /\ position' = [position EXCEPT ![f] = n - diskLen[f]]
  /\ buffer' = [buffer EXCEPT ![f] = [p \in Pages |-> Null]]
  /\ dirty' = [dirty EXCEPT ![f] = {}]
  /\ removeList' = [removeList EXCEPT ![f] = <<>>]
  /\ UNCHANGED <<disk, cacheVars, call, buff, pending>>

(***************************************************************************)
(* setLength(newLength) for newLength > fileSize.  The zeros are written   *)
(* from the descriptor's CURRENT position, because seekFile's test         *)
(* `origin = SeekOrigin.CURRENT_POS` is an assignment and FROM_END is never *)
(* reached; fileSize becomes the position where that ends.  onResized then *)
(* drops the evicted segments and the last one, and spins for ever when    *)
(* the file has fewer segments than before.  next is the call afterwards.  *)
(***************************************************************************)
Resize(f, newLength, next) ==
  LET from == position[f]
      end  == from + (newLength - fileSize[f])
      shrunk == NumSegments(end) < NumSegments(fileSize[f])
      last == NumSegments(fileSize[f]) - 1
      drops == last \in InIndex(f) \ Evicted(f) /\ ~shrunk
      gone == Evicted(f) \cup (IF drops THEN {last} ELSE {})
      zeroed == [p \in Pages |-> IF from <= p /\ p < end THEN Zero ELSE disk[f][p]]
      list == IF drops THEN Append(removeList[f], last) ELSE removeList[f]
  IN
  /\ end <= MaxPages
  /\ disk' = [disk EXCEPT ![f] = Flushed(f, gone, zeroed)]
  /\ diskLen' = [diskLen EXCEPT ![f] = IF end > @ THEN end ELSE @]
  /\ fileSize' = [fileSize EXCEPT ![f] = end]
  /\ position' = [position EXCEPT ![f] = AfterWriteBack(f, list, end)]
  /\ buffer' = [buffer EXCEPT ![f] = Dropped(f, gone)]
  /\ dirty' = [dirty EXCEPT ![f] = @ \ gone]
  /\ removeList' = [removeList EXCEPT ![f] = <<>>]
  /\ lru' = IF drops THEN Without({<<f, last>>}) ELSE lru
  /\ cacheSize' = IF drops THEN cacheSize - SegmentSize(f, last) ELSE cacheSize
  /\ call' = IF shrunk THEN Hung ELSE next
  /\ UNCHANGED opened

SetLength(f, newLength) ==
  /\ Idle /\ opened[f]
  /\ newLength > fileSize[f]
  /\ GrowthAtEnd => position[f] = diskLen[f]
  /\ Resize(f, newLength, NoCall)
  /\ UNCHANGED <<buff, pending>>

(* A slip the checks must notice: a write that marks nothing.              *)
DirtyUnmarked(f, i, W) == dirty[f] \ Evicted(f)

(* registerCache takes the last segment out when maxCache <= currentSize.  *)
CacheFull == MaxCache <= cacheSize /\ lru # <<>>

(* The dirty segments once W, pages of segment i, were written.            *)
DirtyAfter(f, i, W) == (dirty[f] \ Evicted(f)) \cup (IF W # {} THEN {i} ELSE {})

(***************************************************************************)
(* MMapSegments.getSegment for segment i, and the caller's use of what it  *)
(* returns: v goes to the pages W of the segment, which makes it dirty.    *)
(* The evicted segments are dropped first; a hit moves the segment to the  *)
(* head of the cache, a miss loads it and may push the last one out.       *)
(***************************************************************************)
GetSegment(f, i, W, v) ==
  LET out == Evicted(f)
      disk1 == Flushed(f, out, disk[f])
      hit == i \in InIndex(f) \ out
      mapped == {p \in PagesOf(i) : p < fileSize[f]}
      victim == lru[Len(lru)]
      cleared == [removeList EXCEPT ![f] = <<>>]
  IN
  /\ disk' = [disk EXCEPT ![f] = disk1]
  /\ buffer' = [buffer EXCEPT ![f] = [p \in Pages |->
                  IF p \in W THEN v
                  ELSE IF ~hit /\ p \in mapped THEN disk1[p]
                  ELSE Dropped(f, out)[p]]]
  /\ dirty' = [dirty EXCEPT ![f] = DirtyAfter(f, i, W)]
  /\ \/ /\ hit
        /\ position' = [position EXCEPT ![f] = AfterWriteBack(f, removeList[f], @)]
        /\ removeList' = cleared
        /\ lru' = <<<<f, i>>>> \o Without({<<f, i>>})
        /\ UNCHANGED cacheSize
     \/ /\ ~hit /\ ~CacheFull
        /\ position' = [position EXCEPT ![f] = i * SegmentPages + Cardinality(mapped)]
        /\ removeList' = cleared
        /\ lru' = <<<<f, i>>>> \o lru
        /\ cacheSize' = cacheSize + Cardinality(mapped)
     \/ /\ ~hit /\ CacheFull
        /\ position' = [position EXCEPT ![f] = i * SegmentPages + Cardinality(mapped)]
        /\ removeList' = [cleared EXCEPT ![victim[1]] = Append(@, victim[2])]
        /\ lru' = <<<<f, i>>>> \o SubSeq(lru, 1, Len(lru) - 1)
        /\ cacheSize' = cacheSize - SegmentSize(victim[1], victim[2]) + Cardinality(mapped)
  /\ UNCHANGED <<diskLen, opened, fileSize>>

(* Slips the checks must notice: the first page is skipped; the loop does  *)
(* not advance.                                                            *)
ChunkSkipsFirst(f, pos, remain) ==
  LET i == SegmentOf(pos) IN {p \in PagesOf(i) : pos < p /\ p < pos + remain}
AdvanceNot(P, kind) ==
  IF P = {} THEN Hung
  ELSE IF Cardinality(P) = call.remain THEN NoCall ELSE [call EXCEPT !.kind = kind]

(* The pages of [pos, pos+remain) that one iteration transfers: those the  *)
(* segment maps, be it in memory already or about to be loaded.            *)
Chunk(f, pos, remain) ==
  LET i == SegmentOf(pos) IN
  {p \in PagesOf(i) :
     /\ pos <= p /\ p < pos + remain
     /\ IF i \in InIndex(f) \ Evicted(f) THEN buffer[f][p] # Null ELSE p < fileSize[f]}

(* The call after an iteration that transferred the pages of P.            *)
Advance(P, kind) ==
  IF P = {} THEN Hung
  ELSE IF Cardinality(P) = call.remain THEN NoCall
  ELSE [call EXCEPT !.kind = kind, !.pos = @ + Cardinality(P), !.remain = @ - Cardinality(P)]

-----------------------------------------------------------------------------
BeginRead(f, pos, count) ==
  /\ Idle /\ opened[f]
  /\ pos + count <= MaxPages
  /\ call' = [kind |-> "read", file |-> f, pos |-> pos, remain |-> count, val |-> Zero]
  /\ buff' = [p \in Pages |-> Zero]
  /\ UNCHANGED <<fileVars, segVars, cacheVars, pending>>

(* One iteration of read(): getSegment throws past the end of the file,    *)
(* else the part of the segment is copied out.                             *)
ReadStep ==
  /\ call.kind = "read"
  /\ LET f == call.file  P == Chunk(f, call.pos, call.remain) IN
     \/ /\ fileSize[f] <= call.pos
        /\ call' = NoCall
        /\ UNCHANGED <<fileVars, segVars, cacheVars, buff>>
     \/ /\ call.pos < fileSize[f]
        /\ GetSegment(f, SegmentOf(call.pos), {}, Zero)
        /\ buff' = [p \in Pages |-> IF p \in P THEN buffer'[f][p] ELSE buff[p]]
        /\ call' = Advance(P, "read")
  /\ UNCHANGED pending

BeginWrite(f, pos, count, v) ==
  /\ Idle /\ opened[f]
  /\ pos + count <= MaxPages
  /\ GrowthAtEnd => \/ pos + count < fileSize[f]
                    \/ /\ position[f] = diskLen[f]
                       /\ pos + count < fileSize[f] + SegmentPages
                       /\ fileSize[f] + SegmentPages <= MaxPages
  /\ call' = [kind |-> "write", file |-> f, pos |-> pos, remain |-> count, val |-> v]
  /\ UNCHANGED <<fileVars, segVars, cacheVars, buff, pending>>

(* Each iteration of write() first makes the file one segment longer if    *)
(* the rest of the data reaches its end ...                                *)
WriteCheck ==
  /\ call.kind = "write"
  /\ LET f == call.file  next == [call EXCEPT !.kind = "copy"] IN
     \/ /\ call.pos + call.remain >= fileSize[f]
        /\ Resize(f, fileSize[f] + SegmentPages, next)
     \/ /\ call.pos + call.remain < fileSize[f]
        /\ call' = next
        /\ UNCHANGED <<fileVars, segVars, cacheVars>>
  /\ UNCHANGED <<buff, pending>>

(* ... then copies into the segment and marks it dirty.                    *)
WriteCopy ==
  /\ call.kind = "copy"
  /\ LET f == call.file  P == Chunk(f, call.pos, call.remain) IN
     \/ /\ fileSize[f] <= call.pos
        /\ call' = NoCall
        /\ UNCHANGED <<fileVars, segVars, cacheVars, pending>>
     \/ /\ call.pos < fileSize[f]
        /\ GetSegment(f, SegmentOf(call.pos), P, call.val)
        /\ pending' = [pending EXCEPT ![f] = [p \in Pages |->
                         IF p \in P THEN @[p] \cup {call.val} ELSE @[p]]]
        /\ call' = Advance(P, "write")
  /\ UNCHANGED buff

-----------------------------------------------------------------------------
(* sync() drops the evicted segments, then writes the other dirty ones     *)
(* back in index order; they stay in memory.                               *)
IndexOrder(S) == [k \in 1 .. Cardinality(S) |->
                    CHOOSE i \in S : Cardinality({j \in S : j < i}) = k - 1]

Sync(f) ==
  /\ Idle /\ opened[f]
  /\ disk' = [disk EXCEPT ![f] = Flushed(f, SegmentNos, disk[f])]
  /\ position' = [position EXCEPT ![f] =
       AfterWriteBack(f, removeList[f] \o IndexOrder(dirty[f] \ Evicted(f)), @)]
  /\ buffer' = [buffer EXCEPT ![f] = Dropped(f, Evicted(f))]
  /\ dirty' = [dirty EXCEPT ![f] = {}]
  /\ removeList' = [removeList EXCEPT ![f] = <<>>]
  /\ pending' = [pending EXCEPT ![f] = [p \in Pages |-> {View(f)[p]}]]
  /\ UNCHANGED <<diskLen, opened, fileSize, cacheVars, call, buff>>

(* close() (clearElements, then sync) writes everything back and takes the *)
(* file's segments out of the shared cache.                                *)
Close(f) ==
  LET kept == InIndex(f) \ Evicted(f) IN
  /\ Idle /\ opened[f]
  /\ disk' = [disk EXCEPT ![f] = Flushed(f, SegmentNos, disk[f])]
  /\ opened' = [opened EXCEPT ![f] = FALSE]
  /\ buffer' = [buffer EXCEPT ![f] = [p \in Pages |-> Null]]
  /\ dirty' = [dirty EXCEPT ![f] = {}]
  /\ removeList' = [removeList EXCEPT ![f] = <<>>]
  /\ lru' = Without({f} \X kept)
  /\ cacheSize' = cacheSize - Cardinality(UNION {MappedPages(f, i) : i \in kept})
  /\ position' = [position EXCEPT ![f] = 0]
  /\ fileSize' = [fileSize EXCEPT ![f] = 0]
  /\ pending' = [pending EXCEPT ![f] = [p \in Pages |-> {View(f)[p]}]]
  /\ UNCHANGED <<diskLen, call, buff>>

(***************************************************************************)
(* The process dies, in the middle of a call or after the first k segments *)
(* of f were written back by a sync or a close: the files stay as the OS   *)
(* has them and all that is in memory is gone.                             *)
(***************************************************************************)
Crash(f, k) ==
  /\ \E g \in Files : opened[g]
  /\ disk' = [disk EXCEPT ![f] = Flushed(f, {i \in SegmentNos : i < k}, disk[f])]
  /\ opened' = [g \in Files |-> FALSE]
  /\ fileSize' = [g \in Files |-> 0]
  /\ position' = [g \in Files |-> 0]
  /\ buffer' = [g \in Files |-> [p \in Pages |-> Null]]
  /\ dirty' = [g \in Files |-> {}]
  /\ removeList' = [g \in Files |-> <<>>]
  /\ lru' = <<>>
  /\ cacheSize' = 0
  /\ call' = NoCall
  /\ pending' = [g \in Files |-> [p \in Pages |-> {disk'[g][p]}]]
  /\ UNCHANGED <<diskLen, buff>>

Next ==
  \/ \E f \in Files :
       \/ Open(f)
       \/ \E n \in 1 .. MaxPages : SetLength(f, n)
       \/ \E pos \in Pages, n \in 1 .. MaxCount : BeginRead(f, pos, n)
       \/ \E pos \in Pages, n \in 1 .. MaxCount, v \in Values : BeginWrite(f, pos, n, v)
       \/ Sync(f)
       \/ Close(f)
       \/ \E k \in 0 .. MaxPages : Crash(f, k)
  \/ ReadStep \/ WriteCheck \/ WriteCopy

Spec == Init /\ [][Next]_vars

(* The loops of a synchronous call run on until it returns.                *)
Fairness == WF_vars(ReadStep) /\ WF_vars(WriteCheck) /\ WF_vars(WriteCopy)

FairSpec == Spec /\ Fairness

-----------------------------------------------------------------------------
(* The type of the files' state, their segments and the call in progress.  *)
TypeOK ==
  /\ disk \in [Files -> [Pages -> Values]]
  /\ diskLen \in [Files -> 0 .. MaxPages]
  /\ opened \in [Files -> BOOLEAN]
  /\ fileSize \in [Files -> 0 .. MaxPages]
  /\ buffer \in [Files -> [Pages -> Values \cup {Null}]]
  /\ dirty \in [Files -> SUBSET SegmentNos]
  /\ removeList \in [Files -> Seq(SegmentNos)]
  /\ lru \in Seq(Files \X SegmentNos)
  /\ call \in Calls \cup {NoCall, Hung}
  /\ buff \in [Pages -> Values]
  /\ pending \in [Files -> [Pages -> SUBSET Values]]

(* A segment in memory that is not marked dirty holds what the file holds, *)
(* so that forgetting it loses nothing: setDirty in write(), writeBack in  *)
(* every place that drops a segment.                                       *)
CleanMatchesDisk ==
  \A f \in Files, p \in Pages :
    buffer[f][p] # Null /\ SegmentOf(p) \notin dirty[f] => buffer[f][p] = disk[f][p]

(* What the process would lose by dying is only what was written since the *)
(* last sync() or close(): every page of the file holds a pending value,   *)
(* although an evicted segment may have been written back at any time.     *)
DiskIsPending ==
  \A f \in Files, p \in Pages :
    /\ disk[f][p] \in pending[f][p]
    /\ View(f)[p] \in pending[f][p]

(* The shared cache lists each segment in memory exactly once, unless its  *)
(* eviction is still waiting in its file's removeList, and currentSize is  *)
(* the number of pages the listed segments map: the bookkeeping of         *)
(* registerCache, fireCacheHit and fireCacheRemoved over all files agrees  *)
(* with the segment indexes.                                               *)
CacheAccounting ==
  LET listed == {lru[k] : k \in DOMAIN lru}
      pages == {fp \in Files \X Pages :
                  buffer[fp[1]][fp[2]] # Null /\ <<fp[1], SegmentOf(fp[2])>> \in listed}
  IN  /\ listed = UNION {{f} \X (InIndex(f) \ Evicted(f)) : f \in Files}
      /\ Len(lru) = Cardinality(listed)
      /\ \A f \in Files : Len(removeList[f]) = Cardinality(Evicted(f))
      /\ cacheSize = Cardinality(pages)

(* registerCache takes out ONE segment however small, and lets any segment *)
(* in, however large: what stays bounded is the number of segments, so the *)
(* cache may hold maxCache segments rather than maxCache pages.            *)
CacheBounded ==
  cacheSize <= SegmentPages * (IF MaxCache = 0 THEN 1 ELSE MaxCache)

(* The state the files share is consistent, whoever evicts whose segments. *)
CacheConsistent == TypeOK /\ CacheAccounting /\ CacheBounded

(* When a file grows, the pages it already had keep their content          *)
(* (setLength's caller: "extend file size", VariableBlockFileStore).       *)
GrowthKeepsContent ==
  [][\A f \in Files : opened[f] /\ opened'[f] /\ fileSize'[f] # fileSize[f]
       => \A p \in Pages : p < fileSize[f] => View(f)'[p] = View(f)[p]]_vars

(* No loop of the file layer runs for ever.                                *)
NeverHangs == call # Hung

(* The file layer implements the paged file: whatever is in memory, on     *)
(* disk, evicted but not yet written, reads return the last write, growth  *)
(* appends zeros, and a crash leaves pending values only.                  *)
Abstract == INSTANCE PagedFile
              WITH content <- [f \in Files |-> View(f)], size <- diskLen

ImplementsPagedFile == Abstract!Spec

(* Every read or write that was started returns (or the process dies).     *)
EveryCallReturns == (call.kind \in {"read", "write", "copy"}) ~> Idle
=============================================================================
